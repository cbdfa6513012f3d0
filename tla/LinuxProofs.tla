----------------------------- MODULE LinuxProofs -----------------------------
(***************************************************************************)
(* Proofs about the Linux window: its modal views, the places it goes back *)
(* to, the main window, its bookmarks, its list of transfers, and what     *)
(* both windows share.  Each component has an inductive invariant: its     *)
(* states satisfy it at the start (...Starts), every step keeps it         *)
(* (...Step), and what the suite checks follows from it (...Holds).  The   *)
(* last section puts them together for a behaviour of MCLinux, for every   *)
(* value of its constants.                                                 *)
(***************************************************************************)
EXTENDS MCLinux, Sequences, SequenceTheorems, FiniteSets, FiniteSetTheorems, FunctionTheorems,
        TLAPS

(***************************************************************************)
(* The modal views: the window and its frame                               *)
(***************************************************************************)

\* Where a pane, or a side of a comparison, is.
Places == {"l", "ld", "r", "rd", "none"}
\* What is selected, or restored.
Names == {"a", "b", "none", "top", "child"}
\* Where the window goes when a search is over.
Navs == {Found!NoNav} \cup [pane : Found!Panes, dir : Places]
\* The states of a search.
Modes == [active : BOOLEAN, running : BOOLEAN, pane : Found!Panes, seq : Nat,
  found : SUBSET Names,
          sel : BOOLEAN, restore : Names, nav : Navs]
\* The states of a comparison.
Pair == [active : BOOLEAN, running : BOOLEAN, restore : BOOLEAN, seq : Nat,
         base : [Found!Panes -> Places], snap : [Found!Panes -> Places], entries : Names,
         sel : BOOLEAN, nav : BOOLEAN]
\* The rows of a pane.
Shown == [from : {"list", "search", "compare"}, dir : Places, names : SUBSET Names]
\* The states of the window.
Windows == [busy : BOOLEAN, connected : BOOLEAN, cur : [Found!Panes -> Places],
            all : [Found!Panes -> Places], query : [Found!Panes -> BOOLEAN],
            rows : [Found!Panes -> Shown], sel : [Found!Panes -> Names],
            search : Modes, compare : Pair]

\* A listing gives the rows of its directory.
LEMMA ListingTyped ==
    ASSUME NEW d \in Places, NEW q \in BOOLEAN
    PROVE  Found!Listing(d, q) \in Shown /\ Found!Listing(d,q).from = "list"
           /\ Found!Listing(d,q).dir = d
  BY DEF Found!Listing, Shown, Places, Names

\* The directories of both panes are places.
LEMMA PlacesTyped ==
    Found!Top \in [Found!Panes -> Places] /\ Found!Child \in [Found!Panes -> Places]
    /\ \A p \in Found!Panes : Found!Dir[p] \subseteq Places
<1>1. Found!Top = [p \in Found!Panes |-> IF p = "local" THEN "l" ELSE "r"]
  BY DEF Found!Top, Found!Panes
<1>2. Found!Child = [p \in Found!Panes |-> IF p = "local" THEN "ld" ELSE "rd"]
  BY DEF Found!Child, Found!Panes
<1>3. \A p \in Found!Panes : Found!Dir[p] \subseteq Places
  BY DEF Found!Dir, Found!Panes, Places
<1> QED
  BY <1>1, <1>2, <1>3 DEF Places

\* A new window is one of them.
LEMMA NewTyped ==
    Found!NewWindow \in Windows
<1>1. \A q \in BOOLEAN : \A p \in Found!Panes : Found!Listing(IF p = "local" THEN "l"
        ELSE "none", q) \in Shown
  BY ListingTyped DEF Places
<1>2. Found!NoNav \in Navs
  BY DEF Navs
<1>3. [active |-> FALSE, running |-> FALSE, pane |-> "local", seq |-> 0,
                 found |-> {}, sel |-> FALSE, restore |-> "none", nav |-> Found!NoNav] \in Modes
  BY <1>2 DEF Modes, Found!Panes, Names
<1>4. [active |-> FALSE, running |-> FALSE, restore |-> FALSE, seq |-> 0,
                  base |-> Found!Top, snap |-> Found!Top, entries |-> "none", sel |-> FALSE,
                  nav |-> FALSE] \in Pair
  BY PlacesTyped DEF Pair, Names
<1> DEFINE a == [p \in Found!Panes |-> IF p = "local" THEN "l" ELSE "none"]
           q == [p \in Found!Panes |-> FALSE]
           r == [p \in Found!Panes |-> Found!Listing(IF p = "local" THEN "l" ELSE "none", FALSE)]
           e == [p \in Found!Panes |-> "none"]
<1>5. a \in [Found!Panes -> Places] /\ q \in [Found!Panes -> BOOLEAN]
        /\ e \in [Found!Panes -> Names]
  BY DEF Places, Names
<1>6. r \in [Found!Panes -> Shown]
  BY <1>1
<1> HIDE DEF a, q, r, e
<1>7. \A s \in Modes, c \in Pair, u \in [Found!Panes -> Places] :
        [busy |-> FALSE, connected |-> FALSE, cur |-> u, all |-> a, query |-> q, rows |-> r,
          sel |-> e,
         search |-> s, compare |-> c] \in Windows
  BY <1>5, <1>6 DEF Windows
<1> QED
  BY <1>3, <1>4, <1>7, PlacesTyped DEF Found!NewWindow, a, q, r, e

\* Accept
LEMMA AcceptTyped ==
    ASSUME NEW w \in Windows, NEW p \in Found!Panes, NEW d \in Places
    PROVE  /\ Found!Accept(w, p, d) \in Windows
           /\ Found!Accept(w, p, d).rows = [w.rows EXCEPT ![p] = Found!Listing(d, w.query[p])]
           /\ Found!Accept(w, p, d).all = [w.all EXCEPT ![p] = d]
           /\ Found!Accept(w, p, d).busy = w.busy /\ Found!Accept(w, p, d).cur = w.cur
           /\ Found!Accept(w, p, d).search = w.search /\ Found!Accept(w, p, d).compare = w.compare
           /\ Found!Accept(w, p, d).query = w.query
           /\ Found!Accept(w, p, d).connected = w.connected
<1>1. Found!Listing(d, w.query[p]) \in Shown
  BY ListingTyped DEF Windows
<1> QED
  BY <1>1 DEF Windows, Found!Accept

\* The pair after its pending navigation.
LEMMA ArrivedTyped ==
    ASSUME NEW c \in Pair
    PROVE  /\ Found!Arrived(c) \in Pair
           /\ Found!Arrived(c).active = c.active
           /\ Found!Arrived(c).restore = c.restore
           /\ Found!Arrived(c).base = IF c.nav THEN Found!Child ELSE c.base
           /\ Found!Arrived(c).snap = IF c.nav THEN Found!Child ELSE c.snap
<1>1. CASE c.nav
  <2>1. Found!Arrived(c) = [c EXCEPT !.nav = FALSE, !.base = Found!Child, !.snap = Found!Child,
                                     !.entries = "child", !.sel = FALSE]
    BY <1>1 DEF Found!Arrived
  <2> QED
    BY <1>1, <2>1, PlacesTyped DEF Pair, Names
<1>2. CASE ~c.nav
  BY <1>2 DEF Found!Arrived
<1> QED
  BY <1>1, <1>2

\* The panes get the rows of the directories a comparison began with.
LEMMA RestoreTyped ==
    ASSUME NEW w \in Windows, NEW c \in Pair
    PROVE  /\ Found!Restore(w, c) \in Windows
           /\ Found!Restore(w, c).busy = FALSE
           /\ Found!Restore(w, c).cur = c.base
           /\ Found!Restore(w, c).all = c.snap
           /\ \A p \in Found!Panes : Found!Restore(w, c).rows[p] = Found!Listing(c.snap[p],
                w.query[p])
           /\ Found!Restore(w, c).search = w.search /\ Found!Restore(w, c).compare = w.compare
<1> DEFINE v == [w EXCEPT !.busy = FALSE, !.cur = c.base, !.sel = [p \in Found!Panes |-> "none"]]
           u == Found!Accept(v, "local", c.snap["local"])
<1>1. c.base \in [Found!Panes -> Places] /\ c.snap \in [Found!Panes -> Places]
  BY DEF Pair
<1>0. [p \in Found!Panes |-> "none"] \in [Found!Panes -> Names]
  BY DEF Names
<1>2. v \in Windows /\ v.busy = FALSE /\ v.cur = c.base /\ v.search = w.search
        /\ v.compare = w.compare
      /\ v.all = w.all /\ v.rows = w.rows /\ v.query = w.query
  BY <1>0, <1>1 DEF Windows
<1>3. "local" \in Found!Panes /\ "remote" \in Found!Panes /\ Found!Panes = {"local", "remote"}
  BY DEF Found!Panes
<1>4. c.snap["local"] \in Places /\ c.snap["remote"] \in Places
  BY <1>1, <1>3
<1> HIDE DEF v
<1>5. u \in Windows /\ u.busy = FALSE /\ u.cur = c.base /\ u.search = w.search
        /\ u.compare = w.compare /\ u.query = w.query
      /\ u.all = [w.all EXCEPT !["local"] = c.snap["local"]]
      /\ u.rows = [w.rows EXCEPT !["local"] = Found!Listing(c.snap["local"], w.query["local"])]
  BY <1>2, <1>3, <1>4, AcceptTyped
<1>6. Found!Restore(w, c) = Found!Accept(u, "remote", c.snap["remote"])
  BY DEF Found!Restore, v
<1> HIDE DEF u
<1> DEFINE x == Found!Accept(u, "remote", c.snap["remote"])
<1>7. x \in Windows /\ x.busy = FALSE /\ x.cur = c.base /\ x.search = w.search
        /\ x.compare = w.compare
      /\ x.all = [u.all EXCEPT !["remote"] = c.snap["remote"]]
      /\ x.rows = [u.rows EXCEPT !["remote"] = Found!Listing(c.snap["remote"], w.query["remote"])]
  BY <1>5, <1>3, <1>4, AcceptTyped
<1>8. x.all = c.snap
  <2>1. w.all \in [Found!Panes -> Places]
    BY DEF Windows
  <2> QED
    BY <1>5, <1>7, <1>3, <1>1, <2>1
<1>9. \A p \in Found!Panes : x.rows[p] = Found!Listing(c.snap[p], w.query[p])
  <2>1. w.rows \in [Found!Panes -> Shown]
    BY DEF Windows
  <2> QED
    BY <1>5, <1>7, <1>3, <2>1
<1> QED
  BY <1>6, <1>7, <1>8, <1>9

\* What every frame leaves.
LEMMA SearchFrame ==
    ASSUME NEW w \in Windows
    PROVE  /\ Found!ReconcileSearch(w) \in Windows
           /\ Found!ReconcileSearch(w).busy = (w.busy \/ w.search.active)
           /\ Found!ReconcileSearch(w).search.active = w.search.active
           /\ Found!ReconcileSearch(w).search.running = w.search.running
           /\ Found!ReconcileSearch(w).search.pane = w.search.pane
           /\ Found!ReconcileSearch(w).search.seq = w.search.seq
           /\ Found!ReconcileSearch(w).compare = w.compare
           /\ Found!ReconcileSearch(w).cur = w.cur
           /\ Found!ReconcileSearch(w).all = w.all
           /\ Found!ReconcileSearch(w).query = w.query
           /\ ~w.search.active => Found!ReconcileSearch(w).rows = w.rows
<1> DEFINE s == w.search
           p == s.pane
<1>0. s \in Modes /\ p \in Found!Panes
  BY DEF Windows, Modes
<1>9. {"b", "none"} \subseteq Names
  BY DEF Names
<1>1. CASE s.active
  <2>1. [from |-> "search", dir |-> w.cur[p], names |-> s.found] \in Shown
    <3>1. w.cur[p] \in Places /\ s.found \in SUBSET Names
      BY <1>0 DEF Windows, Modes
    <3> QED
      BY <3>1 DEF Shown
  <2>2. Found!ReconcileSearch(w) =
          [w EXCEPT !.busy = TRUE,
                   !.rows[p] = [from |-> "search", dir |-> w.cur[p], names |-> s.found],
                   !.sel[p] = IF s.sel THEN "b" ELSE "none"]
    BY <1>1 DEF Found!ReconcileSearch
  <2> DEFINE r == [from |-> "search", dir |-> w.cur[p], names |-> s.found]
             n == IF s.sel THEN "b" ELSE "none"
  <2>3. n \in Names
    BY <1>9
  <2>4. [w EXCEPT !.busy = TRUE, !.rows[p] = r, !.sel[p] = n] =
        [w EXCEPT !.busy = TRUE, !.rows = [w.rows EXCEPT ![p] = r],
          !.sel = [w.sel EXCEPT ![p] = n]]
    BY DEF Windows
  <2> HIDE DEF r, n
  <2>5. [w.rows EXCEPT ![p] = r] \in [Found!Panes -> Shown]
          /\ [w.sel EXCEPT ![p] = n] \in [Found!Panes -> Names]
    BY <1>0, <2>1, <2>3 DEF Windows, r
  <2>6. Found!ReconcileSearch(w) = [w EXCEPT !.busy = TRUE, !.rows = [w.rows EXCEPT ![p] = r],
          !.sel = [w.sel EXCEPT ![p] = n]]
    BY <2>2, <2>4 DEF r, n
  <2> QED
    BY <1>1, <2>5, <2>6 DEF Windows
<1>2. CASE ~s.active /\ (s.nav = Found!NoNav \/ w.busy)
  <2>1. Found!ReconcileSearch(w) = w
    BY <1>2 DEF Found!ReconcileSearch
  <2> QED
    BY <1>0, <1>2, <2>1 DEF Windows, Modes
<1>3. CASE ~s.active /\ ~(s.nav = Found!NoNav \/ w.busy)
  <2>1. s.nav.pane \in Found!Panes
    BY <1>0, <1>3 DEF Modes, Navs
  <2> DEFINE n == IF w.cur[s.nav.pane] = s.nav.dir
                  THEN Found!Restored(w.rows[s.nav.pane], "b") ELSE w.sel[s.nav.pane]
  <2>2. n \in Names
    <3>1. w.sel[s.nav.pane] \in Names
      BY <2>1 DEF Windows
    <3> QED
      BY <3>1, <1>9 DEF Found!Restored
  <2>3. Found!ReconcileSearch(w) = [w EXCEPT !.search.nav = Found!NoNav, !.sel[s.nav.pane] = n]
    BY <1>3 DEF Found!ReconcileSearch
  <2>4. [w EXCEPT !.search.nav = Found!NoNav, !.sel[s.nav.pane] = n] =
        [w EXCEPT !.search = [s EXCEPT !.nav = Found!NoNav],
          !.sel = [w.sel EXCEPT ![s.nav.pane] = n]]
    BY DEF Windows
  <2>5. [s EXCEPT !.nav = Found!NoNav] \in Modes
    BY <1>0 DEF Modes, Navs
  <2> HIDE DEF n
  <2>6. [w.sel EXCEPT ![s.nav.pane] = n] \in [Found!Panes -> Names]
    BY <2>1, <2>2 DEF Windows
  <2> DEFINE t == [s EXCEPT !.nav = Found!NoNav]
             m == [w.sel EXCEPT ![s.nav.pane] = n]
  <2>7. Found!ReconcileSearch(w) = [w EXCEPT !.search = t, !.sel = m]
    BY <2>3, <2>4
  <2>8. t.active = s.active /\ t.running = s.running /\ t.pane = s.pane /\ t.seq = s.seq
    BY <1>0 DEF Modes
  <2> HIDE DEF t, m
  <2>9. t \in Modes /\ m \in [Found!Panes -> Names]
    BY <2>5, <2>6 DEF t, m
  <2> QED
    BY <1>0, <1>3, <2>7, <2>8, <2>9 DEF Windows
<1> QED
  BY <1>1, <1>2, <1>3

\* A frame reconciles the comparison: it holds the window, or it hands the panes back.
LEMMA CompareFrame ==
    ASSUME NEW w \in Windows
    PROVE  /\ Found!ReconcileCompare(w) \in Windows
           /\ Found!ReconcileCompare(w).busy =
                (w.compare.active \/ (w.busy /\ ~w.compare.restore))
           /\ Found!ReconcileCompare(w).search = w.search
           /\ Found!ReconcileCompare(w).compare = [Found!Arrived(w.compare) EXCEPT !.restore
                = FALSE]
           /\ ~w.compare.active /\ ~w.compare.restore =>
                /\ Found!ReconcileCompare(w).rows = w.rows
                     /\ Found!ReconcileCompare(w).cur = w.cur
                /\ Found!ReconcileCompare(w).all = w.all
           /\ ~w.compare.active /\ w.compare.restore =>
                /\ Found!ReconcileCompare(w).cur = Found!Arrived(w.compare).base
                /\ Found!ReconcileCompare(w).all = Found!Arrived(w.compare).snap
                /\ \A p \in Found!Panes : Found!ReconcileCompare(w).rows[p]
                     = Found!Listing(Found!Arrived(w.compare).snap[p], w.query[p])
           /\ w.compare.active =>
                /\ Found!ReconcileCompare(w).cur = Found!Arrived(w.compare).base
                /\ \A p \in Found!Panes : /\ Found!ReconcileCompare(w).rows[p].from = "compare"
                                         /\ Found!ReconcileCompare(w).rows[p].dir
                                              = Found!Arrived(w.compare).base[p]
<1> DEFINE c == Found!Arrived(w.compare)
           w1 == [w EXCEPT !.compare = [c EXCEPT !.restore = FALSE]]
           w2 == IF c.restore THEN Found!Restore(w1, c) ELSE w1
<1>1. w.compare \in Pair
  BY DEF Windows
<1>2. c \in Pair /\ c.active = w.compare.active /\ c.restore = w.compare.restore
  BY <1>1, ArrivedTyped
<1>3. [c EXCEPT !.restore = FALSE] \in Pair
  BY <1>2 DEF Pair
<1>4. /\ w1 \in Windows /\ w1.compare = [c EXCEPT !.restore = FALSE] /\ w1.search = w.search
      /\ w1.busy = w.busy /\ w1.rows = w.rows /\ w1.cur = w.cur /\ w1.all = w.all
           /\ w1.query = w.query
  BY <1>3 DEF Windows
<1>5. Found!ReconcileCompare(w) = IF c.active THEN Found!ShowComparison(w2, c,
        w.compare.nav) ELSE w2
  BY DEF Found!ReconcileCompare
<1> HIDE DEF c, w1
<1>6. /\ w2 \in Windows /\ w2.compare = [c EXCEPT !.restore = FALSE] /\ w2.search = w.search
      /\ ~c.restore => w2.busy = w.busy /\ w2.rows = w.rows /\ w2.cur = w.cur /\ w2.all = w.all
      /\ c.restore => /\ w2.busy = FALSE /\ w2.cur = c.base /\ w2.all = c.snap
                      /\ \A p \in Found!Panes : w2.rows[p] = Found!Listing(c.snap[p], w.query[p])
  <2>1. CASE c.restore
    <3>1. w2 = Found!Restore(w1, c)
      BY <2>1
    <3> HIDE DEF w2
    <3>2. /\ w2 \in Windows /\ w2.busy = FALSE /\ w2.cur = c.base /\ w2.all = c.snap
          /\ w2.search = w1.search /\ w2.compare = w1.compare
          /\ \A p \in Found!Panes : w2.rows[p] = Found!Listing(c.snap[p], w1.query[p])
      BY <3>1, <1>2, <1>4, RestoreTyped
    <3> QED
      BY <3>2, <2>1, <1>4
  <2>2. CASE ~c.restore
    BY <2>2, <1>4
  <2> QED
    BY <2>1, <2>2
<1> HIDE DEF w2
<1>7. CASE ~c.active
  <2>1. Found!ReconcileCompare(w) = w2
    BY <1>5, <1>7
  <2>2. w2.busy = (w.compare.active \/ (w.busy /\ ~w.compare.restore))
    <3>1. CASE c.restore
      BY <3>1, <1>2, <1>6, <1>7
    <3>2. CASE ~c.restore
      <4>1. w2.busy = w.busy /\ ~w.compare.active /\ ~w.compare.restore
        BY <3>2, <1>2, <1>6, <1>7
      <4>2. w.busy \in BOOLEAN
        BY DEF Windows
      <4> QED
        BY <4>1, <4>2
    <3> QED
      BY <3>1, <3>2
  <2>3. c = Found!Arrived(w.compare)
    BY DEF c
  <2> QED
    BY <2>1, <2>2, <2>3, <1>2, <1>6, <1>7
<1>8. CASE c.active
  <2> DEFINE q == IF w.compare.nav THEN [p \in Found!Panes |-> FALSE] ELSE w2.query
             r == [p \in Found!Panes |-> [from |-> "compare", dir |-> c.base[p],
               names |-> {c.entries}]]
             l == [p \in Found!Panes |-> IF c.sel THEN c.entries ELSE "none"]
  <2>1. Found!ShowComparison(w2, c, w.compare.nav) =
          [w2 EXCEPT !.busy = TRUE, !.cur = c.base, !.query = q, !.rows = r, !.sel = l]
    BY DEF Found!ShowComparison
  <2>2. q \in [Found!Panes -> BOOLEAN] /\ l \in [Found!Panes -> Names]
    BY <1>2, <1>6 DEF Windows, Pair, Names
  <2>3. c.base \in [Found!Panes -> Places] /\ r \in [Found!Panes -> Shown]
    <3>1. c.base \in [Found!Panes -> Places] /\ c.entries \in Names
      BY <1>2 DEF Pair
    <3> QED
      BY <3>1 DEF Shown
  <2>4. \A p \in Found!Panes : r[p].from = "compare" /\ r[p].dir = c.base[p]
    OBVIOUS
  <2> HIDE DEF q, r, l
  <2> DEFINE v == [w2 EXCEPT !.busy = TRUE, !.cur = c.base, !.query = q, !.rows = r, !.sel = l]
  <2>5. /\ v \in Windows /\ v.busy = TRUE /\ v.cur = c.base /\ v.rows = r /\ v.search = w2.search
        /\ v.compare = w2.compare
    BY <2>2, <2>3, <1>6 DEF Windows
  <2>6. Found!ReconcileCompare(w) = v
    BY <2>1, <1>5, <1>8
  <2> HIDE DEF v
  <2> QED
    BY <1>2, <1>6, <1>8, <2>4, <2>5, <2>6 DEF c
<1> QED
  BY <1>7, <1>8, <1>2 DEF Pair

-----------------------------------------------------------------------------
\* A search and a comparison are never shown together.
Apart(w) ==
    /\ ~(w.search.active /\ w.compare.active)
    /\ w.compare.restore => ~w.search.active /\ ~w.compare.active
\* A comparison has the listings of its own directories, if any.
Kept(w) == \A p \in Found!Panes : w.compare.snap[p] \in {w.compare.base[p], "none"}
\* A pane has the listing of its own directory, if any.
Listed(w) == \A p \in Found!Panes : /\ w.all[p] \in {w.cur[p], "none"}
                                    /\ w.rows[p].from = "list" => w.rows[p].dir = w.all[p]
\* What a handler may leave to the next frame.
Ready(w) ==
    /\ w \in Windows /\ Apart(w)
    /\ w.compare.active \/ w.compare.restore => Kept(w)
    /\ ~w.compare.active /\ ~w.compare.restore => Listed(w)
\* What every frame leaves.
Good(w) ==
    /\ Ready(w)
    /\ w.search.active \/ w.compare.active \/ w.compare.restore => w.busy
    /\ w.compare.active \/ w.compare.restore => \A p \in Found!Panes : w.rows[p].from = "compare"
    /\ w.compare.active =>
          w.cur = w.compare.base /\ \A p \in Found!Panes : w.rows[p].dir = w.cur[p]

\* Search pass keeps the listing of the other pane
LEMMA SearchReady ==
    ASSUME NEW w, Ready(w)
    PROVE  Ready(Found!ReconcileSearch(w))
<1> DEFINE v == Found!ReconcileSearch(w)
<1>1. w \in Windows
  BY DEF Ready
<1>2. /\ v \in Windows
      /\ v.search.active = w.search.active /\ v.compare = w.compare
      /\ v.cur = w.cur /\ v.all = w.all
      /\ ~w.search.active => v.rows = w.rows
  BY <1>1, SearchFrame
<1>3. w.search.active => \A p \in Found!Panes : v.rows[p].from = "list" => v.rows[p] = w.rows[p]
  <2> SUFFICES ASSUME w.search.active, NEW q \in Found!Panes, v.rows[q].from = "list"
               PROVE  v.rows[q] = w.rows[q]
    OBVIOUS
  <2> DEFINE p == w.search.pane
             r == [from |-> "search", dir |-> w.cur[p], names |-> w.search.found]
             n == IF w.search.sel THEN "b" ELSE "none"
  <2>1. v = [w EXCEPT !.busy = TRUE, !.rows[p] = r, !.sel[p] = n]
    BY DEF Found!ReconcileSearch
  <2>2. r.from # "list"
    OBVIOUS
  <2> HIDE DEF r, n
  <2>3. v.rows = [w.rows EXCEPT ![p] = r]
    BY <1>1, <2>1 DEF Windows
  <2>4. w.rows \in [Found!Panes -> Shown]
    BY <1>1 DEF Windows
  <2> HIDE DEF v, p
  <2> QED
    BY <2>2, <2>3, <2>4
<1> HIDE DEF v
<1>4. Apart(v) /\ (v.compare.active \/ v.compare.restore => Kept(v))
  BY <1>2 DEF Ready, Apart, Kept
<1>5. ~v.compare.active /\ ~v.compare.restore => Listed(v)
  BY <1>2, <1>3 DEF Ready, Listed
<1> QED
  BY <1>2, <1>4, <1>5 DEF Ready, v

\* A frame makes good what a handler left.
LEMMA Frame ==
    ASSUME NEW w, Ready(w)
    PROVE  /\ Good(Found!Render(w))
           /\ Found!Render(w).search.active = w.search.active
           /\ Found!Render(w).compare.active = w.compare.active
           /\ ~w.search.active /\ ~w.compare.active => (Found!Render(w).busy => w.busy)
           /\ ~w.search.active /\ ~w.compare.active /\ ~w.compare.restore =>
                Found!Render(w).rows = w.rows
<1> DEFINE v == Found!ReconcileSearch(w)
           u == Found!ReconcileCompare(v)
           c == Found!Arrived(w.compare)
<1>0. w \in Windows /\ v \in Windows /\ Ready(v)
  BY SearchReady, SearchFrame DEF Ready
<1>1. /\ v.busy = (w.busy \/ w.search.active)
      /\ v.search.active = w.search.active
      /\ v.compare = w.compare
      /\ ~w.search.active => v.rows = w.rows
  BY <1>0, SearchFrame
<1> HIDE DEF v
<1>2. /\ u \in Windows
      /\ u.busy = (w.compare.active \/ (v.busy /\ ~w.compare.restore))
      /\ u.search = v.search
      /\ u.compare = [c EXCEPT !.restore = FALSE]
      /\ ~w.compare.active /\ ~w.compare.restore => u.rows = v.rows /\ u.cur = v.cur
           /\ u.all = v.all
      /\ ~w.compare.active /\ w.compare.restore =>
           /\ u.cur = c.base /\ u.all = c.snap
           /\ \A p \in Found!Panes : u.rows[p] = Found!Listing(c.snap[p], v.query[p])
      /\ w.compare.active =>
           /\ u.cur = c.base
           /\ \A p \in Found!Panes : u.rows[p].from = "compare" /\ u.rows[p].dir = c.base[p]
  BY <1>0, <1>1, CompareFrame
<1>3. Found!Render(w) = u
  BY DEF Found!Render, u, v
<1> HIDE DEF u
<1>4. w.compare \in Pair
  BY <1>0 DEF Windows
<1>5. c \in Pair /\ c.active = w.compare.active /\ c.restore = w.compare.restore
  BY <1>4, ArrivedTyped
<1>6. w.compare.active \/ w.compare.restore =>
        \A p \in Found!Panes : c.snap[p] \in {c.base[p], "none"}
  BY <1>4, ArrivedTyped DEF Ready, Kept
<1> HIDE DEF c
<1>7. /\ u.compare.active = w.compare.active /\ u.compare.restore = FALSE
      /\ u.compare.base = c.base /\ u.compare.snap = c.snap
  BY <1>2, <1>5 DEF Pair
<1>8. w.search.active \in BOOLEAN /\ w.compare.active \in BOOLEAN /\ w.busy \in BOOLEAN
      /\ w.compare.restore \in BOOLEAN
  BY <1>0 DEF Windows, Modes, Pair
<1>9. Apart(u) /\ (u.search.active \/ u.compare.active => u.busy)
  <2>1. CASE w.compare.active
    BY <2>1, <1>1, <1>2, <1>7 DEF Ready, Apart
  <2>2. CASE w.search.active
    BY <2>2, <1>1, <1>2, <1>7, <1>8 DEF Ready, Apart
  <2>3. CASE ~w.search.active /\ ~w.compare.active
    BY <2>3, <1>1, <1>2, <1>7 DEF Apart
  <2> QED
    BY <2>1, <2>2, <2>3
<1>10. w.compare.active => Kept(u) /\ u.cur = u.compare.base
                           /\ \A p \in Found!Panes : /\ u.rows[p].from = "compare"
                                                     /\ u.rows[p].dir = u.cur[p]
  BY <1>2, <1>6, <1>7 DEF Kept
<1>11. ~w.compare.active => Listed(u)
  <2>1. CASE ~w.compare.active /\ ~w.compare.restore
    BY <2>1, <1>0, <1>1, <1>2 DEF Ready, Listed
  <2>2. CASE ~w.compare.active /\ w.compare.restore
    <3>1. \A p \in Found!Panes : u.all[p] \in {u.cur[p], "none"}
      BY <2>2, <1>2, <1>6
    <3>2. \A p \in Found!Panes : u.rows[p].dir = u.all[p]
      <4>1. \A p \in Found!Panes : c.snap[p] \in Places /\ v.query[p] \in BOOLEAN
        BY <1>0, <1>5 DEF Windows, Pair
      <4> QED
        BY <4>1, <2>2, <1>2, ListingTyped
    <3> QED
      BY <3>1, <3>2 DEF Listed
  <2> QED
    BY <2>1, <2>2
<1>12. Good(u)
  BY <1>2, <1>7, <1>9, <1>10, <1>11 DEF Good, Ready
<1>13. ~w.search.active /\ ~w.compare.active => (u.busy => w.busy)
  BY <1>1, <1>2, <1>8
<1> QED
  BY <1>1, <1>2, <1>3, <1>7, <1>12, <1>13

(***************************************************************************)
(* What a handler does: rows, filters and a search                         *)
(***************************************************************************)

\* The fields of the window.
Fields == {"busy", "connected", "cur", "all", "query", "rows", "sel", "search", "compare"}

\* What is good is ready, with the types of its parts.
LEMMA GoodReady ==
    ASSUME NEW w, Good(w)
    PROVE  Ready(w) /\ w \in Windows /\ DOMAIN w = Fields /\ w.search \in Modes
           /\ w.compare \in Pair
           /\ (w.compare.active => ~w.search.active /\ ~w.compare.restore)
           /\ (w.search.active => ~w.compare.active /\ ~w.compare.restore)
  BY DEF Good, Ready, Apart, Windows, Fields

\* Panes and comparison as they were: still ready.
LEMMA Carried ==
    ASSUME NEW w, Ready(w), NEW u \in Windows, u.all = w.all, u.cur = w.cur, u.rows = w.rows,
           u.compare = w.compare, u.search.active => w.search.active
    PROVE  Ready(u)
  BY DEF Ready, Apart, Kept, Listed

\* So is a window with one pane listed again.
LEMMA Relisted ==
    ASSUME NEW w, Ready(w), NEW u \in Windows, NEW p \in Found!Panes, NEW b \in BOOLEAN,
           u.all = w.all, u.cur = w.cur,
           u.rows = [w.rows EXCEPT ![p] = Found!Listing(w.all[p], b)],
           u.compare = w.compare, u.search.active => w.search.active
    PROVE  Ready(u)
<1>1. w \in Windows /\ w.all[p] \in Places
  BY DEF Ready, Windows
<1> DEFINE r == Found!Listing(w.all[p], b)
<1>2. r.dir = w.all[p]
  BY <1>1, ListingTyped
<1> HIDE DEF r
<1>3. w.rows \in [Found!Panes -> Shown]
  BY <1>1 DEF Windows
<1>4. \A q \in Found!Panes : u.rows[q] = IF q = p THEN r ELSE w.rows[q]
  BY <1>3 DEF r
<1>5. Apart(u) /\ (u.compare.active \/ u.compare.restore => Kept(u))
  BY DEF Ready, Apart, Kept
<1>6. ~u.compare.active /\ ~u.compare.restore => Listed(u)
  BY <1>2, <1>4 DEF Ready, Listed
<1> QED
  BY <1>5, <1>6 DEF Ready

\* startAction
LEMMA BusyReady ==
    ASSUME NEW w, Ready(w), NEW b \in BOOLEAN
    PROVE  /\ Ready([w EXCEPT !.busy = b])
           /\ [w EXCEPT !.busy = b].search = w.search /\ [w EXCEPT !.busy = b].compare = w.compare
           /\ [w EXCEPT !.busy = b].busy = b
<1> DEFINE u == [w EXCEPT !.busy = b]
<1>1. /\ u \in Windows /\ u.all = w.all /\ u.cur = w.cur /\ u.rows = w.rows /\ u.search = w.search
      /\ u.compare = w.compare /\ u.busy = b
  BY DEF Ready, Windows
<1> HIDE DEF u
<1> QED
  BY <1>1, Carried DEF u

\* SelectRow
Chosen(w, p, n) == [w EXCEPT !.sel[p] = n]

\* A row is selected.
LEMMA ChosenReady ==
    ASSUME NEW w, Good(w), NEW p \in Found!Panes, NEW n \in Names
    PROVE  /\ Ready(Chosen(w, p, n)) /\ Chosen(w, p, n).busy = w.busy
           /\ Chosen(w, p, n).search = w.search /\ Chosen(w, p, n).compare = w.compare
<1> DEFINE u == [w EXCEPT !.sel = [w.sel EXCEPT ![p] = n]]
<1>1. w \in Windows /\ Ready(w)
  BY GoodReady
<1>2. [w.sel EXCEPT ![p] = n] \in [Found!Panes -> Names]
  BY <1>1 DEF Windows
<1>3. u = Chosen(w, p, n)
  BY <1>1 DEF Windows, Chosen
<1>4. /\ u \in Windows /\ u.all = w.all /\ u.cur = w.cur /\ u.rows = w.rows /\ u.search = w.search
      /\ u.compare = w.compare /\ u.busy = w.busy
  BY <1>1, <1>2 DEF Windows
<1> HIDE DEF u
<1> QED
  BY <1>1, <1>3, <1>4, Carried

\* ApplyFilter
Filtered(w, p) ==
    LET rows == Found!Listing(w.all[p], ~w.query[p]) IN
    [w EXCEPT !.query[p] = ~@, !.rows[p] = rows, !.sel[p] = Found!Restored(rows, w.sel[p])]

\* A filter is switched on or off.
LEMMA FilteredReady ==
    ASSUME NEW w, Good(w), NEW p \in Found!Panes
    PROVE  /\ Ready(Filtered(w, p)) /\ Filtered(w, p).busy = w.busy
           /\ Filtered(w, p).search = w.search /\ Filtered(w, p).compare = w.compare
<1> DEFINE b == ~w.query[p]
           r == Found!Listing(w.all[p], b)
           n == Found!Restored(r, w.sel[p])
           q == [w.query EXCEPT ![p] = b]
           u == [w EXCEPT !.query = q, !.rows = [w.rows EXCEPT ![p] = r],
             !.sel = [w.sel EXCEPT ![p] = n]]
<1>1. w \in Windows /\ Ready(w) /\ DOMAIN w = Fields
  BY GoodReady
<1>2. w.all[p] \in Places /\ w.query[p] \in BOOLEAN /\ b \in BOOLEAN /\ w.sel[p] \in Names
  BY <1>1 DEF Windows
<1>3. r \in Shown /\ n \in Names
  BY <1>2, ListingTyped DEF Found!Restored, Names
<1>4. Filtered(w, p) = [w EXCEPT !.query[p] = ~@, !.rows[p] = r, !.sel[p] = n]
  BY DEF Filtered
<1> HIDE DEF r, n
<1>5. Filtered(w, p) = u
  BY <1>1, <1>4 DEF Fields
<1>6. b \in BOOLEAN /\ q \in [Found!Panes -> BOOLEAN]
  BY <1>1, <1>2 DEF Windows
<1>7. r = Found!Listing(w.all[p], b)
  BY DEF r
<1> HIDE DEF b, q
<1>8. [w.rows EXCEPT ![p] = r] \in [Found!Panes -> Shown]
        /\ [w.sel EXCEPT ![p] = n] \in [Found!Panes -> Names]
  BY <1>1, <1>3 DEF Windows
<1>9. /\ u \in Windows /\ u.all = w.all /\ u.cur = w.cur /\ u.rows = [w.rows EXCEPT ![p] = r]
      /\ u.search = w.search /\ u.compare = w.compare /\ u.busy = w.busy
  BY <1>1, <1>6, <1>8 DEF Windows
<1> HIDE DEF u
<1>10. Ready(u)
  BY <1>1, <1>6, <1>7, <1>9, Relisted
<1> QED
  BY <1>5, <1>9, <1>10

\* StartSearch
Sought(w, p) ==
    [w EXCEPT
         !.busy = TRUE, !.sel[p] = "none",
         !.search = [active |-> TRUE, running |-> TRUE, pane |-> p, seq |-> @.seq + 1,
                     found |-> {}, sel |-> FALSE, restore |-> w.sel[p], nav |-> Found!NoNav]]

\* A search begins in a window that is free.
LEMMA SoughtReady ==
    ASSUME NEW w, Good(w), NEW p \in Found!Panes, ~w.busy
    PROVE  Ready(Sought(w, p)) /\ Sought(w, p).search.active
<1> DEFINE s == [active |-> TRUE, running |-> TRUE, pane |-> p, seq |-> w.search.seq + 1,
                 found |-> {}, sel |-> FALSE, restore |-> w.sel[p], nav |-> Found!NoNav]
           n == [w.sel EXCEPT ![p] = "none"]
           u == [w EXCEPT !.busy = TRUE, !.sel = n, !.search = s]
<1>1. w \in Windows /\ Ready(w) /\ DOMAIN w = Fields
  BY GoodReady
<1>2. s \in Modes /\ s.active = TRUE
  BY <1>1 DEF Windows, Modes, Navs
<1>3. n \in [Found!Panes -> Names]
  BY <1>1 DEF Windows, Names
<1>4. Sought(w, p) = u
  BY <1>1 DEF Windows, Sought
<1> HIDE DEF s, n
<1>5. /\ u \in Windows /\ u.search = s /\ u.compare = w.compare /\ u.all = w.all /\ u.cur = w.cur
      /\ u.rows = w.rows
  BY <1>1, <1>2, <1>3 DEF Windows
<1> HIDE DEF u
<1>6. ~w.compare.active /\ ~w.compare.restore
  BY DEF Good
<1>7. Ready(u)
  BY <1>1, <1>5, <1>6 DEF Ready, Apart, Listed
<1> QED
  BY <1>2, <1>4, <1>5, <1>7

\* A search that is closed remembers where to go.
LEMMA ClosedTyped ==
    ASSUME NEW s \in Modes, NEW n \in Navs
    PROVE  Found!SearchClosed(s, n) \in Modes /\ Found!SearchClosed(s, n).active = FALSE
<1> DEFINE k == s.seq + 1
           t == [s EXCEPT !.active = FALSE, !.running = FALSE, !.seq = k, !.found = {},
             !.sel = FALSE,
                          !.nav = n]
<1>1. k \in Nat
  BY DEF Modes
<1>2. Found!SearchClosed(s, n) = t
  BY DEF Found!SearchClosed
<1> HIDE DEF k
<1>3. t \in Modes /\ t.active = FALSE
  BY <1>1 DEF Modes
<1> QED
  BY <1>2, <1>3

\* CloseSearch
Returned(w) ==
    LET p == w.search.pane  rows == Found!Listing(w.all[p], w.query[p]) IN
    [w EXCEPT !.busy = FALSE, !.search = Found!SearchClosed(@, @.nav), !.rows[p] = rows,
              !.sel[p] = Found!Restored(rows, w.search.restore)]

\* A search is closed: its pane shows its listing again and the window is free.
LEMMA ReturnedReady ==
    ASSUME NEW w, Good(w), w.search.active
    PROVE  /\ Ready(Returned(w)) /\ Returned(w).busy = FALSE /\ Returned(w).search.active = FALSE
           /\ Returned(w).compare = w.compare
           /\ Returned(w).rows[w.search.pane].from = "list"
<1> DEFINE p == w.search.pane
           r == Found!Listing(w.all[p], w.query[p])
           s == Found!SearchClosed(w.search, w.search.nav)
           n == Found!Restored(r, w.search.restore)
           u == [w EXCEPT !.busy = FALSE, !.search = s,
                    !.rows = [w.rows EXCEPT ![p] = r], !.sel = [w.sel EXCEPT ![p] = n]]
<1>1. w \in Windows /\ Ready(w) /\ DOMAIN w = Fields
  BY GoodReady
<1>2. Returned(w) = [w EXCEPT !.busy = FALSE, !.search = Found!SearchClosed(@, @.nav),
                              !.rows[p] = r, !.sel[p] = n]
  BY DEF Returned
<1>4. p \in Found!Panes /\ w.search \in Modes /\ w.search.nav \in Navs
        /\ w.search.restore \in Names
  BY <1>1 DEF Windows, Modes
<1>5. w.all[p] \in Places /\ w.query[p] \in BOOLEAN
  BY <1>1, <1>4 DEF Windows
<1>6. r \in Shown /\ r.from = "list" /\ n \in Names
  BY <1>4, <1>5, ListingTyped DEF Found!Restored, Names
<1>7. s \in Modes /\ s.active = FALSE
  BY <1>4, ClosedTyped
<1>3. Returned(w) = u
  <2> HIDE DEF p, r, n
  <2> QED
    BY <1>1, <1>2 DEF Fields
<1>8. r = Found!Listing(w.all[p], w.query[p])
  OBVIOUS
<1> HIDE DEF p, r, s, n
<1>9. [w.rows EXCEPT ![p] = r] \in [Found!Panes -> Shown]
        /\ [w.sel EXCEPT ![p] = n] \in [Found!Panes -> Names]
      /\ [w.rows EXCEPT ![p] = r][p] = r
  BY <1>1, <1>4, <1>6 DEF Windows
<1>10. /\ u \in Windows /\ u.search = s /\ u.compare = w.compare /\ u.busy = FALSE
       /\ u.rows = [w.rows EXCEPT ![p] = r] /\ u.all = w.all /\ u.cur = w.cur
  BY <1>1, <1>7, <1>9 DEF Windows
<1> HIDE DEF u
<1>11. Ready(u)
  BY <1>1, <1>4, <1>5, <1>7, <1>8, <1>10, Relisted
<1> QED
  BY <1>3, <1>6, <1>7, <1>9, <1>10, <1>11 DEF p

\* NavigateSearch
Gone(w) ==
    LET p == w.search.pane IN
    [w EXCEPT !.busy = FALSE, !.query[p] = FALSE,
              !.search = Found!SearchClosed(@, [pane |-> p, dir |-> Found!Child[p]])]

\* A search is left for one of its finds.
LEMMA GoneReady ==
    ASSUME NEW w, Good(w), w.search.active
    PROVE  /\ Ready(Gone(w)) /\ Gone(w).busy = FALSE
           /\ Gone(w).search.active = FALSE /\ Gone(w).compare = w.compare
<1> DEFINE p == w.search.pane
           s == Found!SearchClosed(w.search, [pane |-> p, dir |-> Found!Child[p]])
           q == [w.query EXCEPT ![p] = FALSE]
           u == [w EXCEPT !.busy = FALSE, !.query = q, !.search = s]
<1>1. w \in Windows /\ Ready(w) /\ DOMAIN w = Fields
  BY GoodReady
<1>2. p \in Found!Panes /\ w.search \in Modes /\ Found!Child[p] \in Places
  BY <1>1, PlacesTyped DEF Windows, Modes
<1>3. Gone(w) = u
  <2>1. Gone(w) = [w EXCEPT !.busy = FALSE, !.query[p] = FALSE,
              !.search = Found!SearchClosed(@, [pane |-> p, dir |-> Found!Child[p]])]
    BY DEF Gone
  <2> HIDE DEF p
  <2> QED
    BY <1>1, <2>1 DEF Fields
<1>4. s \in Modes /\ s.active = FALSE
  BY <1>2, ClosedTyped DEF Navs
<1>5. q \in [Found!Panes -> BOOLEAN]
  BY <1>1, <1>2 DEF Windows
<1> HIDE DEF s, q
<1>6. /\ u \in Windows /\ u.search = s /\ u.compare = w.compare /\ u.busy = FALSE
           /\ u.rows = w.rows
      /\ u.all = w.all /\ u.cur = w.cur
  BY <1>1, <1>4, <1>5 DEF Windows
<1> HIDE DEF u
<1> QED
  BY <1>1, <1>3, <1>4, <1>6, Carried

\* A change of the search that keeps it as active as it was: SelectFound, the
\* batches and the end of a scan.
LEMMA SearchKept ==
    ASSUME NEW w, Good(w), NEW s \in Modes, s.active => w.search.active
    PROVE  /\ Ready([w EXCEPT !.search = s]) /\ [w EXCEPT !.search = s].search = s
           /\ [w EXCEPT !.search = s].compare = w.compare
           /\ [w EXCEPT !.search = s].busy = w.busy
           /\ Good([w EXCEPT !.search = s])
<1> DEFINE u == [w EXCEPT !.search = s]
<1>1. w \in Windows /\ Ready(w)
  BY GoodReady
<1>2. /\ u \in Windows /\ u.search = s /\ u.compare = w.compare /\ u.busy = w.busy
           /\ u.rows = w.rows
      /\ u.all = w.all /\ u.cur = w.cur
  BY <1>1 DEF Windows
<1> HIDE DEF u
<1>3. Ready(u)
  BY <1>1, <1>2, Carried
<1>4. Good(u)
  BY <1>2, <1>3 DEF Good
<1> QED
  BY <1>2, <1>3, <1>4 DEF u

\* A find is selected.
LEMMA PointedReady ==
    ASSUME NEW w, Good(w), w.search.active, NEW b \in BOOLEAN
    PROVE  Ready([w EXCEPT !.search.sel = b /\ w.search.found # {}])
           /\ [w EXCEPT !.search.sel = b /\ w.search.found # {}].search.active
<1> DEFINE s == [w.search EXCEPT !.sel = b /\ w.search.found # {}]
<1>1. w \in Windows /\ w.search \in Modes
  BY GoodReady
<1>2. s \in Modes /\ s.active = w.search.active
  BY <1>1 DEF Modes
<1>3. [w EXCEPT !.search.sel = b /\ w.search.found # {}] = [w EXCEPT !.search = s]
  BY <1>1 DEF Windows
<1> HIDE DEF s
<1> QED
  BY <1>2, <1>3, SearchKept

\* A batch of finds arrives.
LEMMA BatchGood ==
    ASSUME NEW w, Good(w)
    PROVE  Good([w EXCEPT !.search.found = {"b"}, !.search.sel = TRUE])
           /\ [w EXCEPT !.search.found = {"b"},
                !.search.sel = TRUE].search.active = w.search.active
           /\ [w EXCEPT !.search.found = {"b"}, !.search.sel = TRUE].compare = w.compare
<1> DEFINE s == [w.search EXCEPT !.found = {"b"}, !.sel = TRUE]
<1>1. w \in Windows /\ w.search \in Modes
  BY GoodReady
<1>2. s \in Modes /\ s.active = w.search.active
  BY <1>1 DEF Modes, Names
<1>3. [w EXCEPT !.search.found = {"b"}, !.search.sel = TRUE] = [w EXCEPT !.search = s]
  BY <1>1 DEF Windows, Modes
<1> HIDE DEF s
<1> DEFINE u == [w EXCEPT !.search = s]
           v == [w EXCEPT !.search.found = {"b"}, !.search.sel = TRUE]
<1>4. Good(u) /\ u.search = s /\ u.compare = w.compare
  BY <1>2, SearchKept
<1>5. v = u
  BY <1>3
<1> HIDE DEF u, v
<1>6. Good(v) /\ v.search.active = w.search.active /\ v.compare = w.compare
  BY <1>2, <1>4, <1>5
<1> QED
  BY <1>6 DEF v

\* The scan has ended.
LEMMA ScannedGood ==
    ASSUME NEW w, Good(w)
    PROVE  Good([w EXCEPT !.search.running = FALSE])
           /\ [w EXCEPT !.search.running = FALSE].search.active = w.search.active
           /\ [w EXCEPT !.search.running = FALSE].compare = w.compare
<1> DEFINE s == [w.search EXCEPT !.running = FALSE]
<1>1. w \in Windows /\ w.search \in Modes
  BY GoodReady
<1>2. s \in Modes /\ s.active = w.search.active
  BY <1>1 DEF Modes
<1>3. [w EXCEPT !.search.running = FALSE] = [w EXCEPT !.search = s]
  BY <1>1 DEF Windows
<1> HIDE DEF s
<1> DEFINE u == [w EXCEPT !.search = s]
           v == [w EXCEPT !.search.running = FALSE]
<1>4. Good(u) /\ u.search = s /\ u.compare = w.compare
  BY <1>2, SearchKept
<1>5. v = u
  BY <1>3
<1> HIDE DEF u, v
<1>6. Good(v) /\ v.search.active = w.search.active /\ v.compare = w.compare
  BY <1>2, <1>4, <1>5
<1> QED
  BY <1>6 DEF v

(***************************************************************************)
(* What a handler does: a comparison                                       *)
(***************************************************************************)

\* A comparison begins in a window without another modal view.
LEMMA ComparedReady ==
    ASSUME NEW w, Ready(w), ~w.search.active, ~w.compare.active, ~w.compare.restore
    PROVE  Ready(Found!Compared(w)) /\ Found!Compared(w).compare.active
<1> DEFINE c == [active |-> TRUE, running |-> TRUE, restore |-> FALSE, seq |-> w.compare.seq + 1,
                 base |-> w.cur, snap |-> w.all, entries |-> "none", sel |-> FALSE, nav |-> FALSE]
           u == [w EXCEPT !.busy = TRUE, !.compare = c]
<1>1. w \in Windows
  BY DEF Ready
<1>2. c \in Pair
  BY <1>1 DEF Windows, Pair, Names
<1>3. Found!Compared(w) = u
  BY <1>1 DEF Found!Compared, Windows
<1>4. c.active = TRUE /\ c.restore = FALSE /\ c.base = w.cur /\ c.snap = w.all
  OBVIOUS
<1> HIDE DEF c
<1>5. u \in Windows /\ u.compare = c /\ u.search = w.search
  BY <1>1, <1>2 DEF Windows
<1> HIDE DEF u
<1>6. Kept(u) /\ Apart(u)
  BY <1>4, <1>5 DEF Ready, Listed, Kept, Apart
<1> QED
  BY <1>3, <1>4, <1>5, <1>6 DEF Ready

\* A comparison is closed: both panes show their listings and the window is free.
LEMMA ClosedReady ==
    ASSUME NEW w, Good(w), w.compare.active
    PROVE  /\ Ready(Found!Closed(w))
           /\ Found!Closed(w).compare.active = FALSE /\ Found!Closed(w).compare.restore = FALSE
           /\ Found!Closed(w).busy = FALSE /\ Found!Closed(w).search = w.search
           /\ \A p \in Found!Panes : Found!Closed(w).rows[p].from = "list"
<1> DEFINE k == w.compare.seq + 1
           c == [w.compare EXCEPT !.active = FALSE, !.running = FALSE, !.seq = k,
                      !.restore = FALSE, !.sel = FALSE, !.entries = "none"]
           v == [w EXCEPT !.compare = c]
           u == Found!Restore(v, w.compare)
<1>1. w \in Windows /\ w.compare \in Pair /\ ~w.search.active
  BY GoodReady
<1>2. k \in Nat
  BY <1>1 DEF Pair
<1>3. [w EXCEPT !.compare.active = FALSE, !.compare.running = FALSE, !.compare.seq = @ + 1,
                      !.compare.restore = FALSE, !.compare.sel = FALSE,
                      !.compare.entries = "none"] = v
  BY <1>1 DEF Windows, Pair
<1> HIDE DEF k
<1>4. c \in Pair /\ c.active = FALSE /\ c.restore = FALSE
  BY <1>1, <1>2 DEF Pair, Names
<1> HIDE DEF c
<1>5. v \in Windows /\ v.compare = c /\ v.search = w.search
  BY <1>1, <1>4 DEF Windows
<1>6. Found!Closed(w) = u
  BY <1>3 DEF Found!Closed
<1> HIDE DEF v
<1>7. /\ u \in Windows /\ u.busy = FALSE /\ u.cur = w.compare.base /\ u.all = w.compare.snap
      /\ \A p \in Found!Panes : u.rows[p] = Found!Listing(w.compare.snap[p], v.query[p])
      /\ u.search = w.search /\ u.compare = c
  BY <1>1, <1>5, RestoreTyped
<1> HIDE DEF u
<1>8. \A p \in Found!Panes : w.compare.snap[p] \in Places /\ v.query[p] \in BOOLEAN
  BY <1>1, <1>5 DEF Windows, Pair
<1>9. \A p \in Found!Panes : u.rows[p].from = "list" /\ u.rows[p].dir = w.compare.snap[p]
  BY <1>7, <1>8, ListingTyped
<1>10. Kept(w)
  BY DEF Good, Ready
<1>11. Listed(u) /\ Apart(u)
  BY <1>1, <1>4, <1>7, <1>9, <1>10 DEF Listed, Kept, Apart
<1> QED
  BY <1>4, <1>6, <1>7, <1>9, <1>11 DEF Ready

\* A change of a shown comparison that keeps its pair.
LEMMA PairKept ==
    ASSUME NEW w, Good(w), w.compare.active, NEW c \in Pair, c.active = ~c.restore,
           c.base = w.compare.base, c.snap \in {w.compare.snap, w.compare.base}
    PROVE  /\ Good([w EXCEPT !.compare = c])
           /\ [w EXCEPT !.compare = c].search.active = FALSE
           /\ [w EXCEPT !.compare = c].compare = c
<1> DEFINE u == [w EXCEPT !.compare = c]
<1>1. w \in Windows /\ ~w.search.active /\ Ready(w) /\ w.search \in Modes
  BY GoodReady
<1>2. /\ u \in Windows /\ u.search = w.search /\ u.compare = c /\ u.busy = w.busy
           /\ u.rows = w.rows
      /\ u.all = w.all /\ u.cur = w.cur
  BY <1>1 DEF Windows
<1> HIDE DEF u
<1>3. c.restore \in BOOLEAN /\ c.active \in BOOLEAN
  BY DEF Pair
<1>4. Kept(u)
  <2>1. Kept(w)
    BY DEF Good, Ready
  <2> QED
    BY <1>2, <2>1 DEF Kept
<1>5. Apart(u)
  BY <1>1, <1>2, <1>3 DEF Apart
<1>6. Ready(u)
  BY <1>2, <1>3, <1>4, <1>5 DEF Ready
<1>7. w.busy /\ (\A p \in Found!Panes : w.rows[p].from = "compare" /\ w.rows[p].dir = w.cur[p])
      /\ w.cur = w.compare.base
  BY DEF Good
<1>8. Good(u)
  BY <1>2, <1>6, <1>7 DEF Good
<1>9. u.search.active = FALSE
  BY <1>1, <1>2 DEF Modes
<1> QED
  BY <1>2, <1>8, <1>9 DEF u

\* OpenBoth
Opened(w) == [w EXCEPT !.compare.running = TRUE, !.compare.seq = @ + 1]

\* Both sides of a comparison go one level deeper.
LEMMA OpenedGood ==
    ASSUME NEW w, Good(w), w.compare.active
    PROVE  Good(Opened(w)) /\ Opened(w).compare.active
<1> DEFINE k == w.compare.seq + 1
           c == [w.compare EXCEPT !.running = TRUE, !.seq = k]
           u == [w EXCEPT !.compare = c]
<1>1. w \in Windows /\ w.compare \in Pair /\ ~w.compare.restore
  BY GoodReady
<1>2. k \in Nat
  BY <1>1 DEF Pair
<1>3. Opened(w) = u
  BY <1>1 DEF Windows, Pair, Opened
<1> HIDE DEF k
<1>4. /\ c \in Pair /\ c.active = w.compare.active /\ c.restore = w.compare.restore
      /\ c.base = w.compare.base /\ c.snap = w.compare.snap
  BY <1>1, <1>2 DEF Pair
<1>5. c.active = ~c.restore
  BY <1>1, <1>4 DEF Pair
<1> HIDE DEF c
<1>6. Good(u) /\ u.compare = c
  BY <1>4, <1>5, PairKept
<1> HIDE DEF u
<1> QED
  BY <1>3, <1>4, <1>6

\* SelectCompared
Marked(w, b) ==
    [w EXCEPT !.compare.sel = IF w.compare.running THEN @ ELSE b /\ w.compare.entries # "none"]

\* A row of a comparison is selected.
LEMMA MarkedGood ==
    ASSUME NEW w, Good(w), w.compare.active, NEW b \in BOOLEAN
    PROVE  Good(Marked(w, b)) /\ Marked(w, b).compare.active
<1> DEFINE e == IF w.compare.running THEN w.compare.sel ELSE b /\ w.compare.entries # "none"
           c == [w.compare EXCEPT !.sel = e]
           u == [w EXCEPT !.compare = c]
<1>1. w \in Windows /\ w.compare \in Pair /\ ~w.compare.restore
  BY GoodReady
<1>2. e \in BOOLEAN
  BY <1>1 DEF Pair
<1>3. Marked(w, b) = u
  BY <1>1 DEF Windows, Pair, Marked
<1> HIDE DEF e
<1>4. /\ c \in Pair /\ c.active = w.compare.active /\ c.restore = w.compare.restore
      /\ c.base = w.compare.base /\ c.snap = w.compare.snap
  BY <1>1, <1>2 DEF Pair
<1>5. c.active = ~c.restore
  BY <1>1, <1>4 DEF Pair
<1> HIDE DEF c
<1>6. Good(u) /\ u.compare = c
  BY <1>4, <1>5, PairKept
<1> HIDE DEF u
<1> QED
  BY <1>3, <1>4, <1>6

\* CompareEnds
Judged(w, ok) ==
    IF ok THEN [w EXCEPT !.compare.running = FALSE, !.compare.snap = w.compare.base,
                         !.compare.entries = "top", !.compare.sel = TRUE]
    ELSE [w EXCEPT !.compare.running = FALSE, !.compare.active = FALSE, !.compare.restore = TRUE]

\* A comparison arrives or fails.
LEMMA JudgedGood ==
    ASSUME NEW w, Good(w), w.compare.active, NEW ok \in BOOLEAN
    PROVE  Good(Judged(w, ok)) /\ ~Judged(w, ok).search.active
<1> DEFINE c == IF ok THEN [w.compare EXCEPT !.running = FALSE, !.snap = w.compare.base,
                                   !.entries = "top", !.sel = TRUE]
                ELSE [w.compare EXCEPT !.running = FALSE, !.active = FALSE, !.restore = TRUE]
           u == [w EXCEPT !.compare = c]
<1>1. w \in Windows /\ w.compare \in Pair /\ ~w.compare.restore
  BY GoodReady
<1>3. Judged(w, ok) = u
  BY <1>1 DEF Windows, Pair, Judged
<1>4. /\ c \in Pair /\ c.base = w.compare.base /\ c.snap \in {w.compare.snap, w.compare.base}
      /\ c.active = ~c.restore
  <2>1. CASE ok
    BY <1>1, <2>1 DEF Pair, Names
  <2>2. CASE ~ok
    BY <1>1, <2>2 DEF Pair
  <2> QED
    BY <2>1, <2>2
<1> HIDE DEF c
<1>6. Good(u) /\ u.search.active = FALSE
  BY <1>4, PairKept
<1> HIDE DEF u
<1> QED
  BY <1>3, <1>6

\* OpenEnds
Loaded(w, ok) == [w EXCEPT !.compare.running = FALSE, !.compare.nav = ok]

\* The directories of a deeper level arrive or fail.
LEMMA LoadedGood ==
    ASSUME NEW w, Good(w), w.compare.active, NEW ok \in BOOLEAN
    PROVE  Good(Loaded(w, ok)) /\ ~Loaded(w, ok).search.active
<1> DEFINE c == [w.compare EXCEPT !.running = FALSE, !.nav = ok]
           u == [w EXCEPT !.compare = c]
<1>1. w \in Windows /\ w.compare \in Pair /\ ~w.compare.restore
  BY GoodReady
<1>3. Loaded(w, ok) = u
  BY <1>1 DEF Windows, Pair, Loaded
<1>4. /\ c \in Pair /\ c.active = w.compare.active /\ c.restore = w.compare.restore
      /\ c.base = w.compare.base /\ c.snap = w.compare.snap
  BY <1>1 DEF Pair
<1>5. c.active = ~c.restore
  BY <1>1, <1>4 DEF Pair
<1> HIDE DEF c
<1>6. Good(u) /\ u.search.active = FALSE
  BY <1>4, <1>5, PairKept
<1> HIDE DEF u
<1> QED
  BY <1>3, <1>6

-----------------------------------------------------------------------------
\* A goroutine of the window.
Tasks == {t \in [kind : {"list", "connect", "leave", "search", "compare", "open"},
                 pane : Found!Panes \cup {"none"}, dir : Places, seq : Nat,
                 pc : {"run", "batch", "stop",
                   "wake"}] : t.kind = "list" => t.pane \in Found!Panes}
\* What it sends to the event loop.
Results == {r \in [kind : {"list", "connect", "leave", "failed", "wake"},
                   pane : Found!Panes \cup {"none"}, dir : Places] :
              r.kind = "list" => r.pane \in Found!Panes}

\* HandleResult
LEMMA AcceptedReady ==
    ASSUME NEW w, Good(w), NEW r \in Results
    PROVE  LET u == Found!Accepted([w EXCEPT !.busy = FALSE], r) IN
           /\ Ready(u) /\ u.search = w.search /\ u.compare = w.compare /\ u.busy = FALSE
<1> DEFINE v == [w EXCEPT !.busy = FALSE]
           u == Found!Accepted(v, r)
<1>1. Ready(v) /\ v.search = w.search /\ v.compare = w.compare /\ v.busy = FALSE
  BY GoodReady, BusyReady
<1>2. v \in Windows /\ DOMAIN v = Fields
  BY <1>1 DEF Ready, Windows, Fields
<1> HIDE DEF v
<1>3. CASE r.kind = "list"
  <2> DEFINE p == r.pane
             d == r.dir
             x == [v EXCEPT !.cur = [v.cur EXCEPT ![p] = d], !.sel = [v.sel EXCEPT ![p] = "none"]]
             y == Found!Accept(x, p, d)
  <2>1. p \in Found!Panes /\ d \in Places
    BY <1>3 DEF Results
  <2>2. u = Found!Accept([v EXCEPT !.cur[p] = d, !.sel[p] = "none"], p, d)
    BY <1>3 DEF Found!Accepted
  <2> HIDE DEF p, d
  <2>3. [v EXCEPT !.cur[p] = d, !.sel[p] = "none"] = x
    BY <1>2 DEF Fields
  <2>4. [v.cur EXCEPT ![p] = d] \in [Found!Panes -> Places]
          /\ [v.sel EXCEPT ![p] = "none"] \in [Found!Panes -> Names]
    BY <1>2, <2>1 DEF Windows, Names
  <2>5. /\ x \in Windows /\ x.cur = [v.cur EXCEPT ![p] = d] /\ x.busy = v.busy /\ x.all = v.all
        /\ x.rows = v.rows /\ x.search = v.search /\ x.compare = v.compare /\ x.query = v.query
    BY <1>2, <2>4 DEF Windows
  <2> HIDE DEF x
  <2>6. /\ y \in Windows /\ y.cur = x.cur /\ y.busy = x.busy /\ y.all = [x.all EXCEPT ![p] = d]
        /\ y.rows = [x.rows EXCEPT ![p] = Found!Listing(d, x.query[p])]
        /\ y.search = x.search /\ y.compare = x.compare
    BY <2>1, <2>5, AcceptTyped
  <2> HIDE DEF y
  <2>7. x.query[p] \in BOOLEAN
    BY <2>1, <2>5 DEF Windows
  <2> DEFINE l == Found!Listing(d, x.query[p])
  <2>8. l.dir = d
    BY <2>1, <2>7, ListingTyped
  <2> HIDE DEF l
  <2>9. v.cur \in [Found!Panes -> Places] /\ v.all \in [Found!Panes -> Places]
          /\ v.rows \in [Found!Panes -> Shown]
    BY <1>2 DEF Windows
  <2>10. /\ y.cur = [v.cur EXCEPT ![p] = d] /\ y.all = [v.all EXCEPT ![p] = d]
         /\ y.rows = [v.rows EXCEPT ![p] = l]
    BY <2>5, <2>6 DEF l
  <2>14. ASSUME NEW q \in Found!Panes
         PROVE  /\ q = p => y.cur[q] = d /\ y.all[q] = d /\ y.rows[q] = l
                /\ q # p => y.cur[q] = v.cur[q] /\ y.all[q] = v.all[q] /\ y.rows[q] = v.rows[q]
    BY <2>1, <2>9, <2>10
  <2>11. Listed(v) => Listed(y)
    <3> SUFFICES ASSUME Listed(v), NEW q \in Found!Panes
                 PROVE  y.all[q] \in {y.cur[q], "none"}
                        /\ (y.rows[q].from = "list" => y.rows[q].dir = y.all[q])
      BY DEF Listed
    <3>1. CASE q = p
      BY <3>1, <2>8, <2>14
    <3>2. CASE q # p
      BY <3>2, <2>14 DEF Listed
    <3> QED
      BY <3>1, <3>2
  <2>12. Ready(y)
    BY <1>1, <2>5, <2>6, <2>11 DEF Ready, Apart, Kept
  <2>13. u = y
    BY <2>2, <2>3 DEF y
  <2> QED
    BY <1>1, <2>5, <2>6, <2>12, <2>13 DEF u, v
<1>4. CASE r.kind = "connect"
  <2> DEFINE y == [v EXCEPT !.connected = TRUE]
  <2>1. u = y
    BY <1>4 DEF Found!Accepted
  <2>2. /\ y \in Windows /\ y.cur = v.cur /\ y.busy = v.busy /\ y.all = v.all /\ y.rows = v.rows
        /\ y.search = v.search /\ y.compare = v.compare
    BY <1>2 DEF Windows
  <2> HIDE DEF y
  <2>3. Ready(y)
    BY <1>1, <2>2, Carried
  <2> QED
    BY <1>1, <2>1, <2>2, <2>3 DEF u, v
<1>5. CASE r.kind = "leave"
  <2> DEFINE l == Found!Listing("none", FALSE)
             a == [v.all EXCEPT !["remote"] = "none"]
             m == [v.rows EXCEPT !["remote"] = l]
             n == [v.sel EXCEPT !["remote"] = "none"]
             y == [v EXCEPT !.connected = FALSE, !.all = a, !.rows = m, !.sel = n]
  <2>1. u = [v EXCEPT !.connected = FALSE, !.all["remote"] = "none",
                      !.rows["remote"] = l, !.sel["remote"] = "none"]
    BY <1>5 DEF Found!Accepted
  <2>2. l \in Shown /\ l.dir = "none"
    BY ListingTyped DEF Places
  <2> HIDE DEF l
  <2>3. u = y
    BY <1>2, <2>1 DEF Fields
  <2>4. v.all \in [Found!Panes -> Places] /\ v.rows \in [Found!Panes -> Shown]
        /\ v.sel \in [Found!Panes -> Names] /\ "remote" \in Found!Panes
    BY <1>2 DEF Windows, Found!Panes
  <2>5. a \in [Found!Panes -> Places] /\ m \in [Found!Panes -> Shown]
          /\ n \in [Found!Panes -> Names]
    BY <2>2, <2>4 DEF Places, Names
  <2>6. \A q \in Found!Panes : /\ a[q] = IF q = "remote" THEN "none" ELSE v.all[q]
                               /\ m[q] = IF q = "remote" THEN l ELSE v.rows[q]
    BY <2>4
  <2> HIDE DEF a, m, n
  <2>7. /\ y \in Windows /\ y.cur = v.cur /\ y.busy = v.busy /\ y.all = a /\ y.rows = m
        /\ y.search = v.search /\ y.compare = v.compare
    BY <1>2, <2>5 DEF Windows
  <2> HIDE DEF y
  <2>8. Listed(v) => Listed(y)
    BY <2>2, <2>6, <2>7 DEF Listed
  <2>9. Ready(y)
    BY <1>1, <2>7, <2>8 DEF Ready, Apart, Kept
  <2> QED
    BY <1>1, <2>3, <2>7, <2>9 DEF u, v
<1>6. CASE r.kind \notin {"list", "connect", "leave"}
  <2>1. u = v
    BY <1>6 DEF Found!Accepted
  <2> QED
    BY <1>1, <2>1 DEF u, v
<1> QED
  BY <1>3, <1>4, <1>5, <1>6

(***************************************************************************)
(* A window that searches                                                  *)
(***************************************************************************)

\* A modal view is shown.
Owned(w) == w.search.active \/ w.compare.active
\* The window, its goroutines and its channel: a busy window has one of them to wait for.
State(w, k, q) ==
    /\ Good(w) /\ k \subseteq Tasks /\ q \in Seq(Results)
    /\ w.busy => Owned(w) \/ k # {} \/ q # <<>>

\* A frame after a handler, with goroutines and channel as they are.
LEMMA Settles ==
    ASSUME NEW u, Ready(u), NEW k \in SUBSET Tasks, NEW q \in Seq(Results),
           Owned(u) \/ ~u.busy \/ k # {} \/ q # <<>>
    PROVE  State(Found!Render(u), k, q) /\ Owned(Found!Render(u)) = Owned(u)
<1>1. /\ Good(Found!Render(u))
      /\ Found!Render(u).search.active = u.search.active
      /\ Found!Render(u).compare.active = u.compare.active
      /\ ~u.search.active /\ ~u.compare.active => (Found!Render(u).busy => u.busy)
  BY Frame
<1> QED
  BY <1>1 DEF State, Owned

\* A goroutine that is started.
LEMMA TaskTyped ==
    ASSUME NEW k \in {"list", "connect", "leave", "search", "compare", "open"},
           NEW p \in Found!Panes \cup {"none"}, NEW d \in Places, k = "list" => p \in Found!Panes
    PROVE  Found!Task(k, p, d) \in Tasks
  BY DEF Found!Task, Tasks

\* It remembers the sequence number of its search.
LEMMA SeqTyped ==
    ASSUME NEW t \in Tasks, NEW n \in Nat
    PROVE  [t EXCEPT !.seq = n] \in Tasks
  BY DEF Tasks

\* It goes on.
LEMMA PcTyped ==
    ASSUME NEW t \in Tasks, NEW c \in {"run", "batch", "stop", "wake"}
    PROVE  [t EXCEPT !.pc = c] \in Tasks /\ (t.pc # c => [t EXCEPT !.pc = c] # t)
  BY DEF Tasks

\* The goroutine t goes on as one at c.
Moved(k, t, c) == (k \ {t}) \cup {[t EXCEPT !.pc = c]}

\* One of the goroutines goes on.
LEMMA Goes ==
    ASSUME NEW k \in SUBSET Tasks, NEW t \in k, NEW c \in {"run", "batch", "stop", "wake"},
           t.pc # c
    PROVE  Moved(k, t, c) \in SUBSET Tasks /\ Moved(k, t, c) # {} /\ Moved(k, t, c) # k
<1>1. [t EXCEPT !.pc = c] \in Tasks /\ [t EXCEPT !.pc = c] # t
  BY PcTyped
<1> QED
  BY <1>1 DEF Moved

\* startAction of any window
LEMMA Begins ==
    ASSUME NEW u, Ready(u), NEW k \in SUBSET Tasks, NEW q \in Seq(Results), NEW t \in Tasks
    PROVE  /\ State(Found!Render([u EXCEPT !.busy = TRUE]), k \cup {t}, q)
           /\ Owned(Found!Render([u EXCEPT !.busy = TRUE])) = Owned(u)
<1> DEFINE v == [u EXCEPT !.busy = TRUE]
<1>1. Ready(v) /\ Owned(v) = Owned(u)
  BY BusyReady DEF Owned
<1>2. k \cup {t} \in SUBSET Tasks /\ k \cup {t} # {}
  OBVIOUS
<1> HIDE DEF v
<1>3. State(Found!Render(v), k \cup {t}, q) /\ Owned(Found!Render(v)) = Owned(v)
  BY <1>1, <1>2, Settles
<1> QED
  BY <1>1, <1>3 DEF v

-----------------------------------------------------------------------------
\* The inductive invariant of a window that searches.
FoundState == State(foundWin, foundWork, foundQueue)

\* A handler starts a goroutine.
LEMMA FoundBegins ==
    ASSUME FoundState, NEW u, Ready(u), NEW t \in Tasks, Found!StartAction(u, t),
           foundQueue' = foundQueue
    PROVE  FoundState' /\ Owned(foundWin') = Owned(u) /\ foundWork' # foundWork
<1>1. /\ foundWin' = Found!Render([u EXCEPT !.busy = TRUE]) /\ foundWork' = foundWork \cup {t}
      /\ t \notin foundWork
  BY DEF Found!StartAction
<1>2. foundWork \in SUBSET Tasks /\ foundQueue \in Seq(Results)
  BY DEF FoundState, State
<1> QED
  BY <1>1, <1>2, Begins DEF FoundState

\* A handler starts none.
LEMMA FoundSettles ==
    ASSUME FoundState, NEW u, Ready(u), foundWin' = Found!Render(u), foundWork' = foundWork,
           foundQueue' = foundQueue, Owned(u) \/ ~u.busy
             \/ (u.busy = foundWin.busy /\ ~Owned(foundWin))
    PROVE  FoundState' /\ Owned(foundWin') = Owned(u)
<1>1. foundWork \in SUBSET Tasks /\ foundQueue \in Seq(Results)
      /\ (foundWin.busy => Owned(foundWin) \/ foundWork # {} \/ foundQueue # <<>>)
  BY DEF FoundState, State
<1> QED
  BY <1>1, Settles DEF FoundState

\* A click on the panes and the connection.
LEMMA FoundClicks ==
    ASSUME FoundState, Found!Clicks
    PROVE  FoundState' /\ (Owned(foundWin) => Owned(foundWin'))
<1>0. Good(foundWin) /\ Ready(foundWin) /\ foundWin \in Windows
  BY GoodReady DEF FoundState, State
<1>1. ASSUME NEW p \in Found!Panes, NEW d \in Found!Dir[p], Found!Refresh(p, d)
      PROVE  FoundState' /\ (Owned(foundWin) => Owned(foundWin'))
  <2>1. Found!Task("list", p, d) \in Tasks
    BY PlacesTyped, TaskTyped
  <2> QED
    BY <1>0, <1>1, <2>1, FoundBegins DEF Found!Refresh
<1>2. ASSUME Found!Connect \/ Found!Disconnect
      PROVE  FoundState' /\ (Owned(foundWin) => Owned(foundWin'))
  <2>1. Found!Task("connect", "remote", "r") \in Tasks
          /\ Found!Task("leave", "remote", "r") \in Tasks
    BY TaskTyped DEF Found!Panes, Places
  <2> QED
    BY <1>0, <1>2, <2>1, FoundBegins DEF Found!Connect, Found!Disconnect
<1>3. ASSUME NEW p \in Found!Panes, Found!SelectRow(p)
      PROVE  FoundState' /\ (Owned(foundWin) => Owned(foundWin'))
  <2>1. PICK n \in foundWin.rows[p].names \cup {"none"} : Found!Step(Chosen(foundWin, p, n))
    BY <1>3 DEF Found!SelectRow, Chosen
  <2>2. n \in Names
    BY <1>0, <2>1 DEF Windows, Shown, Names
  <2> DEFINE u == Chosen(foundWin, p, n)
  <2>3. Ready(u) /\ u.busy = foundWin.busy /\ Owned(u) = Owned(foundWin)
    BY <1>0, <2>2, ChosenReady DEF Owned
  <2>4. foundWin' = Found!Render(u) /\ foundWork' = foundWork /\ foundQueue' = foundQueue
    BY <1>3, <2>1 DEF Found!SelectRow, Found!Step
  <2> HIDE DEF u
  <2> QED
    BY <2>3, <2>4, FoundSettles DEF Owned
<1>4. ASSUME NEW p \in Found!Panes, Found!RowCommand(p)
      PROVE  FoundState' /\ (Owned(foundWin) => Owned(foundWin'))
  BY <1>4 DEF Found!RowCommand, FoundState
<1>5. ASSUME NEW p \in Found!Panes, Found!ApplyFilter(p)
      PROVE  FoundState' /\ (Owned(foundWin) => Owned(foundWin'))
  <2> DEFINE u == Filtered(foundWin, p)
  <2>1. Ready(u) /\ u.busy = foundWin.busy /\ Owned(u) = Owned(foundWin)
    BY <1>0, FilteredReady DEF Owned
  <2>2. /\ foundWin' = Found!Render(u) /\ foundWork' = foundWork /\ foundQueue' = foundQueue
        /\ ~foundWin.busy
    BY <1>5 DEF Found!ApplyFilter, Found!Step, Filtered
  <2> HIDE DEF u
  <2> QED
    BY <2>1, <2>2, FoundSettles DEF Owned
<1> QED
  BY <1>1, <1>2, <1>3, <1>4, <1>5 DEF Found!Clicks

\* A click on a search; closing it returns to the listing.
LEMMA FoundSearching ==
    ASSUME FoundState, Found!SearchClicks
    PROVE  FoundState' /\ Found!CloseReturnsStep
<1>0. Good(foundWin) /\ foundWin \in Windows /\ foundWork \in SUBSET Tasks
        /\ foundQueue \in Seq(Results)
  BY GoodReady DEF FoundState, State
<1>1. ASSUME Found!CloseSearch
      PROVE  FoundState' /\ Found!CloseReturnsStep
  <2> DEFINE u == Returned(foundWin)
  <2>1. foundWin' = Found!Render(u) /\ foundWork' = foundWork /\ foundQueue' = foundQueue
        /\ foundWin.search.active
    BY <1>1 DEF Found!CloseSearch, Found!Step, Returned
  <2>2. ~foundWin.compare.active /\ ~foundWin.compare.restore
    BY <1>0, <2>1, GoodReady
  <2>3. /\ Ready(u) /\ u.busy = FALSE /\ u.search.active = FALSE
        /\ ~u.compare.active /\ ~u.compare.restore
        /\ u.rows[foundWin.search.pane].from = "list"
    BY <1>0, <2>1, <2>2, ReturnedReady
  <2> HIDE DEF u
  <2>4. FoundState'
    BY <2>1, <2>3, FoundSettles
  <2>5. ~foundWin'.busy /\ foundWin'.rows = u.rows
    BY <2>1, <2>3, Frame
  <2> QED
    BY <2>2, <2>3, <2>4, <2>5 DEF Found!CloseReturnsStep
<1>2. ASSUME Found!NavigateSearch
      PROVE  FoundState' /\ Found!CloseReturnsStep
  <2> DEFINE u == Gone(foundWin)
             p == foundWin.search.pane
             t == Found!Task("list", p, Found!Child[p])
  <2>1. /\ foundWin.search.active
        /\ IF p = "remote" /\ ~foundWin.connected THEN Found!Step(u) /\ UNCHANGED foundWork
           ELSE Found!StartAction(u, t) /\ UNCHANGED <<foundQueue, foundActed>>
    BY <1>2 DEF Found!NavigateSearch, Gone
  <2>2. Ready(u) /\ u.busy = FALSE
    BY <1>0, <2>1, GoneReady
  <2>3. p \in Found!Panes
    BY <1>0 DEF Windows, Modes
  <2>4. t \in Tasks
    <3>1. Found!Child[p] \in Places
      BY <2>3, PlacesTyped
    <3> QED
      BY <2>3, <3>1, TaskTyped
  <2> HIDE DEF u, t
  <2>5. CASE p = "remote" /\ ~foundWin.connected
    <3>1. foundWin' = Found!Render(u) /\ foundWork' = foundWork /\ foundQueue' = foundQueue
      BY <2>1, <2>5 DEF Found!Step
    <3>2. FoundState'
      BY <2>2, <3>1, FoundSettles
    <3> QED
      BY <2>1, <2>5, <3>2 DEF Found!CloseReturnsStep
  <2>6. CASE ~(p = "remote" /\ ~foundWin.connected)
    <3>1. FoundState' /\ foundWork' # foundWork
      BY <2>1, <2>2, <2>4, <2>6, FoundBegins
    <3> QED
      BY <3>1 DEF Found!CloseReturnsStep
  <2> QED
    BY <2>5, <2>6
<1>3. ASSUME Found!SelectFound
      PROVE  FoundState' /\ Found!CloseReturnsStep
  <2>1. PICK b \in BOOLEAN : Found!Step([foundWin EXCEPT !.search.sel
          = b /\ foundWin.search.found # {}])
    BY <1>3 DEF Found!SelectFound
  <2> DEFINE u == [foundWin EXCEPT !.search.sel = b /\ foundWin.search.found # {}]
  <2>2. Ready(u) /\ Owned(u)
    BY <1>0, <1>3, PointedReady DEF Owned, Found!SelectFound
  <2>3. foundWin' = Found!Render(u) /\ foundWork' = foundWork /\ foundQueue' = foundQueue
    BY <1>3, <2>1 DEF Found!SelectFound, Found!Step
  <2> HIDE DEF u
  <2>4. FoundState' /\ Owned(foundWin')
    BY <2>2, <2>3, FoundSettles
  <2> QED
    BY <2>4 DEF Found!CloseReturnsStep, Found!Modal, Owned
<1>4. ASSUME NEW p \in Found!Panes, Found!StartSearch(p)
      PROVE  FoundState' /\ Found!CloseReturnsStep
  <2> DEFINE u == Sought(foundWin, p)
             t == [Found!Task("search", p,
               foundWin.cur[p]) EXCEPT !.seq = foundWin.search.seq + 1]
  <2>1. /\ foundWin' = Found!Render(u) /\ foundWork' = foundWork \cup {t}
             /\ foundQueue' = foundQueue
        /\ ~foundWin.busy
    BY <1>4 DEF Found!StartSearch, Found!Step, Sought
  <2>2. Ready(u) /\ Owned(u)
    BY <1>0, <2>1, SoughtReady DEF Owned
  <2>3. t \in Tasks
    <3>1. foundWin.cur[p] \in Places /\ foundWin.search.seq + 1 \in Nat
      BY <1>0 DEF Windows, Modes
    <3> QED
      BY <3>1, TaskTyped, SeqTyped
  <2> HIDE DEF u, t
  <2>4. foundWork' \in SUBSET Tasks
    BY <1>0, <2>1, <2>3
  <2>5. FoundState' /\ Owned(foundWin')
    BY <1>0, <2>1, <2>2, <2>4, Settles DEF FoundState
  <2> QED
    BY <2>5 DEF Found!CloseReturnsStep, Found!Modal, Owned
<1> QED
  BY <1>1, <1>2, <1>3, <1>4 DEF Found!SearchClicks

\* A click on a comparison; closing it returns to both listings.
LEMMA FoundComparing ==
    ASSUME FoundState, Found!CompareClicks
    PROVE  FoundState' /\ Found!CloseReturnsStep
<1>0. /\ Good(foundWin) /\ Ready(foundWin) /\ foundWin \in Windows /\ foundWork \in SUBSET Tasks
      /\ foundQueue \in Seq(Results) /\ foundWin.compare.seq \in Nat
  <2>1. Good(foundWin) /\ foundWork \in SUBSET Tasks /\ foundQueue \in Seq(Results)
    BY DEF FoundState, State
  <2> QED
    BY <2>1, GoodReady DEF Pair
<1>1. ASSUME NEW k \in {"compare", "open"}
      PROVE  Found!CompareTask(k) \in Tasks
  <2>1. Found!Task(k, "none", "none") \in Tasks
    BY <1>1, TaskTyped DEF Places
  <2>2. foundWin.compare.seq + 1 \in Nat
    BY <1>0
  <2>3. [Found!Task(k, "none", "none") EXCEPT !.seq = foundWin.compare.seq + 1] \in Tasks
    BY <2>1, <2>2, SeqTyped
  <2> QED
    BY <2>3 DEF Found!CompareTask
<1>2. ASSUME NEW u, Ready(u), Owned(u), NEW t \in Tasks, foundWin' = Found!Render(u),
             foundWork' = foundWork \cup {t} \/ foundWork' = foundWork, foundQueue' = foundQueue
      PROVE  FoundState' /\ Found!CloseReturnsStep
  <2>1. foundWork' \in SUBSET Tasks
    BY <1>0, <1>2
  <2>2. FoundState' /\ Owned(foundWin')
    BY <1>0, <1>2, <2>1, Settles DEF FoundState
  <2> QED
    BY <2>2 DEF Found!CloseReturnsStep, Found!Modal, Owned
<1>3. ASSUME Found!StartCompare
      PROVE  FoundState' /\ Found!CloseReturnsStep
  <2>1. /\ ~foundWin.busy /\ ~foundWin.search.active
        /\ foundWin' = Found!Render(Found!Compared(foundWin)) /\ foundQueue' = foundQueue
        /\ foundWork' = foundWork \cup {Found!CompareTask("compare")}
    BY <1>3 DEF Found!StartCompare, Found!CanCompare, Found!Step
  <2>2. ~foundWin.compare.active /\ ~foundWin.compare.restore
    BY <1>0, <2>1 DEF Good
  <2>3. Ready(Found!Compared(foundWin)) /\ Owned(Found!Compared(foundWin))
    BY <1>0, <2>1, <2>2, ComparedReady DEF Owned
  <2> QED
    BY <1>1, <1>2, <2>1, <2>3
<1>4. ASSUME Found!CloseCompare
      PROVE  FoundState' /\ Found!CloseReturnsStep
  <2> DEFINE u == Found!Closed(foundWin)
  <2>1. /\ foundWin.compare.active /\ foundWin' = Found!Render(u) /\ foundQueue' = foundQueue
        /\ foundWork' = foundWork
    BY <1>4 DEF Found!CloseCompare, Found!Step
  <2>2. /\ Ready(u) /\ u.compare.active = FALSE /\ u.compare.restore = FALSE /\ u.busy = FALSE
        /\ u.search = foundWin.search
        /\ \A p \in Found!Panes : u.rows[p].from = "list"
    BY <1>0, <2>1, ClosedReady
  <2>3. ~foundWin.search.active
    BY <1>0, <2>1, GoodReady
  <2> HIDE DEF u
  <2>4. FoundState'
    BY <2>1, <2>2, FoundSettles
  <2>5. ~foundWin'.busy /\ foundWin'.rows = u.rows
    BY <2>1, <2>2, <2>3, Frame
  <2> QED
    BY <2>2, <2>4, <2>5 DEF Found!CloseReturnsStep
<1>5. ASSUME Found!CompareAgain
      PROVE  FoundState' /\ Found!CloseReturnsStep
  <2> DEFINE u == Found!Closed(foundWin)
             t == [Found!CompareTask("compare") EXCEPT !.seq = @ + 1]
  <2>1. /\ foundWin.compare.active /\ foundWin' = Found!Render(Found!Compared(u))
        /\ foundQueue' = foundQueue /\ foundWork' = foundWork \cup {t}
    BY <1>5 DEF Found!CompareAgain, Found!Step
  <2>2. /\ Ready(u) /\ u.compare.active = FALSE /\ u.compare.restore = FALSE
        /\ u.search = foundWin.search
    BY <1>0, <2>1, ClosedReady
  <2>3. ~foundWin.search.active
    BY <1>0, <2>1, GoodReady
  <2>4. t \in Tasks
    <3> DEFINE c == Found!CompareTask("compare")
    <3>1. c \in Tasks
      BY <1>1
    <3>2. c.seq + 1 \in Nat
      BY <3>1 DEF Tasks
    <3> HIDE DEF c
    <3>3. [c EXCEPT !.seq = c.seq + 1] \in Tasks
      BY <3>1, <3>2, SeqTyped
    <3> QED
      BY <3>3 DEF c
  <2> HIDE DEF u, t
  <2>5. Ready(Found!Compared(u)) /\ Owned(Found!Compared(u))
    BY <2>2, <2>3, ComparedReady DEF Owned
  <2> QED
    BY <1>2, <2>1, <2>4, <2>5
<1>6. ASSUME Found!OpenBoth
      PROVE  FoundState' /\ Found!CloseReturnsStep
  <2>1. /\ foundWin.compare.active /\ foundWin' = Found!Render(Opened(foundWin))
        /\ foundQueue' = foundQueue /\ foundWork' = foundWork \cup {Found!CompareTask("open")}
    BY <1>6 DEF Found!OpenBoth, Found!Step, Opened
  <2>2. Ready(Opened(foundWin)) /\ Owned(Opened(foundWin))
    BY <1>0, <2>1, OpenedGood DEF Owned, Good
  <2> QED
    BY <1>1, <1>2, <2>1, <2>2
<1>7. ASSUME Found!SelectCompared
      PROVE  FoundState' /\ Found!CloseReturnsStep
  <2>1. PICK b \in BOOLEAN : Found!Step(Marked(foundWin, b))
    BY <1>7 DEF Found!SelectCompared, Marked
  <2>2. /\ foundWin.compare.active /\ foundWin' = Found!Render(Marked(foundWin, b))
        /\ foundQueue' = foundQueue /\ foundWork' = foundWork
    BY <1>7, <2>1 DEF Found!SelectCompared, Found!Step
  <2>3. Ready(Marked(foundWin, b)) /\ Owned(Marked(foundWin, b))
    BY <1>0, <2>2, MarkedGood DEF Owned, Good
  <2> QED
    BY <1>1, <1>2, <2>2, <2>3
<1> QED
  BY <1>3, <1>4, <1>5, <1>6, <1>7 DEF Found!CompareClicks

\* A goroutine goes on, and tells the event loop.
LEMMA FoundGoes ==
    ASSUME FoundState, Found!Goroutines
    PROVE  FoundState' /\ Found!CloseReturnsStep
<1>0. /\ Good(foundWin) /\ foundWork \in SUBSET Tasks
      /\ foundQueue \in Seq(Results)
  BY DEF FoundState, State
<1>1. PICK t \in foundWork : \/ Found!Answers(t) \/ Found!Emit(t) \/ Found!SearchEnds(t)
                             \/ Found!Wakes(t) \/ Found!CompareEnds(t) \/ Found!OpenEnds(t)
  BY DEF Found!Goroutines
<1>2. ASSUME Good(foundWin'), foundQueue' = foundQueue,
             NEW c \in {"run", "batch", "stop", "wake"},
             t.pc # c, foundWork' = (foundWork \ {t}) \cup {[t EXCEPT !.pc = c]}
      PROVE  FoundState' /\ Found!CloseReturnsStep
  <2>2. foundWork \in SUBSET Tasks /\ t \in foundWork /\ t.pc # c
    BY <1>0, <1>1, <1>2
  <2>3. /\ Moved(foundWork, t, c) \in SUBSET Tasks /\ Moved(foundWork, t, c) # {}
        /\ Moved(foundWork, t, c) # foundWork
    BY <2>2, Goes
  <2>4. foundWork' = Moved(foundWork, t, c)
    BY <1>2 DEF Moved
  <2>1. foundWork' \in SUBSET Tasks /\ foundWork' # {} /\ foundWork' # foundWork
    BY <2>3, <2>4
  <2> QED
    BY <1>0, <1>2, <2>1 DEF FoundState, State, Found!CloseReturnsStep
<1>3. ASSUME foundWin' = foundWin, foundWork' \in SUBSET Tasks, NEW r \in Results,
             foundQueue' = Append(foundQueue, r)
      PROVE  FoundState' /\ Found!CloseReturnsStep
  <2>1. foundQueue' \in Seq(Results) /\ foundQueue' # <<>>
    BY <1>0, <1>3
  <2> QED
    BY <1>0, <1>3, <2>1 DEF FoundState, State, Found!CloseReturnsStep, Found!Modal
<1>4. CASE Found!Answers(t)
  <2>1. PICK ok \in BOOLEAN :
          foundQueue' = Append(foundQueue, [kind |-> IF ok THEN t.kind ELSE "failed",
                                            pane |-> t.pane, dir |-> t.dir])
    BY <1>4 DEF Found!Answers
  <2>2. t \in Tasks /\ t.kind \in {"list", "connect", "leave"}
    BY <1>0, <1>1, <1>4 DEF Found!Answers
  <2>3. [kind |-> IF ok THEN t.kind ELSE "failed", pane |-> t.pane, dir |-> t.dir] \in Results
    BY <2>2 DEF Tasks, Results
  <2>4. foundWin' = foundWin /\ foundWork' \in SUBSET Tasks
    BY <1>0, <1>4 DEF Found!Answers
  <2> QED
    BY <1>3, <2>1, <2>3, <2>4
<1>5. CASE Found!Emit(t)
  <2>1. PICK c \in {"batch", "stop"} : foundWork' = (foundWork \ {t}) \cup {[t EXCEPT !.pc = c]}
    BY <1>5 DEF Found!Emit
  <2>2. foundQueue' = foundQueue /\ t.pc = "run"
    BY <1>5 DEF Found!Emit
  <2>3. \/ foundWin' = foundWin
        \/ foundWin' = [foundWin EXCEPT !.search.found = {"b"}, !.search.sel = TRUE]
    BY <1>5 DEF Found!Emit
  <2>4. Good(foundWin')
    BY <1>0, <2>3, BatchGood
  <2> QED
    BY <1>2, <2>1, <2>2, <2>4
<1>6. CASE Found!SearchEnds(t)
  <2>1. /\ foundWork' = (foundWork \ {t}) \cup {[t EXCEPT !.pc = "wake"]}
        /\ foundQueue' = foundQueue /\ t.pc # "wake"
    BY <1>6 DEF Found!SearchEnds
  <2>2. foundWin' = foundWin \/ foundWin' = [foundWin EXCEPT !.search.running = FALSE]
    BY <1>6 DEF Found!SearchEnds
  <2>3. Good(foundWin')
    BY <1>0, <2>2, ScannedGood
  <2> QED
    BY <1>2, <2>1, <2>3
<1>7. CASE Found!Wakes(t)
  <2>1. foundWin' = foundWin /\ foundQueue' = Append(foundQueue, Found!Wake)
    BY <1>7 DEF Found!Wakes
  <2>2. Found!Wake \in Results
    BY DEF Found!Wake, Results, Places
  <2>3. foundWork' \in SUBSET Tasks
    <3>1. t \in Tasks /\ t.pc \in {"batch", "wake"}
      BY <1>0, <1>1, <1>7 DEF Found!Wakes
    <3>2. [t EXCEPT !.pc = "stop"] \in Tasks
      BY <3>1, PcTyped
    <3>3. foundWork' = foundWork \ {t}
            \/ foundWork' = (foundWork \ {t}) \cup {[t EXCEPT !.pc = "stop"]}
      BY <1>7 DEF Found!Wakes
    <3> QED
      BY <1>0, <3>2, <3>3
  <2> QED
    BY <1>3, <2>1, <2>2, <2>3
<1>8. CASE Found!CompareEnds(t)
  <2>1. /\ foundWork' = (foundWork \ {t}) \cup {[t EXCEPT !.pc = "wake"]}
        /\ foundQueue' = foundQueue /\ t.pc # "wake"
    BY <1>8 DEF Found!CompareEnds
  <2>2. PICK ok \in BOOLEAN : \/ foundWin' = foundWin
                              \/ foundWin.compare.active /\ foundWin' = Judged(foundWin, ok)
    BY <1>8 DEF Found!CompareEnds, Judged
  <2>3. Good(foundWin')
    BY <1>0, <2>2, JudgedGood
  <2> QED
    BY <1>2, <2>1, <2>3
<1>9. CASE Found!OpenEnds(t)
  <2>1. /\ foundWork' = (foundWork \ {t}) \cup {[t EXCEPT !.pc = "wake"]}
        /\ foundQueue' = foundQueue /\ t.pc # "wake"
    BY <1>9 DEF Found!OpenEnds
  <2>2. PICK ok \in BOOLEAN : \/ foundWin' = foundWin
                              \/ foundWin.compare.active /\ foundWin' = Loaded(foundWin, ok)
    BY <1>9 DEF Found!OpenEnds, Loaded
  <2>3. Good(foundWin')
    BY <1>0, <2>2, LoadedGood
  <2> QED
    BY <1>2, <2>1, <2>3
<1> QED
  BY <1>1, <1>4, <1>5, <1>6, <1>7, <1>8, <1>9

\* The event loop takes a result.
LEMMA FoundHandles ==
    ASSUME FoundState, Found!HandleResult
    PROVE  FoundState' /\ (Owned(foundWin) => Owned(foundWin'))
<1>1. Good(foundWin) /\ foundWork \in SUBSET Tasks /\ foundQueue \in Seq(Results)
        /\ foundQueue # <<>>
  BY DEF FoundState, State, Found!HandleResult
<1>2. Head(foundQueue) \in Results /\ Tail(foundQueue) \in Seq(Results)
  BY <1>1
<1> DEFINE u == Found!Accepted([foundWin EXCEPT !.busy = FALSE], Head(foundQueue))
<1>3. Ready(u) /\ u.busy = FALSE /\ Owned(u) = Owned(foundWin)
  BY <1>1, <1>2, AcceptedReady DEF Owned
<1>4. foundWin' = Found!Render(u) /\ foundQueue' = Tail(foundQueue) /\ foundWork' = foundWork
  BY DEF Found!HandleResult
<1> HIDE DEF u
<1> QED
  BY <1>1, <1>2, <1>3, <1>4, Settles DEF FoundState

\* Every step keeps the invariant, and closing a modal view returns what was there.
LEMMA FoundStep ==
    ASSUME FoundState, Found!Next
    PROVE  FoundState' /\ Found!CloseReturnsStep
<1>1. CASE Found!Clicks \/ Found!HandleResult
  <2>1. FoundState' /\ (Owned(foundWin) => Owned(foundWin'))
    BY <1>1, FoundClicks, FoundHandles
  <2> QED
    BY <2>1 DEF Found!CloseReturnsStep, Found!Modal, Owned
<1>2. CASE Found!SearchClicks \/ Found!CompareClicks \/ Found!Goroutines
  BY <1>2, FoundSearching, FoundComparing, FoundGoes
<1> QED
  BY <1>1, <1>2 DEF Found!Next

\* Nothing is under way at the start.
LEMMA FoundStarts ==
    ASSUME Found!Init
    PROVE  FoundState
<1>1. foundWin = Found!NewWindow /\ foundWork = {} /\ foundQueue = <<>>
  BY DEF Found!Init
<1>2. /\ ~foundWin.search.active /\ ~foundWin.compare.active /\ ~foundWin.compare.restore
      /\ ~foundWin.busy
  BY <1>1 DEF Found!NewWindow
<1>3. Listed(foundWin)
  <2> SUFFICES ASSUME NEW p \in Found!Panes
               PROVE  /\ foundWin.all[p] \in {foundWin.cur[p], "none"}
                      /\ foundWin.rows[p].from = "list" => foundWin.rows[p].dir = foundWin.all[p]
    BY DEF Listed
  <2>1. foundWin.cur = Found!Top /\ foundWin.all[p] = (IF p = "local" THEN "l" ELSE "none")
        /\ foundWin.rows[p].dir = (IF p = "local" THEN "l" ELSE "none")
    BY <1>1 DEF Found!NewWindow, Found!Listing
  <2>2. p = "local" => Found!Top[p] = "l"
    BY DEF Found!Top
  <2> QED
    BY <2>1, <2>2
<1> QED
  BY <1>1, <1>2, <1>3, NewTyped DEF FoundState, State, Good, Ready, Apart, Owned

\* The invariant says what the suite checks of the modal views.
LEMMA FoundHolds ==
    ASSUME FoundState
    PROVE  /\ Found!ModalHoldsWindow /\ Found!BusyHasOwner
           /\ Found!PairTogether /\ Found!ListingOfCurrent
<1>1. Good(foundWin) /\ Ready(foundWin)
        /\ (foundWin.busy => Owned(foundWin) \/ foundWork # {} \/ foundQueue # <<>>)
  BY DEF FoundState, State, Good
<1>2. Found!ModalHoldsWindow /\ Found!BusyHasOwner
  BY <1>1 DEF Found!ModalHoldsWindow, Found!BusyHasOwner, Found!Modal, Good, Ready, Apart, Owned
<1>3. Found!PairTogether
  BY <1>1 DEF Found!PairTogether, Good
<1>4. Found!ListingOfCurrent
  <2> SUFFICES ASSUME NEW p \in Found!Panes, foundWin.rows[p].from = "list",
                      foundWin.rows[p].dir # "none"
               PROVE  foundWin.rows[p].dir = foundWin.cur[p]
                      /\ foundWin.rows[p].dir = foundWin.all[p]
    BY DEF Found!ListingOfCurrent
  <2>1. ~foundWin.compare.active /\ ~foundWin.compare.restore
    BY <1>1 DEF Good
  <2>2. Listed(foundWin)
    BY <1>1, <2>1 DEF Ready
  <2> QED
    BY <2>2 DEF Listed
<1> QED
  BY <1>2, <1>3, <1>4

(***************************************************************************)
(* A window that compares                                                  *)
(***************************************************************************)

\* The window that compares has the functions of the one that searches: they depend on
\* none of the bounds.
LEMMA PairsSame ==
    /\ Pairs!Panes = Found!Panes /\ Pairs!Dir = Found!Dir /\ Pairs!Child = Found!Child
    /\ Pairs!Top = Found!Top /\ Pairs!NoNav = Found!NoNav /\ Pairs!Wake = Found!Wake
    /\ Pairs!NewWindow = Found!NewWindow
    /\ \A w : /\ Pairs!Render(w) = Found!Render(w) /\ Pairs!Compared(w) = Found!Compared(w)
             /\ Pairs!Closed(w) = Found!Closed(w)
    /\ \A w, r : Pairs!Accepted(w, r) = Found!Accepted(w, r)
    /\ \A k, p, d : Pairs!Task(k, p, d) = Found!Task(k, p, d)
    /\ \A d, b : /\ Pairs!Listing(d, b) = Found!Listing(d, b)
                /\ Pairs!Restored(d, b) = Found!Restored(d, b)
                /\ Pairs!SearchClosed(d, b) = Found!SearchClosed(d, b)
<1>1. /\ Pairs!Panes = Found!Panes /\ Pairs!Dir = Found!Dir /\ Pairs!Child = Found!Child
      /\ Pairs!Top = Found!Top /\ Pairs!NoNav = Found!NoNav /\ Pairs!Wake = Found!Wake
  BY DEF Pairs!Panes, Found!Panes, Pairs!Dir, Found!Dir, Pairs!Child, Found!Child, Pairs!Top,
         Found!Top, Pairs!NoNav, Found!NoNav, Pairs!Wake, Found!Wake
<1>2. \A d, b : Pairs!Listing(d, b) = Found!Listing(d, b)
  BY DEF Pairs!Listing, Found!Listing
<1>3. \A d, b : Pairs!Restored(d, b) = Found!Restored(d, b)
  BY DEF Pairs!Restored, Found!Restored
<1>4. \A d, b : Pairs!SearchClosed(d, b) = Found!SearchClosed(d, b)
  BY DEF Pairs!SearchClosed, Found!SearchClosed
<1>5. \A k, p, d : Pairs!Task(k, p, d) = Found!Task(k, p, d)
  BY DEF Pairs!Task, Found!Task
<1>6. \A w, p, d : Pairs!Accept(w, p, d) = Found!Accept(w, p, d)
  BY <1>2 DEF Pairs!Accept, Found!Accept
<1>7. \A c : Pairs!Arrived(c) = Found!Arrived(c)
  BY <1>1 DEF Pairs!Arrived, Found!Arrived
<1>8. \A w, c : Pairs!Restore(w, c) = Found!Restore(w, c)
  <2> TAKE w, c
  <2> DEFINE v == [w EXCEPT !.busy = FALSE, !.cur = c.base,
        !.sel = [p \in Found!Panes |-> "none"]]
  <2>1. /\ Pairs!Restore(w, c) = Pairs!Accept(Pairs!Accept(v, "local", c.snap["local"]),
             "remote", c.snap["remote"])
        /\ Found!Restore(w, c) = Found!Accept(Found!Accept(v, "local", c.snap["local"]),
             "remote", c.snap["remote"])
    BY <1>1 DEF Pairs!Restore, Found!Restore
  <2> HIDE DEF v
  <2> QED
    BY <1>6, <2>1
<1>9. \A w, c, a : Pairs!ShowComparison(w, c, a) = Found!ShowComparison(w, c, a)
  BY <1>1 DEF Pairs!ShowComparison, Found!ShowComparison
<1>10. \A w : Pairs!ReconcileSearch(w) = Found!ReconcileSearch(w)
  BY DEF Pairs!ReconcileSearch, Found!ReconcileSearch, Pairs!Restored, Found!Restored,
         Pairs!NoNav, Found!NoNav
<1>11. \A w : Pairs!ReconcileCompare(w) = Found!ReconcileCompare(w)
  <2> TAKE w
  <2> DEFINE c == Found!Arrived(w.compare)
             w1 == [w EXCEPT !.compare = [c EXCEPT !.restore = FALSE]]
             w2 == IF c.restore THEN Found!Restore(w1, c) ELSE w1
             x2 == IF c.restore THEN Pairs!Restore(w1, c) ELSE w1
  <2>1. Found!ReconcileCompare(w) = IF c.active THEN Found!ShowComparison(w2, c,
          w.compare.nav) ELSE w2
    BY DEF Found!ReconcileCompare
  <2>2. Pairs!ReconcileCompare(w) = IF c.active THEN Pairs!ShowComparison(x2, c,
          w.compare.nav) ELSE x2
    BY <1>7 DEF Pairs!ReconcileCompare
  <2> HIDE DEF c, w1
  <2>3. x2 = w2
    BY <1>8
  <2> HIDE DEF w2, x2
  <2> QED
    BY <1>9, <2>1, <2>2, <2>3
<1>12. \A w : Pairs!Render(w) = Found!Render(w)
  BY <1>10, <1>11 DEF Pairs!Render, Found!Render
<1>13. \A w : Pairs!Compared(w) = Found!Compared(w)
  BY DEF Pairs!Compared, Found!Compared
<1>14. \A w : Pairs!Closed(w) = Found!Closed(w)
  BY <1>8 DEF Pairs!Closed, Found!Closed
<1>15. \A w, r : Pairs!Accepted(w, r) = Found!Accepted(w, r)
  BY <1>2, <1>6 DEF Pairs!Accepted, Found!Accepted
<1>16. Pairs!NewWindow = Found!NewWindow
  BY <1>1, <1>2 DEF Pairs!NewWindow, Found!NewWindow
<1> QED
  BY <1>1, <1>2, <1>3, <1>4, <1>5, <1>12, <1>13, <1>14, <1>15, <1>16

\* The inductive invariant of a window that compares.
PairsState == State(pairsWin, pairsWork, pairsQueue)

\* A handler starts a goroutine.
LEMMA PairsBegins ==
    ASSUME PairsState, NEW u, Ready(u), NEW t \in Tasks, Pairs!StartAction(u, t),
           pairsQueue' = pairsQueue
    PROVE  PairsState' /\ Owned(pairsWin') = Owned(u) /\ pairsWork' # pairsWork
<1>1. /\ pairsWin' = Found!Render([u EXCEPT !.busy = TRUE]) /\ pairsWork' = pairsWork \cup {t}
      /\ t \notin pairsWork
  BY PairsSame DEF Pairs!StartAction
<1>2. pairsWork \in SUBSET Tasks /\ pairsQueue \in Seq(Results)
  BY DEF PairsState, State
<1> QED
  BY <1>1, <1>2, Begins DEF PairsState

\* A handler starts none.
LEMMA PairsSettles ==
    ASSUME PairsState, NEW u, Ready(u), pairsWin' = Found!Render(u), pairsWork' = pairsWork,
           pairsQueue' = pairsQueue, Owned(u) \/ ~u.busy
             \/ (u.busy = pairsWin.busy /\ ~Owned(pairsWin))
    PROVE  PairsState' /\ Owned(pairsWin') = Owned(u)
<1>1. pairsWork \in SUBSET Tasks /\ pairsQueue \in Seq(Results)
      /\ (pairsWin.busy => Owned(pairsWin) \/ pairsWork # {} \/ pairsQueue # <<>>)
  BY DEF PairsState, State
<1> QED
  BY <1>1, Settles DEF PairsState

\* A click on the panes and the connection.
LEMMA PairsClicks ==
    ASSUME PairsState, Pairs!Clicks
    PROVE  PairsState' /\ (Owned(pairsWin) => Owned(pairsWin'))
<1>0. Good(pairsWin) /\ Ready(pairsWin) /\ pairsWin \in Windows
  BY GoodReady DEF PairsState, State
<1>1. ASSUME NEW p \in Found!Panes, NEW d \in Found!Dir[p], Pairs!Refresh(p, d)
      PROVE  PairsState' /\ (Owned(pairsWin) => Owned(pairsWin'))
  <2>1. Found!Task("list", p, d) \in Tasks
    BY PlacesTyped, TaskTyped
  <2> QED
    BY <1>0, <1>1, <2>1, PairsBegins, PairsSame DEF Pairs!Refresh
<1>2. ASSUME Pairs!Connect \/ Pairs!Disconnect
      PROVE  PairsState' /\ (Owned(pairsWin) => Owned(pairsWin'))
  <2>1. Found!Task("connect", "remote", "r") \in Tasks
          /\ Found!Task("leave", "remote", "r") \in Tasks
    BY TaskTyped DEF Found!Panes, Places
  <2> QED
    BY <1>0, <1>2, <2>1, PairsBegins, PairsSame DEF Pairs!Connect, Pairs!Disconnect
<1>3. ASSUME NEW p \in Found!Panes, Pairs!SelectRow(p)
      PROVE  PairsState' /\ (Owned(pairsWin) => Owned(pairsWin'))
  <2>1. PICK n \in pairsWin.rows[p].names \cup {"none"} : Pairs!Step(Chosen(pairsWin, p, n))
    BY <1>3, PairsSame DEF Pairs!SelectRow, Chosen
  <2>2. n \in Names
    BY <1>0, <2>1 DEF Windows, Shown, Names
  <2> DEFINE u == Chosen(pairsWin, p, n)
  <2>3. Ready(u) /\ u.busy = pairsWin.busy /\ Owned(u) = Owned(pairsWin)
    BY <1>0, <2>2, ChosenReady DEF Owned
  <2>4. pairsWin' = Found!Render(u) /\ pairsWork' = pairsWork /\ pairsQueue' = pairsQueue
    BY <1>3, <2>1, PairsSame DEF Pairs!SelectRow, Pairs!Step
  <2> HIDE DEF u
  <2> QED
    BY <2>3, <2>4, PairsSettles DEF Owned
<1>4. ASSUME NEW p \in Found!Panes, Pairs!RowCommand(p)
      PROVE  PairsState' /\ (Owned(pairsWin) => Owned(pairsWin'))
  BY <1>4, PairsSame DEF Pairs!RowCommand, PairsState
<1>5. ASSUME NEW p \in Found!Panes, Pairs!ApplyFilter(p)
      PROVE  PairsState' /\ (Owned(pairsWin) => Owned(pairsWin'))
  <2> DEFINE u == Filtered(pairsWin, p)
  <2>1. Ready(u) /\ u.busy = pairsWin.busy /\ Owned(u) = Owned(pairsWin)
    BY <1>0, FilteredReady DEF Owned
  <2>2. /\ pairsWin' = Found!Render(u) /\ pairsWork' = pairsWork /\ pairsQueue' = pairsQueue
        /\ ~pairsWin.busy
    BY <1>5, PairsSame DEF Pairs!ApplyFilter, Pairs!Step, Filtered
  <2> HIDE DEF u
  <2> QED
    BY <2>1, <2>2, PairsSettles DEF Owned
<1> QED
  BY <1>1, <1>2, <1>3, <1>4, <1>5, PairsSame DEF Pairs!Clicks

\* A click on a search; closing it returns to the listing.
LEMMA PairsSearching ==
    ASSUME PairsState, Pairs!SearchClicks
    PROVE  PairsState' /\ Pairs!CloseReturnsStep
<1>0. Good(pairsWin) /\ pairsWin \in Windows /\ pairsWork \in SUBSET Tasks
        /\ pairsQueue \in Seq(Results)
  BY GoodReady DEF PairsState, State
<1>1. ASSUME Pairs!CloseSearch
      PROVE  PairsState' /\ Pairs!CloseReturnsStep
  <2> DEFINE u == Returned(pairsWin)
  <2>1. pairsWin' = Found!Render(u) /\ pairsWork' = pairsWork /\ pairsQueue' = pairsQueue
        /\ pairsWin.search.active
    BY <1>1, PairsSame DEF Pairs!CloseSearch, Pairs!Step, Returned
  <2>2. ~pairsWin.compare.active /\ ~pairsWin.compare.restore
    BY <1>0, <2>1, GoodReady
  <2>3. /\ Ready(u) /\ u.busy = FALSE /\ u.search.active = FALSE
        /\ ~u.compare.active /\ ~u.compare.restore
        /\ u.rows[pairsWin.search.pane].from = "list"
    BY <1>0, <2>1, <2>2, ReturnedReady
  <2> HIDE DEF u
  <2>4. PairsState'
    BY <2>1, <2>3, PairsSettles
  <2>5. ~pairsWin'.busy /\ pairsWin'.rows = u.rows
    BY <2>1, <2>3, Frame
  <2> QED
    BY <2>2, <2>3, <2>4, <2>5, PairsSame DEF Pairs!CloseReturnsStep
<1>2. ASSUME Pairs!NavigateSearch
      PROVE  PairsState' /\ Pairs!CloseReturnsStep
  <2> DEFINE u == Gone(pairsWin)
             p == pairsWin.search.pane
             t == Found!Task("list", p, Found!Child[p])
  <2>1. /\ pairsWin.search.active
        /\ IF p = "remote" /\ ~pairsWin.connected THEN Pairs!Step(u) /\ UNCHANGED pairsWork
           ELSE Pairs!StartAction(u, t) /\ UNCHANGED <<pairsQueue, pairsActed>>
    BY <1>2, PairsSame DEF Pairs!NavigateSearch, Gone
  <2>2. Ready(u) /\ u.busy = FALSE
    BY <1>0, <2>1, GoneReady
  <2>3. p \in Found!Panes
    BY <1>0 DEF Windows, Modes
  <2>4. t \in Tasks
    <3>1. Found!Child[p] \in Places
      BY <2>3, PlacesTyped
    <3> QED
      BY <2>3, <3>1, TaskTyped
  <2> HIDE DEF u, t
  <2>5. CASE p = "remote" /\ ~pairsWin.connected
    <3>1. pairsWin' = Found!Render(u) /\ pairsWork' = pairsWork /\ pairsQueue' = pairsQueue
      BY <2>1, <2>5, PairsSame DEF Pairs!Step
    <3>2. PairsState'
      BY <2>2, <3>1, PairsSettles
    <3> QED
      BY <2>1, <2>5, <3>2, PairsSame DEF Pairs!CloseReturnsStep
  <2>6. CASE ~(p = "remote" /\ ~pairsWin.connected)
    <3>1. PairsState' /\ pairsWork' # pairsWork
      BY <2>1, <2>2, <2>4, <2>6, PairsBegins
    <3> QED
      BY <3>1, PairsSame DEF Pairs!CloseReturnsStep
  <2> QED
    BY <2>5, <2>6
<1>3. ASSUME Pairs!SelectFound
      PROVE  PairsState' /\ Pairs!CloseReturnsStep
  <2>1. PICK b \in BOOLEAN : Pairs!Step([pairsWin EXCEPT !.search.sel
          = b /\ pairsWin.search.found # {}])
    BY <1>3, PairsSame DEF Pairs!SelectFound
  <2> DEFINE u == [pairsWin EXCEPT !.search.sel = b /\ pairsWin.search.found # {}]
  <2>2. Ready(u) /\ Owned(u)
    BY <1>0, <1>3, PointedReady, PairsSame DEF Owned, Pairs!SelectFound
  <2>3. pairsWin' = Found!Render(u) /\ pairsWork' = pairsWork /\ pairsQueue' = pairsQueue
    BY <1>3, <2>1, PairsSame DEF Pairs!SelectFound, Pairs!Step
  <2> HIDE DEF u
  <2>4. PairsState' /\ Owned(pairsWin')
    BY <2>2, <2>3, PairsSettles
  <2> QED
    BY <2>4, PairsSame DEF Pairs!CloseReturnsStep, Pairs!Modal, Owned
<1>4. ASSUME NEW p \in Found!Panes, Pairs!StartSearch(p)
      PROVE  PairsState' /\ Pairs!CloseReturnsStep
  <2> DEFINE u == Sought(pairsWin, p)
             t == [Found!Task("search", p,
               pairsWin.cur[p]) EXCEPT !.seq = pairsWin.search.seq + 1]
  <2>1. /\ pairsWin' = Found!Render(u) /\ pairsWork' = pairsWork \cup {t}
             /\ pairsQueue' = pairsQueue
        /\ ~pairsWin.busy
    BY <1>4, PairsSame DEF Pairs!StartSearch, Pairs!Step, Sought
  <2>2. Ready(u) /\ Owned(u)
    BY <1>0, <2>1, SoughtReady DEF Owned
  <2>3. t \in Tasks
    <3>1. pairsWin.cur[p] \in Places /\ pairsWin.search.seq + 1 \in Nat
      BY <1>0 DEF Windows, Modes
    <3> QED
      BY <3>1, TaskTyped, SeqTyped
  <2> HIDE DEF u, t
  <2>4. pairsWork' \in SUBSET Tasks
    BY <1>0, <2>1, <2>3
  <2>5. PairsState' /\ Owned(pairsWin')
    BY <1>0, <2>1, <2>2, <2>4, Settles DEF PairsState
  <2> QED
    BY <2>5, PairsSame DEF Pairs!CloseReturnsStep, Pairs!Modal, Owned
<1> QED
  BY <1>1, <1>2, <1>3, <1>4, PairsSame DEF Pairs!SearchClicks

\* A click on a comparison; closing it returns to both listings.
LEMMA PairsComparing ==
    ASSUME PairsState, Pairs!CompareClicks
    PROVE  PairsState' /\ Pairs!CloseReturnsStep
<1>0. /\ Good(pairsWin) /\ Ready(pairsWin) /\ pairsWin \in Windows /\ pairsWork \in SUBSET Tasks
      /\ pairsQueue \in Seq(Results) /\ pairsWin.compare.seq \in Nat
  <2>1. Good(pairsWin) /\ pairsWork \in SUBSET Tasks /\ pairsQueue \in Seq(Results)
    BY DEF PairsState, State
  <2> QED
    BY <2>1, GoodReady DEF Pair
<1>1. ASSUME NEW k \in {"compare", "open"}
      PROVE  Pairs!CompareTask(k) \in Tasks
  <2>1. Found!Task(k, "none", "none") \in Tasks
    BY <1>1, TaskTyped DEF Places
  <2>2. pairsWin.compare.seq + 1 \in Nat
    BY <1>0
  <2>3. [Found!Task(k, "none", "none") EXCEPT !.seq = pairsWin.compare.seq + 1] \in Tasks
    BY <2>1, <2>2, SeqTyped
  <2> QED
    BY <2>3, PairsSame DEF Pairs!CompareTask
<1>2. ASSUME NEW u, Ready(u), Owned(u), NEW t \in Tasks, pairsWin' = Found!Render(u),
             pairsWork' = pairsWork \cup {t} \/ pairsWork' = pairsWork, pairsQueue' = pairsQueue
      PROVE  PairsState' /\ Pairs!CloseReturnsStep
  <2>1. pairsWork' \in SUBSET Tasks
    BY <1>0, <1>2
  <2>2. PairsState' /\ Owned(pairsWin')
    BY <1>0, <1>2, <2>1, Settles DEF PairsState
  <2> QED
    BY <2>2, PairsSame DEF Pairs!CloseReturnsStep, Pairs!Modal, Owned
<1>3. ASSUME Pairs!StartCompare
      PROVE  PairsState' /\ Pairs!CloseReturnsStep
  <2>1. /\ ~pairsWin.busy /\ ~pairsWin.search.active
        /\ pairsWin' = Found!Render(Found!Compared(pairsWin)) /\ pairsQueue' = pairsQueue
        /\ pairsWork' = pairsWork \cup {Pairs!CompareTask("compare")}
    BY <1>3, PairsSame DEF Pairs!StartCompare, Pairs!CanCompare, Pairs!Step
  <2>2. ~pairsWin.compare.active /\ ~pairsWin.compare.restore
    BY <1>0, <2>1 DEF Good
  <2>3. Ready(Found!Compared(pairsWin)) /\ Owned(Found!Compared(pairsWin))
    BY <1>0, <2>1, <2>2, ComparedReady DEF Owned
  <2> QED
    BY <1>1, <1>2, <2>1, <2>3
<1>4. ASSUME Pairs!CloseCompare
      PROVE  PairsState' /\ Pairs!CloseReturnsStep
  <2> DEFINE u == Found!Closed(pairsWin)
  <2>1. /\ pairsWin.compare.active /\ pairsWin' = Found!Render(u) /\ pairsQueue' = pairsQueue
        /\ pairsWork' = pairsWork
    BY <1>4, PairsSame DEF Pairs!CloseCompare, Pairs!Step
  <2>2. /\ Ready(u) /\ u.compare.active = FALSE /\ u.compare.restore = FALSE /\ u.busy = FALSE
        /\ u.search = pairsWin.search
        /\ \A p \in Found!Panes : u.rows[p].from = "list"
    BY <1>0, <2>1, ClosedReady
  <2>3. ~pairsWin.search.active
    BY <1>0, <2>1, GoodReady
  <2> HIDE DEF u
  <2>4. PairsState'
    BY <2>1, <2>2, PairsSettles
  <2>5. ~pairsWin'.busy /\ pairsWin'.rows = u.rows
    BY <2>1, <2>2, <2>3, Frame
  <2> QED
    BY <2>2, <2>4, <2>5, PairsSame DEF Pairs!CloseReturnsStep
<1>5. ASSUME Pairs!CompareAgain
      PROVE  PairsState' /\ Pairs!CloseReturnsStep
  <2> DEFINE u == Found!Closed(pairsWin)
             t == [Pairs!CompareTask("compare") EXCEPT !.seq = @ + 1]
  <2>1. /\ pairsWin.compare.active /\ pairsWin' = Found!Render(Found!Compared(u))
        /\ pairsQueue' = pairsQueue /\ pairsWork' = pairsWork \cup {t}
    BY <1>5, PairsSame DEF Pairs!CompareAgain, Pairs!Step
  <2>2. /\ Ready(u) /\ u.compare.active = FALSE /\ u.compare.restore = FALSE
        /\ u.search = pairsWin.search
    BY <1>0, <2>1, ClosedReady
  <2>3. ~pairsWin.search.active
    BY <1>0, <2>1, GoodReady
  <2>4. t \in Tasks
    <3> DEFINE c == Pairs!CompareTask("compare")
    <3>1. c \in Tasks
      BY <1>1
    <3>2. c.seq + 1 \in Nat
      BY <3>1 DEF Tasks
    <3> HIDE DEF c
    <3>3. [c EXCEPT !.seq = c.seq + 1] \in Tasks
      BY <3>1, <3>2, SeqTyped
    <3> QED
      BY <3>3 DEF c
  <2> HIDE DEF u, t
  <2>5. Ready(Found!Compared(u)) /\ Owned(Found!Compared(u))
    BY <2>2, <2>3, ComparedReady DEF Owned
  <2> QED
    BY <1>2, <2>1, <2>4, <2>5
<1>6. ASSUME Pairs!OpenBoth
      PROVE  PairsState' /\ Pairs!CloseReturnsStep
  <2>1. /\ pairsWin.compare.active /\ pairsWin' = Found!Render(Opened(pairsWin))
        /\ pairsQueue' = pairsQueue /\ pairsWork' = pairsWork \cup {Pairs!CompareTask("open")}
    BY <1>6, PairsSame DEF Pairs!OpenBoth, Pairs!Step, Opened
  <2>2. Ready(Opened(pairsWin)) /\ Owned(Opened(pairsWin))
    BY <1>0, <2>1, OpenedGood DEF Owned, Good
  <2> QED
    BY <1>1, <1>2, <2>1, <2>2
<1>7. ASSUME Pairs!SelectCompared
      PROVE  PairsState' /\ Pairs!CloseReturnsStep
  <2>1. PICK b \in BOOLEAN : Pairs!Step(Marked(pairsWin, b))
    BY <1>7, PairsSame DEF Pairs!SelectCompared, Marked
  <2>2. /\ pairsWin.compare.active /\ pairsWin' = Found!Render(Marked(pairsWin, b))
        /\ pairsQueue' = pairsQueue /\ pairsWork' = pairsWork
    BY <1>7, <2>1, PairsSame DEF Pairs!SelectCompared, Pairs!Step
  <2>3. Ready(Marked(pairsWin, b)) /\ Owned(Marked(pairsWin, b))
    BY <1>0, <2>2, MarkedGood DEF Owned, Good
  <2> QED
    BY <1>1, <1>2, <2>2, <2>3
<1> QED
  BY <1>3, <1>4, <1>5, <1>6, <1>7, PairsSame DEF Pairs!CompareClicks

\* A goroutine goes on, and tells the event loop.
LEMMA PairsGoes ==
    ASSUME PairsState, Pairs!Goroutines
    PROVE  PairsState' /\ Pairs!CloseReturnsStep
<1>0. /\ Good(pairsWin) /\ pairsWork \in SUBSET Tasks
      /\ pairsQueue \in Seq(Results)
  BY DEF PairsState, State
<1>1. PICK t \in pairsWork : \/ Pairs!Answers(t) \/ Pairs!Emit(t) \/ Pairs!SearchEnds(t)
                             \/ Pairs!Wakes(t) \/ Pairs!CompareEnds(t) \/ Pairs!OpenEnds(t)
  BY PairsSame DEF Pairs!Goroutines
<1>2. ASSUME Good(pairsWin'), pairsQueue' = pairsQueue,
             NEW c \in {"run", "batch", "stop", "wake"},
             t.pc # c, pairsWork' = (pairsWork \ {t}) \cup {[t EXCEPT !.pc = c]}
      PROVE  PairsState' /\ Pairs!CloseReturnsStep
  <2>2. pairsWork \in SUBSET Tasks /\ t \in pairsWork /\ t.pc # c
    BY <1>0, <1>1, <1>2
  <2>3. /\ Moved(pairsWork, t, c) \in SUBSET Tasks /\ Moved(pairsWork, t, c) # {}
        /\ Moved(pairsWork, t, c) # pairsWork
    BY <2>2, Goes
  <2>4. pairsWork' = Moved(pairsWork, t, c)
    BY <1>2 DEF Moved
  <2>1. pairsWork' \in SUBSET Tasks /\ pairsWork' # {} /\ pairsWork' # pairsWork
    BY <2>3, <2>4
  <2> QED
    BY <1>0, <1>2, <2>1, PairsSame DEF PairsState, State, Pairs!CloseReturnsStep
<1>3. ASSUME pairsWin' = pairsWin, pairsWork' \in SUBSET Tasks, NEW r \in Results,
             pairsQueue' = Append(pairsQueue, r)
      PROVE  PairsState' /\ Pairs!CloseReturnsStep
  <2>1. pairsQueue' \in Seq(Results) /\ pairsQueue' # <<>>
    BY <1>0, <1>3
  <2> QED
    BY <1>0, <1>3, <2>1, PairsSame DEF PairsState, State, Pairs!CloseReturnsStep, Pairs!Modal
<1>4. CASE Pairs!Answers(t)
  <2>1. PICK ok \in BOOLEAN :
          pairsQueue' = Append(pairsQueue, [kind |-> IF ok THEN t.kind ELSE "failed",
                                            pane |-> t.pane, dir |-> t.dir])
    BY <1>4, PairsSame DEF Pairs!Answers
  <2>2. t \in Tasks /\ t.kind \in {"list", "connect", "leave"}
    BY <1>0, <1>1, <1>4, PairsSame DEF Pairs!Answers
  <2>3. [kind |-> IF ok THEN t.kind ELSE "failed", pane |-> t.pane, dir |-> t.dir] \in Results
    BY <2>2 DEF Tasks, Results
  <2>4. pairsWin' = pairsWin /\ pairsWork' \in SUBSET Tasks
    BY <1>0, <1>4, PairsSame DEF Pairs!Answers
  <2> QED
    BY <1>3, <2>1, <2>3, <2>4
<1>5. CASE Pairs!Emit(t)
  <2>1. PICK c \in {"batch", "stop"} : pairsWork' = (pairsWork \ {t}) \cup {[t EXCEPT !.pc = c]}
    BY <1>5, PairsSame DEF Pairs!Emit
  <2>2. pairsQueue' = pairsQueue /\ t.pc = "run"
    BY <1>5, PairsSame DEF Pairs!Emit
  <2>3. \/ pairsWin' = pairsWin
        \/ pairsWin' = [pairsWin EXCEPT !.search.found = {"b"}, !.search.sel = TRUE]
    BY <1>5, PairsSame DEF Pairs!Emit
  <2>4. Good(pairsWin')
    BY <1>0, <2>3, BatchGood
  <2> QED
    BY <1>2, <2>1, <2>2, <2>4
<1>6. CASE Pairs!SearchEnds(t)
  <2>1. /\ pairsWork' = (pairsWork \ {t}) \cup {[t EXCEPT !.pc = "wake"]}
        /\ pairsQueue' = pairsQueue /\ t.pc # "wake"
    BY <1>6, PairsSame DEF Pairs!SearchEnds
  <2>2. pairsWin' = pairsWin \/ pairsWin' = [pairsWin EXCEPT !.search.running = FALSE]
    BY <1>6, PairsSame DEF Pairs!SearchEnds
  <2>3. Good(pairsWin')
    BY <1>0, <2>2, ScannedGood
  <2> QED
    BY <1>2, <2>1, <2>3
<1>7. CASE Pairs!Wakes(t)
  <2>1. pairsWin' = pairsWin /\ pairsQueue' = Append(pairsQueue, Found!Wake)
    BY <1>7, PairsSame DEF Pairs!Wakes
  <2>2. Found!Wake \in Results
    BY DEF Found!Wake, Results, Places
  <2>3. pairsWork' \in SUBSET Tasks
    <3>1. t \in Tasks /\ t.pc \in {"batch", "wake"}
      BY <1>0, <1>1, <1>7, PairsSame DEF Pairs!Wakes
    <3>2. [t EXCEPT !.pc = "stop"] \in Tasks
      BY <3>1, PcTyped
    <3>3. pairsWork' = pairsWork \ {t}
            \/ pairsWork' = (pairsWork \ {t}) \cup {[t EXCEPT !.pc = "stop"]}
      BY <1>7, PairsSame DEF Pairs!Wakes
    <3> QED
      BY <1>0, <3>2, <3>3
  <2> QED
    BY <1>3, <2>1, <2>2, <2>3
<1>8. CASE Pairs!CompareEnds(t)
  <2>1. /\ pairsWork' = (pairsWork \ {t}) \cup {[t EXCEPT !.pc = "wake"]}
        /\ pairsQueue' = pairsQueue /\ t.pc # "wake"
    BY <1>8, PairsSame DEF Pairs!CompareEnds
  <2>2. PICK ok \in BOOLEAN : \/ pairsWin' = pairsWin
                              \/ pairsWin.compare.active /\ pairsWin' = Judged(pairsWin, ok)
    BY <1>8, PairsSame DEF Pairs!CompareEnds, Judged
  <2>3. Good(pairsWin')
    BY <1>0, <2>2, JudgedGood
  <2> QED
    BY <1>2, <2>1, <2>3
<1>9. CASE Pairs!OpenEnds(t)
  <2>1. /\ pairsWork' = (pairsWork \ {t}) \cup {[t EXCEPT !.pc = "wake"]}
        /\ pairsQueue' = pairsQueue /\ t.pc # "wake"
    BY <1>9, PairsSame DEF Pairs!OpenEnds
  <2>2. PICK ok \in BOOLEAN : \/ pairsWin' = pairsWin
                              \/ pairsWin.compare.active /\ pairsWin' = Loaded(pairsWin, ok)
    BY <1>9, PairsSame DEF Pairs!OpenEnds, Loaded
  <2>3. Good(pairsWin')
    BY <1>0, <2>2, LoadedGood
  <2> QED
    BY <1>2, <2>1, <2>3
<1> QED
  BY <1>1, <1>4, <1>5, <1>6, <1>7, <1>8, <1>9

\* The event loop takes a result.
LEMMA PairsHandles ==
    ASSUME PairsState, Pairs!HandleResult
    PROVE  PairsState' /\ (Owned(pairsWin) => Owned(pairsWin'))
<1>1. Good(pairsWin) /\ pairsWork \in SUBSET Tasks /\ pairsQueue \in Seq(Results)
        /\ pairsQueue # <<>>
  BY PairsSame DEF PairsState, State, Pairs!HandleResult
<1>2. Head(pairsQueue) \in Results /\ Tail(pairsQueue) \in Seq(Results)
  BY <1>1
<1> DEFINE u == Found!Accepted([pairsWin EXCEPT !.busy = FALSE], Head(pairsQueue))
<1>3. Ready(u) /\ u.busy = FALSE /\ Owned(u) = Owned(pairsWin)
  BY <1>1, <1>2, AcceptedReady DEF Owned
<1>4. pairsWin' = Found!Render(u) /\ pairsQueue' = Tail(pairsQueue) /\ pairsWork' = pairsWork
  BY PairsSame DEF Pairs!HandleResult
<1> HIDE DEF u
<1> QED
  BY <1>1, <1>2, <1>3, <1>4, Settles DEF PairsState

\* Every step keeps the invariant, and closing a modal view returns what was there.
LEMMA PairsStep ==
    ASSUME PairsState, Pairs!Next
    PROVE  PairsState' /\ Pairs!CloseReturnsStep
<1>1. CASE Pairs!Clicks \/ Pairs!HandleResult
  <2>1. PairsState' /\ (Owned(pairsWin) => Owned(pairsWin'))
    BY <1>1, PairsClicks, PairsHandles
  <2> QED
    BY <2>1, PairsSame DEF Pairs!CloseReturnsStep, Pairs!Modal, Owned
<1>2. CASE Pairs!SearchClicks \/ Pairs!CompareClicks \/ Pairs!Goroutines
  BY <1>2, PairsSearching, PairsComparing, PairsGoes
<1> QED
  BY <1>1, <1>2, PairsSame DEF Pairs!Next

\* Nothing is under way at the start.
LEMMA PairsStarts ==
    ASSUME Pairs!Init
    PROVE  PairsState
<1>1. pairsWin = Found!NewWindow /\ pairsWork = {} /\ pairsQueue = <<>>
  BY PairsSame DEF Pairs!Init
<1>2. /\ ~pairsWin.search.active /\ ~pairsWin.compare.active /\ ~pairsWin.compare.restore
      /\ ~pairsWin.busy
  BY <1>1 DEF Found!NewWindow
<1>3. Listed(pairsWin)
  <2> SUFFICES ASSUME NEW p \in Found!Panes
               PROVE  /\ pairsWin.all[p] \in {pairsWin.cur[p], "none"}
                      /\ pairsWin.rows[p].from = "list" => pairsWin.rows[p].dir = pairsWin.all[p]
    BY DEF Listed
  <2>1. pairsWin.cur = Found!Top /\ pairsWin.all[p] = (IF p = "local" THEN "l" ELSE "none")
        /\ pairsWin.rows[p].dir = (IF p = "local" THEN "l" ELSE "none")
    BY <1>1 DEF Found!NewWindow, Found!Listing
  <2>2. p = "local" => Found!Top[p] = "l"
    BY DEF Found!Top
  <2> QED
    BY <2>1, <2>2
<1> QED
  BY <1>1, <1>2, <1>3, NewTyped DEF PairsState, State, Good, Ready, Apart, Owned

\* The invariant says what the suite checks of the modal views.
LEMMA PairsHolds ==
    ASSUME PairsState
    PROVE  /\ Pairs!ModalHoldsWindow /\ Pairs!BusyHasOwner
           /\ Pairs!PairTogether /\ Pairs!ListingOfCurrent
<1>1. Good(pairsWin) /\ Ready(pairsWin)
        /\ (pairsWin.busy => Owned(pairsWin) \/ pairsWork # {} \/ pairsQueue # <<>>)
  BY DEF PairsState, State, Good
<1>2. Pairs!ModalHoldsWindow /\ Pairs!BusyHasOwner
  BY <1>1, PairsSame DEF Pairs!ModalHoldsWindow, Pairs!BusyHasOwner, Pairs!Modal, Good, Ready,
     Apart, Owned
<1>3. Pairs!PairTogether
  BY <1>1, PairsSame DEF Pairs!PairTogether, Good
<1>4. Pairs!ListingOfCurrent
  <2> SUFFICES ASSUME NEW p \in Found!Panes, pairsWin.rows[p].from = "list",
                      pairsWin.rows[p].dir # "none"
               PROVE  pairsWin.rows[p].dir = pairsWin.cur[p]
                      /\ pairsWin.rows[p].dir = pairsWin.all[p]
    BY PairsSame DEF Pairs!ListingOfCurrent
  <2>1. ~pairsWin.compare.active /\ ~pairsWin.compare.restore
    BY <1>1 DEF Good
  <2>2. Listed(pairsWin)
    BY <1>1, <2>1 DEF Ready
  <2> QED
    BY <2>2 DEF Listed
<1> QED
  BY <1>2, <1>3, <1>4

(***************************************************************************)
(* The history: its two stacks                                             *)
(***************************************************************************)

\* What a pane may name as its directory.
Texts == HistoryDirs \cup ServerDirs \cup {Relative}
\* The entries of the history.
Entries == [pane : {"local", "remote"}, path : Texts]
\* No entry follows itself.
NoTwice(s) == \A i \in 1..Len(s) - 1 : s[i] # s[i + 1]
\* A stack of the history: bounded, and without an entry twice in a row.
Recent(s) == s \in Seq(Entries) /\ Len(s) <= HistoryLimit /\ NoTwice(s)
\* It has only local entries.
IsLocal(s) == \A i \in 1..Len(s) : s[i].pane = "local"
\* The entries of a stack.
In(s) == {s[i] : i \in 1..Len(s)}

\* The bound, and what a relative path stands for.
LEMMA LimitTyped ==
    HistoryLimit \in Nat /\ HistoryLimit > 0 /\ RelativeTo \in HistoryDirs
  BY LinuxAssumption DEF History!HistoryAssumption

\* An entry is put on a stack, which loses its oldest when it is full.
LEMMA Appending ==
    ASSUME NEW s, Recent(s), NEW e \in Entries
    PROVE  LET g == History!appendLinuxWorkspaceHistory(s, e) IN
           /\ Recent(g) /\ g # <<>> /\ History!Last(g) = e
           /\ In(g) \subseteq In(s) \cup {e}
           /\ Len(s) < HistoryLimit => In(s) \subseteq In(g)
           /\ e.pane = "local" /\ IsLocal(s) => IsLocal(g)
<1> DEFINE g == History!appendLinuxWorkspaceHistory(s, e)
           t == Append(s, e)
<1>0. s \in Seq(Entries) /\ Len(s) \in Nat /\ Len(s) <= HistoryLimit /\ NoTwice(s)
      /\ HistoryLimit \in Nat /\ HistoryLimit > 0
  BY LimitTyped DEF Recent
<1>1. CASE s # <<>> /\ History!Last(s) = e
  <2>1. g = s
    BY <1>1 DEF History!appendLinuxWorkspaceHistory
  <2> QED
    BY <1>1, <2>1
<1>2. CASE ~(s # <<>> /\ History!Last(s) = e)
  <2>1. /\ t \in Seq(Entries) /\ Len(t) = Len(s) + 1 /\ t[Len(t)] = e
        /\ \A i \in 1..Len(s) : t[i] = s[i]
    BY <1>0
  <2>2. \A i \in 1..Len(t) - 1 : t[i] # t[i + 1]
    <3> SUFFICES ASSUME NEW i \in 1..Len(t) - 1
                 PROVE  t[i] # t[i + 1]
      OBVIOUS
    <3>1. CASE i = Len(s)
      <4>1. s # <<>> /\ t[i] = s[Len(s)] /\ t[i + 1] = e
        BY <1>0, <2>1, <3>1
      <4> QED
        BY <1>2, <4>1 DEF History!Last
    <3>2. CASE i # Len(s)
      <4>1. i \in 1..Len(s) - 1 /\ t[i] = s[i] /\ t[i + 1] = s[i + 1]
        BY <1>0, <2>1, <3>2
      <4> QED
        BY <1>0, <4>1 DEF NoTwice
    <3> QED
      BY <3>1, <3>2
  <2>3. g = IF Len(t) > HistoryLimit THEN Tail(t) ELSE t
    BY <1>2 DEF History!appendLinuxWorkspaceHistory
  <2> HIDE DEF g, t
  <2>4. CASE Len(t) > HistoryLimit
    <3>1. g = Tail(t) /\ Len(t) > 1
      BY <1>0, <2>1, <2>3, <2>4
    <3>2. /\ g \in Seq(Entries) /\ Len(g) = Len(t) - 1
          /\ \A i \in 1..Len(g) : g[i] = t[i + 1]
      BY <2>1, <3>1
    <3>3. g # <<>> /\ g[Len(g)] = e
      BY <1>0, <2>1, <3>1, <3>2
    <3>4. NoTwice(g)
      <4> SUFFICES ASSUME NEW i \in 1..Len(g) - 1
                   PROVE  g[i] # g[i + 1]
        BY DEF NoTwice
      <4>1. g[i] = t[i + 1] /\ g[i + 1] = t[i + 2] /\ i + 1 \in 1..Len(t) - 1
        BY <1>0, <2>1, <3>2
      <4> QED
        BY <2>2, <4>1
    <3>5. In(g) \subseteq In(s) \cup {e}
      <4> SUFFICES ASSUME NEW i \in 1..Len(g)
                   PROVE  g[i] \in In(s) \cup {e}
        BY DEF In
      <4>1. CASE i = Len(g)
        BY <3>3, <4>1
      <4>2. CASE i # Len(g)
        <5>1. i + 1 \in 1..Len(s) /\ g[i] = s[i + 1]
          BY <1>0, <2>1, <3>2, <4>2
        <5> QED
          BY <5>1 DEF In
      <4> QED
        BY <4>1, <4>2
    <3>6. e.pane = "local" /\ IsLocal(s) => IsLocal(g)
      <4> SUFFICES ASSUME e.pane = "local", IsLocal(s), NEW i \in 1..Len(g)
                   PROVE  g[i].pane = "local"
        BY DEF IsLocal
      <4>1. CASE i = Len(g)
        BY <3>3, <4>1
      <4>2. CASE i # Len(g)
        <5>1. i + 1 \in 1..Len(s) /\ g[i] = s[i + 1]
          BY <1>0, <2>1, <3>2, <4>2
        <5> QED
          BY <5>1 DEF IsLocal
      <4> QED
        BY <4>1, <4>2
    <3>7. ~(Len(s) < HistoryLimit) /\ Len(g) <= HistoryLimit
      BY <1>0, <2>1, <2>4, <3>2
    <3> QED
      BY <3>2, <3>3, <3>4, <3>5, <3>6, <3>7 DEF g, Recent, History!Last
  <2>5. CASE ~(Len(t) > HistoryLimit)
    <3>1. g = t /\ g # <<>> /\ Len(g) <= HistoryLimit
      BY <1>0, <2>1, <2>3, <2>5
    <3>2. In(g) \subseteq In(s) \cup {e}
      <4> SUFFICES ASSUME NEW i \in 1..Len(t)
                   PROVE  t[i] \in In(s) \cup {e}
        BY <3>1 DEF In
      <4>1. i = Len(t) \/ (i \in 1..Len(s) /\ t[i] = s[i])
        BY <1>0, <2>1
      <4> QED
        BY <2>1, <4>1 DEF In
    <3>3. In(s) \subseteq In(g)
      <4> SUFFICES ASSUME NEW i \in 1..Len(s)
                   PROVE  s[i] \in In(t)
        BY <3>1 DEF In
      <4>1. i \in 1..Len(t) /\ t[i] = s[i]
        BY <1>0, <2>1
      <4> QED
        BY <4>1 DEF In
    <3>4. e.pane = "local" /\ IsLocal(s) => IsLocal(g)
      <4> SUFFICES ASSUME e.pane = "local", IsLocal(s), NEW i \in 1..Len(t)
                   PROVE  t[i].pane = "local"
        BY <3>1 DEF IsLocal
      <4>1. i = Len(t) \/ (i \in 1..Len(s) /\ t[i] = s[i])
        BY <1>0, <2>1
      <4> QED
        BY <2>1, <4>1 DEF IsLocal
    <3> QED
      BY <2>1, <2>2, <3>1, <3>2, <3>3, <3>4 DEF g, Recent, NoTwice, History!Last
  <2> QED
    BY <2>4, <2>5
<1> QED
  BY <1>1, <1>2

\* The top of a stack is taken off, if it is the entry that was visited.
LEMMA Popping ==
    ASSUME NEW s, Recent(s), NEW e \in Entries
    PROVE  LET g == History!Popped(s, e) IN
           /\ Recent(g) /\ In(g) \subseteq In(s) /\ In(s) \subseteq In(g) \cup {e}
           /\ IsLocal(s) => IsLocal(g)
<1> DEFINE g == History!Popped(s, e)
<1>0. s \in Seq(Entries) /\ Len(s) \in Nat /\ Len(s) <= HistoryLimit /\ NoTwice(s)
        /\ HistoryLimit \in Nat
  BY LimitTyped DEF Recent
<1>1. CASE s # <<>> /\ History!Last(s) = e
  <2>1. g = SubSeq(s, 1, Len(s) - 1) /\ Len(s) > 0 /\ s[Len(s)] = e
    BY <1>0, <1>1 DEF History!Popped, History!Last
  <2> HIDE DEF g
  <2>2. /\ g \in Seq(Entries) /\ Len(g) = Len(s) - 1
        /\ \A i \in 1..Len(s) - 1 : g[i] = s[i]
    <3>1. \A i \in 1..Len(s) - 1 : s[i] \in Entries
      BY <1>0
    <3>2. Len(s) - 1 \in Int /\ 1 \in Int
      BY <1>0
    <3>3. /\ SubSeq(s, 1, Len(s) - 1) \in Seq(Entries)
          /\ Len(SubSeq(s, 1, Len(s) - 1)) = IF 1 <= Len(s) - 1 THEN Len(s) - 1 - 1 + 1 ELSE 0
          /\ \A i \in 1..Len(s) - 1 - 1 + 1 : SubSeq(s, 1, Len(s) - 1)[i] = s[1 + i - 1]
      BY <3>1, <3>2, SubSeqProperties
    <3>4. 1..Len(s) - 1 - 1 + 1 = 1..Len(s) - 1 /\ \A i \in 1..Len(s) - 1 : 1 + i - 1 = i
      BY <1>0
    <3> QED
      <4>1. /\ g \in Seq(Entries) /\ Len(g) = IF 1 <= Len(s) - 1 THEN Len(s) - 1 - 1 + 1 ELSE 0
            /\ \A i \in 1..Len(s) - 1 - 1 + 1 : g[i] = s[1 + i - 1]
        BY <2>1, <3>3, Zenon
      <4>2. Len(s) > 0
        BY <2>1
      <4>3. Len(g) = Len(s) - 1
        <5>1. \A n \in Nat : n > 0 => (IF 1 <= n - 1 THEN n - 1 - 1 + 1 ELSE 0) = n - 1
          OBVIOUS
        <5> QED
          BY <1>0, <4>1, <4>2, <5>1, Zenon
      <4>4. \A i \in 1..Len(s) - 1 : g[i] = s[i]
        BY <3>4, <4>1
      <4> QED
        BY <4>1, <4>3, <4>4
  <2>3. NoTwice(g)
    BY <1>0, <2>2 DEF NoTwice
  <2>4. In(g) \subseteq In(s)
    <3> SUFFICES ASSUME NEW i \in 1..Len(g)
                 PROVE  g[i] \in In(s)
      BY DEF In
    <3>1. i \in 1..Len(s) /\ g[i] = s[i]
      BY <1>0, <2>2
    <3> QED
      BY <3>1 DEF In
  <2>5. In(s) \subseteq In(g) \cup {e}
    <3> SUFFICES ASSUME NEW i \in 1..Len(s)
                 PROVE  s[i] \in In(g) \cup {e}
      BY DEF In
    <3>1. i = Len(s) \/ (i \in 1..Len(g) /\ g[i] = s[i])
      BY <1>0, <2>2
    <3> QED
      BY <2>1, <3>1 DEF In
  <2>6. IsLocal(s) => IsLocal(g)
    BY <1>0, <2>2 DEF IsLocal
  <2> QED
    BY <1>0, <2>2, <2>3, <2>4, <2>5, <2>6 DEF g, Recent
<1>2. CASE ~(s # <<>> /\ History!Last(s) = e)
  <2>1. g = s
    BY <1>2 DEF History!Popped
  <2> QED
    BY <2>1
<1> QED
  BY <1>1, <1>2

(***************************************************************************)
(* The history: clicks                                                     *)
(***************************************************************************)

\* The action of the window that is under way.
Jobs == {History!NoJob} \cup [action : {"refresh"}, pane : {"local", "remote"}, path : Texts]
        \cup [action : {"disconnect"}]
\* The replay that is pending.
Replays == {History!NoReplay} \cup [active : {TRUE}, back : BOOLEAN, target : Entries]

\* The types of the two panes, the two stacks, the action and the replay.
HistoryTyped ==
    /\ cur \in [History!Panes -> Texts] /\ Recent(back) /\ Recent(fwd)
    /\ job \in Jobs /\ replay \in Replays

\* What is under way on the server, and what names a place of it, has the connection.
OnServer ==
    /\ connected \in BOOLEAN
    /\ ~connected => IsLocal(back) /\ IsLocal(fwd)
    /\ job.action = "refresh" /\ job.pane = "remote" => connected

\* A pending replay waits for the listing it asked for, unless the entry is text that
\* the listing answers under another name.
Replaying ==
    replay.active =>
        \/ History!Base(replay.target.pane, replay.target.path) # replay.target.path
        \/ /\ job.action = "refresh"
           /\ job.pane = replay.target.pane /\ job.path = replay.target.path

\* The inductive invariant of the history.
HistoryState == HistoryTyped /\ OnServer /\ Replaying /\ History!ForwardReturns

\* Nothing has been visited at the start.
LEMMA HistoryStarts ==
    ASSUME History!Init
    PROVE  HistoryState
<1>1. cur \in [History!Panes -> Texts]
  BY DEF History!Init, Texts
<1>2. /\ Recent(back) /\ Recent(fwd) /\ IsLocal(back) /\ IsLocal(fwd)
  <2>1. back = <<>> /\ fwd = <<>>
    BY DEF History!Init
  <2>2. <<>> \in Seq(Entries) /\ Len(<<>>) = 0 /\ 1..0 = {} /\ 1..0 - 1 = {}
    OBVIOUS
  <2> QED
    BY <2>1, <2>2, LimitTyped DEF Recent, NoTwice, IsLocal
<1>3. job = History!NoJob /\ replay = History!NoReplay /\ left = History!NoEntry /\ ~connected
        /\ connected \in BOOLEAN
  BY DEF History!Init
<1>4. job.action # "refresh" /\ ~replay.active
  BY <1>3 DEF History!NoJob, History!NoReplay
<1> QED
  BY <1>1, <1>2, <1>3, <1>4 DEF HistoryState, HistoryTyped, OnServer, Replaying,
     History!ForwardReturns, Jobs, Replays

\* The invariant says what the suite checks of the history.
LEMMA HistoryHolds ==
    ASSUME HistoryState
    PROVE  History!Bounded /\ History!OwnServer /\ History!ForwardReturns /\ History!ReplayEnds
<1>1. History!Bounded
  BY DEF HistoryState, HistoryTyped, Recent, NoTwice, History!Bounded
<1>2. History!OwnServer
  BY DEF HistoryState, OnServer, IsLocal, History!OwnServer
<1>3. History!ReplayEnds
  BY DEF HistoryState, Replaying, History!ReplayEnds, History!NoJob
<1> QED
  BY <1>1, <1>2, <1>3 DEF HistoryState

\* Everything but the answer of a listing leaves both histories, or empties them.
LEMMA HistoryClicks ==
    ASSUME HistoryState,
           \/ \E p \in History!Panes : History!Navigate(p) \/ History!SetPath(p)
           \/ \E b \in BOOLEAN : History!navigateLinuxWorkspaceHistory(b)
           \/ History!Connect \/ History!disconnect \/ History!Failed \/ History!Disconnected
    PROVE  HistoryState' /\ History!ReplayKeepsPlacesStep
<1>0. /\ cur \in [History!Panes -> Texts] /\ Recent(back) /\ Recent(fwd)
      /\ job \in Jobs /\ replay \in Replays /\ connected \in BOOLEAN
      /\ (~connected => IsLocal(back) /\ IsLocal(fwd))
      /\ (job.action = "refresh" /\ job.pane = "remote" => connected)
      /\ Replaying /\ History!ForwardReturns
  BY DEF HistoryState, HistoryTyped, OnServer
<1>1. job = History!NoJob => job.action = "none"
  BY DEF History!NoJob
<1>2. ASSUME NEW p \in History!Panes, History!Navigate(p)
      PROVE  HistoryState' /\ History!ReplayKeepsPlacesStep
  <2>1. PICK d \in History!Dirs(p) \cup {cur[p]} : History!Refresh(p, d)
    BY <1>2 DEF History!Navigate
  <2>2. /\ job = History!NoJob /\ (p = "remote" => connected)
        /\ job' = [action |-> "refresh", pane |-> p, path |-> d]
        /\ UNCHANGED <<cur, back, fwd, replay, connected, left>>
    BY <1>2, <2>1 DEF History!Navigate, History!Refresh
  <2>3. d \in Texts /\ p \in {"local", "remote"}
    BY <1>0, <1>2, <2>1 DEF History!Dirs, History!Panes, Texts
  <2>4. job' \in Jobs /\ job'.pane = p
    BY <2>2, <2>3 DEF Jobs
  <2>5. Replaying'
    BY <1>0, <1>1, <2>2 DEF Replaying
  <2>6. job.action = "none"
    BY <1>1, <2>2
  <2> QED
    BY <1>0, <2>2, <2>4, <2>5, <2>6 DEF HistoryState, HistoryTyped, OnServer,
       History!ForwardReturns,
       History!ReplayKeepsPlacesStep
<1>3. ASSUME NEW p \in History!Panes, History!SetPath(p)
      PROVE  HistoryState' /\ History!ReplayKeepsPlacesStep
  <2>1. PICK d \in History!Texts(p) : cur' = [cur EXCEPT ![p] = d]
    BY <1>3 DEF History!SetPath
  <2>2. d \in Texts
    BY <2>1 DEF History!Texts, History!Dirs, Texts
  <2>3. job = History!NoJob /\ UNCHANGED <<back, fwd, replay, job, connected, left>>
    BY <1>3 DEF History!SetPath
  <2>4. cur' \in [History!Panes -> Texts]
    BY <1>0, <2>1, <2>2
  <2>5. Replaying'
    BY <1>0, <2>3 DEF Replaying
  <2> QED
    BY <1>0, <1>1, <2>3, <2>4, <2>5 DEF HistoryState, HistoryTyped, OnServer,
       History!ForwardReturns,
       History!ReplayKeepsPlacesStep
<1>4. ASSUME NEW b \in BOOLEAN, History!navigateLinuxWorkspaceHistory(b)
      PROVE  HistoryState' /\ History!ReplayKeepsPlacesStep
  <2> DEFINE s == History!History(b)
             t == History!Last(s)
  <2>1. /\ s # <<>> /\ job = History!NoJob /\ (t.pane = "remote" => connected)
        /\ replay' = [active |-> TRUE, back |-> b, target |-> t]
        /\ job' = [action |-> "refresh", pane |-> t.pane, path |-> t.path]
        /\ UNCHANGED <<cur, back, fwd, connected, left>>
    BY <1>4 DEF History!navigateLinuxWorkspaceHistory, History!linuxHistoryCan, History!Refresh
  <2>2. t \in Entries
    <3>1. Recent(s)
      BY <1>0 DEF History!History
    <3>2. s \in Seq(Entries) /\ Len(s) \in 1..Len(s)
      BY <2>1, <3>1 DEF Recent
    <3> QED
      BY <3>2 DEF History!Last
  <2> HIDE DEF s, t
  <2>3. /\ t.pane \in {"local", "remote"} /\ t.path \in Texts
    BY <2>2 DEF Entries
  <2>4. job' \in Jobs /\ replay' \in Replays /\ job'.pane = t.pane /\ job'.path = t.path
        /\ replay'.target = t /\ job'.action = "refresh" /\ replay'.active
    BY <2>1, <2>2, <2>3 DEF Jobs, Replays
  <2>5. Replaying'
    BY <2>4 DEF Replaying
  <2>6. job.action = "none"
    BY <1>1, <2>1
  <2> QED
    BY <1>0, <2>1, <2>4, <2>5, <2>6 DEF HistoryState, HistoryTyped, OnServer,
       History!ForwardReturns,
       History!ReplayKeepsPlacesStep
<1>5. ASSUME History!Connect
      PROVE  HistoryState' /\ History!ReplayKeepsPlacesStep
  <2>1. job = History!NoJob /\ connected' = TRUE /\ UNCHANGED <<cur, back, fwd, replay, job,
          left>>
    BY <1>5 DEF History!Connect
  <2>2. Replaying'
    BY <1>0, <2>1 DEF Replaying
  <2> QED
    BY <1>0, <1>1, <2>1, <2>2 DEF HistoryState, HistoryTyped, OnServer, History!ForwardReturns,
       History!ReplayKeepsPlacesStep
<1>6. ASSUME History!disconnect
      PROVE  HistoryState' /\ History!ReplayKeepsPlacesStep
  <2>1. job = History!NoJob /\ job' = [action |-> "disconnect"]
        /\ UNCHANGED <<cur, back, fwd, replay, connected, left>>
    BY <1>6 DEF History!disconnect
  <2>2. job' \in Jobs /\ job'.action = "disconnect" /\ job.action = "none"
    BY <1>1, <2>1 DEF Jobs
  <2>3. Replaying'
    BY <1>0, <2>1, <2>2 DEF Replaying
  <2> QED
    BY <1>0, <2>1, <2>2, <2>3 DEF HistoryState, HistoryTyped, OnServer, History!ForwardReturns,
       History!ReplayKeepsPlacesStep
<1>7. ASSUME History!Failed
      PROVE  HistoryState' /\ History!ReplayKeepsPlacesStep
  <2>1. job' = History!NoJob /\ replay' = History!NoReplay /\ UNCHANGED <<cur, back, fwd,
          connected, left>>
    BY <1>7 DEF History!Failed, History!failLinuxWorkspaceReplay
  <2>2. job' \in Jobs /\ replay' \in Replays /\ job'.action = "none" /\ replay'.active = FALSE
    BY <2>1 DEF Jobs, Replays, History!NoJob, History!NoReplay
  <2>3. Replaying'
    BY <2>2 DEF Replaying
  <2> QED
    BY <1>0, <2>1, <2>2, <2>3 DEF HistoryState, HistoryTyped, OnServer, History!ForwardReturns,
       History!ReplayKeepsPlacesStep
<1>8. ASSUME History!Disconnected
      PROVE  HistoryState' /\ History!ReplayKeepsPlacesStep
  <2>1. /\ job.action = "disconnect" /\ job' = History!NoJob /\ connected' = FALSE
        /\ back' = <<>> /\ fwd' = <<>> /\ replay' = History!NoReplay /\ left' = History!NoEntry
        /\ cur' = cur
    BY <1>8 DEF History!Disconnected
  <2>2. job' \in Jobs /\ replay' \in Replays /\ job'.action = "none" /\ replay'.active = FALSE
    BY <2>1 DEF Jobs, Replays, History!NoJob, History!NoReplay
  <2>3. Replaying'
    BY <2>2 DEF Replaying
  <2>4. Recent(back') /\ IsLocal(back')
    <3>1. <<>> \in Seq(Entries) /\ Len(<<>>) = 0 /\ 1..0 = {} /\ 1..0 - 1 = {}
      OBVIOUS
    <3> QED
      BY <2>1, <3>1, LimitTyped DEF Recent, NoTwice, IsLocal
  <2> QED
    BY <1>0, <2>1, <2>2, <2>3, <2>4 DEF HistoryState, HistoryTyped, OnServer,
       History!ForwardReturns,
       History!ReplayKeepsPlacesStep
<1> QED
  BY <1>2, <1>3, <1>4, <1>5, <1>6, <1>7, <1>8

(***************************************************************************)
(* The history: listings                                                   *)
(***************************************************************************)

\* completeLinuxWorkspaceNavigation for the directory `to', in the pane of `at'.
LEMMA Completing ==
    ASSUME HistoryState, NEW p \in {"local", "remote"}, NEW to \in Texts,
           History!completeLinuxWorkspaceNavigation(p, to), p = "remote" => connected
    PROVE  /\ Recent(back') /\ Recent(fwd') /\ replay' \in {replay, History!NoReplay}
           /\ ~connected => IsLocal(back') /\ IsLocal(fwd')
           /\ left' # History!NoEntry => fwd' # <<>> /\ History!Last(fwd') = left'
           /\ replay.active /\ replay.target = [pane |-> p, path |-> to]
                => replay' = History!NoReplay
           /\ ~(replay.active /\ replay.target = [pane |-> p, path |-> to]) => replay' = replay
           /\ replay.active /\ replay.target = [pane |-> p, path |-> to]
              /\ Len(back) < HistoryLimit /\ Len(fwd) < HistoryLimit
              => In(back) \cup In(fwd) \subseteq In(back') \cup In(fwd') \cup {[pane |-> p,
                path |-> to]}
<1> DEFINE c == History!Entry(p, cur[p])
           t == History!Entry(p, to)
           answered == replay.active /\ replay.target = t
<1>0. /\ cur \in [History!Panes -> Texts] /\ Recent(back) /\ Recent(fwd) /\ connected \in BOOLEAN
      /\ (~connected => IsLocal(back) /\ IsLocal(fwd))
      /\ History!ForwardReturns
  BY DEF HistoryState, HistoryTyped, OnServer
<1>1. t = [pane |-> p, path |-> to] /\ c = [pane |-> p, path |-> cur[p]]
  BY DEF History!Entry
<1>2. t \in Entries /\ c \in Entries /\ t.pane = p /\ c.pane = p
  BY <1>0, <1>1 DEF Entries, History!Panes
<1>3. /\ replay' = IF answered THEN History!NoReplay ELSE replay
      /\ c = t => UNCHANGED <<back, fwd, left>>
      /\ c # t /\ answered => /\ History!ReplayAnswered(c, t)
                              /\ left' = IF replay.back THEN c ELSE History!NoEntry
      /\ c # t /\ ~answered => /\ back' = History!appendLinuxWorkspaceHistory(back, c)
                               /\ fwd' = <<>> /\ left' = History!NoEntry
  BY DEF History!completeLinuxWorkspaceNavigation
<1>4. ~connected => p = "local"
  OBVIOUS
<1> HIDE DEF c, t
<1>5. CASE c = t
  BY <1>0, <1>1, <1>3, <1>5 DEF History!ForwardReturns
<1>6. CASE c # t /\ ~answered
  <2>1. Recent(fwd') /\ IsLocal(fwd')
    <3>1. <<>> \in Seq(Entries) /\ Len(<<>>) = 0 /\ 1..0 = {} /\ 1..0 - 1 = {}
      OBVIOUS
    <3> QED
      BY <1>3, <1>6, <3>1, LimitTyped DEF Recent, NoTwice, IsLocal
  <2>2. Recent(back') /\ (~connected => IsLocal(back'))
    BY <1>0, <1>2, <1>3, <1>4, <1>6, Appending
  <2> QED
    BY <1>1, <1>3, <1>6, <2>1, <2>2
<1>7. CASE c # t /\ answered /\ replay.back
  <2>1. /\ back' = History!Popped(back, t) /\ fwd' = History!appendLinuxWorkspaceHistory(fwd, c)
        /\ left' = c
    BY <1>3, <1>7 DEF History!ReplayAnswered
  <2>2. /\ Recent(back') /\ In(back) \subseteq In(back') \cup {t}
        /\ (~connected => IsLocal(back'))
    BY <1>0, <1>2, <2>1, Popping
  <2>3. /\ Recent(fwd') /\ fwd' # <<>> /\ History!Last(fwd') = c
        /\ (Len(fwd) < HistoryLimit => In(fwd) \subseteq In(fwd'))
        /\ (~connected => IsLocal(fwd'))
    BY <1>0, <1>2, <1>4, <2>1, Appending
  <2> QED
    BY <1>1, <1>3, <1>7, <2>1, <2>2, <2>3
<1>8. CASE c # t /\ answered /\ ~replay.back
  <2>1. /\ fwd' = History!Popped(fwd, t) /\ back' = History!appendLinuxWorkspaceHistory(back, c)
        /\ left' = History!NoEntry
    BY <1>3, <1>8 DEF History!ReplayAnswered
  <2>2. /\ Recent(fwd') /\ In(fwd) \subseteq In(fwd') \cup {t}
        /\ (~connected => IsLocal(fwd'))
    BY <1>0, <1>2, <2>1, Popping
  <2>3. /\ Recent(back') /\ (Len(back) < HistoryLimit => In(back) \subseteq In(back'))
        /\ (~connected => IsLocal(back'))
    BY <1>0, <1>2, <1>4, <2>1, Appending
  <2> QED
    BY <1>1, <1>3, <1>8, <2>1, <2>2, <2>3
<1> QED
  BY <1>5, <1>6, <1>7, <1>8

\* The entries of two stacks.
LEMMA Joined ==
    ASSUME NEW s, NEW g, Recent(s), Recent(g)
    PROVE  History!Range(s \o g) = In(s) \cup In(g)
<1>1. s \in Seq(Entries) /\ g \in Seq(Entries) /\ Len(s) \in Nat /\ Len(g) \in Nat
  BY DEF Recent
<1>2. /\ DOMAIN (s \o g) = 1..Len(s) + Len(g)
      /\ \A i \in 1..Len(s) : (s \o g)[i] = s[i]
      /\ \A i \in 1..Len(g) : (s \o g)[Len(s) + i] = g[i]
  BY <1>1
<1>3. History!Range(s \o g) \subseteq In(s) \cup In(g)
  <2> SUFFICES ASSUME NEW i \in 1..Len(s) + Len(g)
               PROVE  (s \o g)[i] \in In(s) \cup In(g)
    BY <1>2 DEF History!Range
  <2>1. CASE i <= Len(s)
    <3>1. i \in 1..Len(s)
      BY <1>1, <2>1
    <3> QED
      BY <1>2, <3>1 DEF In
  <2>2. CASE i > Len(s)
    <3>1. i - Len(s) \in 1..Len(g) /\ Len(s) + (i - Len(s)) = i
      BY <1>1, <2>2
    <3>2. (s \o g)[i] = g[i - Len(s)]
      BY <1>2, <3>1
    <3> QED
      BY <3>1, <3>2 DEF In
  <2> QED
    BY <1>1, <2>1, <2>2
<1>4. In(s) \subseteq History!Range(s \o g)
  <2> SUFFICES ASSUME NEW i \in 1..Len(s)
               PROVE  s[i] \in History!Range(s \o g)
    BY DEF In
  <2>1. i \in 1..Len(s) + Len(g)
    BY <1>1
  <2> QED
    BY <1>2, <2>1 DEF History!Range
<1>5. In(g) \subseteq History!Range(s \o g)
  <2> SUFFICES ASSUME NEW i \in 1..Len(g)
               PROVE  g[i] \in History!Range(s \o g)
    BY DEF In
  <2>1. Len(s) + i \in 1..Len(s) + Len(g)
    BY <1>1
  <2> QED
    BY <1>2, <2>1 DEF History!Range
<1> QED
  BY <1>3, <1>4, <1>5

\* A listing arrives or fails, and completes the replay that asked for it.
LEMMA HistoryListed ==
    ASSUME HistoryState, History!Listed
    PROVE  HistoryState' /\ History!ReplayKeepsPlacesStep
<1> DEFINE p == job.pane
           to == History!Base(p, job.path)
<1>0. /\ cur \in [History!Panes -> Texts] /\ Recent(back) /\ Recent(fwd)
      /\ job \in Jobs /\ replay \in Replays /\ connected \in BOOLEAN
      /\ (job.action = "refresh" /\ job.pane = "remote" => connected)
      /\ Replaying
  BY DEF HistoryState, HistoryTyped, OnServer
<1>1. /\ job.action = "refresh" /\ job' = History!NoJob /\ connected' = connected
      /\ History!completeLinuxWorkspaceNavigation(p, to)
      /\ cur' = [cur EXCEPT ![p] = to]
  BY DEF History!Listed
<1>2. p \in {"local", "remote"} /\ job.path \in Texts
  BY <1>0, <1>1 DEF Jobs, History!NoJob
<1>3. to \in Texts
  BY <1>2, LimitTyped DEF History!Base, Texts
<1>4. p = "remote" => connected
  BY <1>0, <1>1
<1> DEFINE t == [pane |-> p, path |-> to]
<1>5. /\ Recent(back') /\ Recent(fwd') /\ replay' \in {replay, History!NoReplay}
      /\ (~connected => IsLocal(back') /\ IsLocal(fwd'))
      /\ (left' # History!NoEntry => fwd' # <<>> /\ History!Last(fwd') = left')
      /\ (replay.active /\ replay.target = t => replay' = History!NoReplay)
      /\ (~(replay.active /\ replay.target = t) => replay' = replay)
      /\ (replay.active /\ replay.target
           = t /\ Len(back) < HistoryLimit /\ Len(fwd) < HistoryLimit
            => In(back) \cup In(fwd) \subseteq In(back') \cup In(fwd') \cup {t})
  BY <1>1, <1>2, <1>3, <1>4, Completing
<1>6. cur' \in [History!Panes -> Texts] /\ cur'[p] = to
  BY <1>0, <1>1, <1>2, <1>3 DEF History!Panes
<1>7. job' \in Jobs /\ replay' \in Replays /\ job'.action = "none"
  BY <1>0, <1>1, <1>5 DEF Jobs, Replays, History!NoJob
<1>8. ~History!NoReplay.active
  BY DEF History!NoReplay
<1>9. Replaying'
  <2> SUFFICES ASSUME replay'.active
               PROVE  History!Base(replay'.target.pane, replay'.target.path) # replay'.target.path
    BY DEF Replaying
  <2>1. replay' = replay /\ ~(replay.active /\ replay.target = t)
    BY <1>5, <1>8
  <2>2. replay.active /\ replay.target # t /\ replay.target \in Entries
    BY <1>0, <1>8, <2>1 DEF Replays
  <2>3. CASE History!Base(replay.target.pane, replay.target.path) # replay.target.path
    BY <2>1, <2>3
  <2>4. CASE p = replay.target.pane /\ job.path = replay.target.path
    <3>1. replay.target = [pane |-> p, path |-> job.path]
      BY <2>2, <2>4 DEF Entries
    <3>2. to # job.path
      BY <2>2, <3>1
    <3> QED
      BY <2>1, <2>4, <3>2
  <2> QED
    BY <1>0, <2>2, <2>3, <2>4 DEF Replaying
<1>10. HistoryState'
  BY <1>1, <1>5, <1>6, <1>7, <1>9 DEF HistoryState, HistoryTyped, OnServer, History!ForwardReturns
<1>11. History!ReplayKeepsPlacesStep
  <2> SUFFICES ASSUME replay.active, ~replay'.active, Len(back) < HistoryLimit,
                      Len(fwd) < HistoryLimit
               PROVE  History!Range(back \o fwd) \subseteq
                        History!Range(back' \o fwd') \cup {History!Entry(job.pane,
                          cur'[job.pane])}
    BY DEF History!ReplayKeepsPlacesStep
  <2>1. replay.active /\ replay.target = t
    BY <1>5
  <2>2. In(back) \cup In(fwd) \subseteq In(back') \cup In(fwd') \cup {t}
    BY <1>5, <2>1
  <2>3. History!Entry(job.pane, cur'[job.pane]) = t
    BY <1>6 DEF History!Entry
  <2>4. /\ History!Range(back \o fwd) = In(back) \cup In(fwd)
        /\ History!Range(back' \o fwd') = In(back') \cup In(fwd')
    BY <1>0, <1>5, Joined
  <2> QED
    BY <2>2, <2>3, <2>4
<1> QED
  BY <1>10, <1>11

\* Every step keeps the invariant, and a replay that is over has lost no place.
LEMMA HistoryStep ==
    ASSUME HistoryState, History!Next
    PROVE  HistoryState' /\ History!ReplayKeepsPlacesStep
  BY HistoryClicks, HistoryListed DEF History!Next

(***************************************************************************)
(* The main window: its states                                             *)
(***************************************************************************)

\* A server, or none.
Hosts == Servers \cup {"none"}
\* The directories of both panes.
Paths == {"home", "work", "/", "/x"}
\* A profile that is saved.
Accounts == [host : Hosts, local : Paths, remote : Paths]
\* The rows of a pane: of which server and directory.
Sheets == [server : Hosts, dir : Paths \cup {"none"}]
\* How far a task is.
States == {"runs", "ok", "trust", "failed"}
\* The changes of an item that is there.
Three == {"rename", "chmod", "delete"}
\* A task that connects.
Connecting == [kind : {"connect"}, server : Hosts, trust : Hosts, state : States]
\* A task that disconnects.
Leaving == [kind : {"leave"}, state : States]
\* A task that lists a directory.
Listing == [kind : {"list"}, side : Main!Sides, dir : Paths, state : States]
\* A task that changes a file.
Changing == [kind : {"change"}, op : Three \cup {"mkdir"}, dir : Paths, seen : Sheets,
  state : States]
\* Every task, or none.
Work == {Main!NoTask} \cup Connecting \cup Leaving \cup Listing \cup Changing
\* What a prompt asks for.
Prompts == {Main!NothingDone} \cup [op : {"mkdir", "rename", "chmod"}, side : Main!Sides]
\* What is to be confirmed.
Questions == {Main!NothingDone} \cup [op : {"save"}] \cup [op : {"delete"}, side : Main!Sides,
  dir : Paths, on : Hosts]
\* The profile and the key a connection starts with.
Starts == [prof : {"p", "q", "none"}, key : Hosts, verified : Paths]
\* The states of the window.
Desks == [busy : BOOLEAN, task : Work, connected : BOOLEAN, pending : Hosts, last : Hosts,
          host : Hosts, secret : BOOLEAN, prof : {"p", "q", "none"},
          cur : [Main!Sides -> Paths], owner : Hosts, rows : [Main!Sides -> Sheets],
          sel : [Main!Sides -> BOOLEAN], typed : [Main!Sides -> BOOLEAN], asks : BOOLEAN,
          prompt : Prompts, confirm : Questions, start : Starts]

\* What the task of the window is about.
Fits(w) ==
    /\ w.task.kind = "connect" => /\ ~w.connected /\ w.task.server = w.last
                                  /\ w.task.trust \in {"none", w.task.server}
    /\ w.task.kind = "list" /\ w.task.side = "remote" => w.connected
    /\ w.task.kind = "change" =>
          /\ w.connected
          /\ w.task.op \in Three =>
                /\ w.rows["remote"] # Main!NoRows
                /\ w.task.seen = [server |-> w.rows["remote"].server,
                     dir |-> w.rows["remote"].dir]

\* The window with the session s.
Sound(w, s) ==
    /\ w \in Desks /\ w.pending \in {"none", w.last}
    /\ ~w.connected => w.rows["remote"] = Main!NoRows
    /\ w.rows["remote"] # Main!NoRows =>
          /\ w.typed["remote"] \/ w.rows["remote"].dir = w.cur["remote"]
          /\ s # "none" => w.rows["remote"].server = s
    /\ w.sel["remote"] => w.rows["remote"] # Main!NoRows
    /\ Fits(w)

\* The local rows are those of the directory in the field, and of the one a
\* profile start falls again to, unless a path was put into the field.
LocalKept(w) ==
    /\ w.rows["local"].server = "none"
    /\ w.typed["local"] \/ (/\ w.rows["local"].dir = w.cur["local"]
                            /\ w.start.verified = w.cur["local"])

\* What a frame needs for that, with the profiles f.
LocalReady(w, f) ==
    /\ w.rows["local"].server = "none"
    /\ \/ w.typed["local"]
       \/ w.rows["local"].dir = w.cur["local"] /\ w.start.verified = w.cur["local"]
       \/ w.rows["local"].dir = w.cur["local"] /\ ~w.busy /\ w.prof = w.start.prof
       \/ /\ w.prof # w.start.prof /\ w.prof # "none" /\ w.cur["local"] = f[w.prof].local
          /\ w.start.verified = w.rows["local"].dir

\* The two panes.
LEMMA SidesAre ==
    Main!Sides = {"local", "remote"} /\ "local" \in Main!Sides /\ "remote" \in Main!Sides
  BY DEF Main!Sides

\* A listing is a task.
LEMMA WorkTyped ==
    /\ Main!NoTask \in Work /\ Main!NoTask.kind = "none"
    /\ \A p \in Main!Sides, d \in Paths :
         /\ Main!List(p, d) \in Work /\ Main!List(p, d).kind = "list" /\ Main!List(p, d).side = p
<1>1. Main!NoTask \in Work /\ Main!NoTask.kind = "none"
  BY DEF Work, Main!NoTask, Main!None
<1>2. ASSUME NEW p \in Main!Sides, NEW d \in Paths
      PROVE  Main!List(p, d) \in Work /\ Main!List(p, d).kind = "list" /\ Main!List(p, d).side = p
  BY <1>2 DEF Work, Listing, Main!List, States
<1> QED
  BY <1>1, <1>2

\* A task started in a sound window.
LEMMA Starting ==
    ASSUME NEW s, NEW w, Sound(w, s), NEW t \in Work, NEW b \in BOOLEAN,
           Fits([w EXCEPT !.busy = b, !.task = t])
    PROVE  Sound([w EXCEPT !.busy = b, !.task = t], s)
<1> DEFINE u == [w EXCEPT !.busy = b, !.task = t]
<1>1. /\ u \in Desks /\ u.pending = w.pending /\ u.last = w.last /\ u.typed = w.typed
           /\ u.connected = w.connected
      /\ u.rows = w.rows /\ u.cur = w.cur /\ u.sel = w.sel /\ u.typed = w.typed
  BY DEF Sound, Desks
<1> HIDE DEF u
<1>2. Fits(u)
  BY DEF u
<1>3. Sound(u, s)
  BY <1>1, <1>2 DEF Sound
<1> QED
  BY <1>3 DEF u

\* A listing of a pane is asked for.
LEMMA RefreshSound ==
    ASSUME NEW s, NEW w, Sound(w, s), NEW p \in Main!Sides, NEW d \in Paths
    PROVE  LET u == Main!Refresh(w, p, d) IN
           /\ Sound(u, s)
           /\ u.start = w.start /\ u.prof = w.prof /\ u.prompt = w.prompt /\ u.confirm = w.confirm
           /\ u.cur = w.cur /\ u.rows = w.rows /\ u.connected = w.connected /\ u.host = w.host
           /\ u.sel = w.sel /\ u.typed = w.typed /\ u.busy \in BOOLEAN
           /\ u.task = w.task \/ u.task.kind = "list"
<1> DEFINE u == Main!Refresh(w, p, d)
<1>1. CASE w.busy \/ (p = "remote" /\ ~w.connected)
  <2>1. u = w
    BY <1>1 DEF Main!Refresh
  <2> QED
    BY <2>1 DEF Sound, Desks
<1>2. CASE ~(w.busy \/ (p = "remote" /\ ~w.connected))
  <2> DEFINE t == Main!List(p, d)
             v == [w EXCEPT !.busy = TRUE, !.task = t]
  <2>1. t \in Work /\ t.kind = "list" /\ t.side = p
    BY WorkTyped
  <2>2. u = v
    BY <1>2 DEF Main!Refresh, Main!Start
  <2> HIDE DEF t, u
  <2>3. /\ v.task = t /\ v.connected = w.connected /\ v.start = w.start /\ v.prof = w.prof
        /\ v.prompt = w.prompt /\ v.confirm = w.confirm /\ v.cur = w.cur /\ v.rows = w.rows
        /\ v.host = w.host /\ v.sel = w.sel /\ v.typed = w.typed /\ v.busy = TRUE
    BY DEF Sound, Desks
  <2>4. Fits(v)
    BY <1>2, <2>1, <2>3 DEF Fits
  <2>5. Sound(v, s)
    BY <2>1, <2>4, Starting
  <2> QED
    BY <2>1, <2>2, <2>3, <2>5 DEF u
<1> QED
  BY <1>1, <1>2

\* The start of a profile is enforced on a window that is sound.
LEMMA Enforcing ==
    ASSUME NEW s, NEW w, Sound(w, s), NEW f,
           w.prof # w.start.prof /\ w.prof # "none" =>
             /\ f[w.prof] \in Accounts
             /\ w.connected => f[w.prof].remote = w.cur["remote"]
    PROVE  LET e == Main!EnforceStart(w, f) IN
           /\ Sound(e, s) /\ e.start.prof = e.prof
           /\ e.prompt = w.prompt /\ e.confirm = w.confirm
           /\ e.task = w.task \/ e.task.kind = "list"
           /\ LocalReady(w, f) => LocalKept(e)
<1> DEFINE new == w.prof # w.start.prof
           p == IF w.prof = "none" THEN Main!NoProfile ELSE f[w.prof]
           w1 == IF ~new THEN w ELSE [w EXCEPT !.start.prof = w.prof, !.start.key = w.host]
           x == [w1 EXCEPT !.cur["local"] = w.start.verified, !.sel["local"] = FALSE]
           w2 == IF new /\ w.prof # "none" /\ w.cur["local"] = p.local
                 THEN Main!Refresh(x, "local", p.local) ELSE w1
           w3 == IF new /\ w.prof # "none" THEN [w2 EXCEPT !.cur["remote"] = p.remote,
             !.owner = "none"] ELSE w2
           w4 == IF w3.prof # "none" /\ ~w3.connected /\ w3.host # w3.start.key
                 THEN [w3 EXCEPT !.cur["remote"] = "/", !.owner = "none",
                   !.start.key = w3.host] ELSE w3
           w5 == [w4 EXCEPT !.start.verified = IF w4.busy THEN @ ELSE w4.cur["local"]]
           Same(v) == /\ v.prompt = w.prompt /\ v.confirm = w.confirm /\ v.connected = w.connected
                      /\ v.prof = w.prof /\ v.start.prof = w.prof
                      /\ v.task = w.task \/ v.task.kind = "list"
                      /\ v.rows = w.rows /\ v.typed = w.typed
           again == new /\ w.prof # "none" /\ w.cur["local"] = p.local
           Local(v) == /\ v.start.verified = w.start.verified
                       /\ v.cur["local"] = IF again THEN w.start.verified ELSE w.cur["local"]
                       /\ ~again => v.busy = w.busy
<1>0. Main!EnforceStart(w, f) = IF new /\ w.prof = "none" THEN w1 ELSE w5
  BY DEF Main!EnforceStart, Main!None
<1>1. /\ Sound(w1, s) /\ Same(w1) /\ w1.cur = w.cur
      /\ w1.start.verified = w.start.verified /\ w1.busy = w.busy
  <2>1. CASE ~new
    BY <2>1 DEF Sound
  <2>2. CASE new
    <3>1. w1 = [w EXCEPT !.start.prof = w.prof, !.start.key = w.host]
      BY <2>2
    <3> DEFINE v == [w EXCEPT !.start.prof = w.prof, !.start.key = w.host]
               b == [w.start EXCEPT !.prof = w.prof, !.key = w.host]
    <3>4. w \in Desks
      BY DEF Sound
    <3>5. b \in Starts /\ b.prof = w.prof /\ b.verified = w.start.verified
      BY <3>4 DEF Desks, Starts
    <3>6. v = [w EXCEPT !.start = b]
      BY <3>4 DEF Desks
    <3> HIDE DEF b, v
    <3>7. v \in Desks
      BY <3>4, <3>5, <3>6 DEF Desks
    <3>2. /\ v \in Desks /\ v.start.prof = w.prof /\ v.cur = w.cur
          /\ v.prompt = w.prompt /\ v.confirm = w.confirm /\ v.connected = w.connected
               /\ v.prof = w.prof
          /\ v.pending = w.pending /\ v.last = w.last /\ v.typed = w.typed /\ v.rows = w.rows
               /\ v.sel = w.sel /\ v.task = w.task
          /\ v.start.verified = w.start.verified /\ v.busy = w.busy
      BY <3>4, <3>5, <3>6, <3>7 DEF Desks
    <3>3. Sound(v, s)
      BY <3>2 DEF Sound, Fits
    <3> QED
      BY <3>1, <3>2, <3>3 DEF v
  <2> QED
    BY <2>1, <2>2
<1> HIDE DEF w1
<1>2. Sound(w2, s) /\ Same(w2) /\ Local(w2) /\ w2.cur["remote"] = w.cur["remote"]
  <2>1. CASE new /\ w.prof # "none" /\ w.cur["local"] = p.local
    <3>1. p \in Accounts /\ p.local \in Paths
      BY <2>1 DEF Accounts
    <3>2. w.start.verified \in Paths
      BY DEF Sound, Desks, Starts
    <3> DEFINE c == [w1.cur EXCEPT !["local"] = w.start.verified]
               k == [w1.sel EXCEPT !["local"] = FALSE]
    <3>7. w1 \in Desks
      BY <1>1 DEF Sound
    <3>8. /\ c \in [Main!Sides -> Paths] /\ c["remote"] = w1.cur["remote"]
          /\ c["local"] = w.start.verified
      BY <3>2, <3>7, SidesAre DEF Desks
    <3>9. k \in [Main!Sides -> BOOLEAN] /\ k["remote"] = w1.sel["remote"]
      BY <3>7, SidesAre DEF Desks
    <3>10. x = [w1 EXCEPT !.cur = c, !.sel = k]
      BY <3>7 DEF Desks
    <3> HIDE DEF c, k, x
    <3>11. x \in Desks /\ x.cur = c /\ x.sel = k
      BY <3>7, <3>8, <3>9, <3>10 DEF Desks
    <3>3. /\ x \in Desks /\ x.cur["remote"] = w1.cur["remote"]
               /\ x.cur["local"] = w.start.verified /\ x.sel["remote"] = w1.sel["remote"]
          /\ x.prompt = w1.prompt /\ x.confirm = w1.confirm /\ x.connected = w1.connected
               /\ x.prof = w1.prof
          /\ x.pending = w1.pending /\ x.last = w1.last /\ x.typed = w1.typed
               /\ x.rows = w1.rows /\ x.task = w1.task
          /\ x.start = w1.start
      BY <3>7, <3>8, <3>9, <3>10, <3>11 DEF Desks
    <3>4. Sound(x, s)
      BY <1>1, <3>3 DEF Sound, Fits
    <3> DEFINE v == Main!Refresh(x, "local", p.local)
    <3>5. /\ Sound(v, s) /\ v.start = x.start /\ v.prof = x.prof /\ v.prompt = x.prompt
          /\ v.confirm = x.confirm /\ v.cur = x.cur /\ v.connected = x.connected
          /\ v.rows = x.rows /\ v.typed = x.typed
          /\ v.task = x.task \/ v.task.kind = "list"
      BY <3>1, <3>4, SidesAre, RefreshSound
    <3>6. w2 = v
      BY <2>1 DEF x
    <3> HIDE DEF v, w2
    <3> QED
      BY <1>1, <2>1, <3>3, <3>5, <3>6
  <2>2. CASE ~(new /\ w.prof # "none" /\ w.cur["local"] = p.local)
    BY <1>1, <2>2
  <2> QED
    BY <2>1, <2>2
<1> HIDE DEF w2
<1>3. Sound(w3, s) /\ Same(w3) /\ Local(w3)
  <2>1. CASE new /\ w.prof # "none"
    <3>1. p \in Accounts /\ p.remote \in Paths /\ (w.connected => p.remote = w.cur["remote"])
      BY <2>1 DEF Accounts
    <3> HIDE DEF p
    <3> DEFINE v == [w2 EXCEPT !.cur["remote"] = p.remote, !.owner = "none"]
               c == [w2.cur EXCEPT !["remote"] = p.remote]
    <3>5. w2 \in Desks /\ "none" \in Hosts
      BY <1>2 DEF Sound, Hosts
    <3>6. c \in [Main!Sides -> Paths] /\ c["remote"] = p.remote /\ c["local"] = w2.cur["local"]
      BY <3>1, <3>5, SidesAre DEF Desks
    <3>7. v = [w2 EXCEPT !.cur = c, !.owner = "none"]
      BY <3>5 DEF Desks
    <3> HIDE DEF c, v
    <3>8. v \in Desks
      BY <3>5, <3>6, <3>7 DEF Desks
    <3>9. /\ v.cur = c /\ v.sel = w2.sel /\ v.busy = w2.busy
          /\ v.prompt = w2.prompt /\ v.confirm = w2.confirm /\ v.connected = w2.connected
               /\ v.prof = w2.prof
          /\ v.pending = w2.pending /\ v.last = w2.last /\ v.typed = w2.typed
               /\ v.rows = w2.rows /\ v.task = w2.task
          /\ v.start = w2.start
      BY <3>5, <3>7 DEF Desks
    <3>2. /\ v \in Desks /\ v.cur["remote"] = p.remote /\ v.sel = w2.sel
          /\ v.cur["local"] = w2.cur["local"] /\ v.busy = w2.busy
          /\ v.prompt = w2.prompt /\ v.confirm = w2.confirm /\ v.connected = w2.connected
               /\ v.prof = w2.prof
          /\ v.pending = w2.pending /\ v.last = w2.last /\ v.typed = w2.typed
               /\ v.rows = w2.rows /\ v.task = w2.task
          /\ v.start = w2.start
      BY ONLY <3>6, <3>8, <3>9
    <3>3. w3 = v
      BY <2>1 DEF v
    <3> HIDE DEF w3
    <3>4. Sound(v, s)
      BY <1>2, <3>1, <3>2 DEF Sound, Fits
    <3> QED
      BY <1>2, <3>2, <3>3, <3>4
  <2>2. CASE ~(new /\ w.prof # "none")
    BY <1>2, <2>2
  <2> QED
    BY <2>1, <2>2
<1> HIDE DEF w3
<1>4. Sound(w4, s) /\ Same(w4) /\ Local(w4)
  <2>1. CASE w3.prof # "none" /\ ~w3.connected /\ w3.host # w3.start.key
    <3> DEFINE v == [w3 EXCEPT !.cur["remote"] = "/", !.owner = "none", !.start.key = w3.host]
    <3>1. "/" \in Paths /\ "none" \in Hosts /\ w3 \in Desks /\ w3.host \in Hosts
      BY <1>3 DEF Sound, Desks, Paths, Hosts
    <3>2. /\ v.sel = w3.sel /\ v.task = w3.task
          /\ v.prompt = w3.prompt /\ v.confirm = w3.confirm /\ v.connected = w3.connected
               /\ v.prof = w3.prof
          /\ v.pending = w3.pending /\ v.last = w3.last /\ v.rows = w3.rows
          /\ v.typed = w3.typed
          /\ v.start.prof = w3.start.prof /\ v.start.verified = w3.start.verified
               /\ v.busy = w3.busy
      BY <3>1 DEF Desks, Starts
    <3>6. v.cur["local"] = w3.cur["local"]
      BY <3>1, SidesAre DEF Desks
    <3>5. v \in Desks
      <4>1. [w3.cur EXCEPT !["remote"] = "/"] \in [Main!Sides -> Paths]
        BY <3>1, SidesAre DEF Desks
      <4>2. [w3.start EXCEPT !.key = w3.host] \in Starts
        BY <3>1 DEF Desks, Starts
      <4> QED
        BY <3>1, <4>1, <4>2 DEF Desks
    <3>3. w4 = v
      BY <2>1
    <3> HIDE DEF v, w4
    <3>4. Sound(v, s)
      BY <1>3, <2>1, <3>2, <3>5 DEF Sound, Fits
    <3> QED
      BY <1>3, <3>2, <3>3, <3>4, <3>6
  <2>2. CASE ~(w3.prof # "none" /\ ~w3.connected /\ w3.host # w3.start.key)
    BY <1>3, <2>2
  <2> QED
    BY <2>1, <2>2
<1> HIDE DEF w4
<1>5. /\ Sound(w5, s) /\ Same(w5) /\ w5.cur = w4.cur
      /\ w5.start.verified = IF w4.busy THEN w4.start.verified ELSE w4.cur["local"]
  <2> DEFINE d == IF w4.busy THEN w4.start.verified ELSE w4.cur["local"]
             v == [w4 EXCEPT !.start.verified = d]
  <2>1. d \in Paths
    BY <1>4, SidesAre DEF Sound, Desks, Starts
  <2>2. w5 = v
    BY <1>4 DEF Sound, Desks
  <2>5. d = IF w4.busy THEN w4.start.verified ELSE w4.cur["local"]
    OBVIOUS
  <2> HIDE DEF d, w5
  <2>3. /\ v \in Desks /\ v.sel = w4.sel /\ v.cur = w4.cur
        /\ v.prompt = w4.prompt /\ v.confirm = w4.confirm /\ v.connected = w4.connected
             /\ v.prof = w4.prof
        /\ v.pending = w4.pending /\ v.last = w4.last /\ v.typed = w4.typed /\ v.rows = w4.rows
             /\ v.task = w4.task
        /\ v.start.prof = w4.start.prof /\ v.start.verified = d
    BY <1>4, <2>1 DEF Sound, Desks, Starts
  <2> HIDE DEF v
  <2>4. Sound(v, s)
    BY <1>4, <2>3 DEF Sound, Fits
  <2> QED
    BY <1>4, <2>2, <2>3, <2>4, <2>5
<1> HIDE DEF w5
<1>6. ASSUME LocalReady(w, f)
      PROVE  LocalKept(IF new /\ w.prof = "none" THEN w1 ELSE w5)
  <2>1. w4.busy \in BOOLEAN
    BY <1>4 DEF Sound, Desks
  <2>2. CASE new /\ w.prof = "none"
    BY <1>1, <1>6, <2>2 DEF LocalReady, LocalKept
  <2>3. CASE ~(new /\ w.prof = "none")
    <3>1. w5.rows = w.rows /\ w5.typed = w.typed /\ w5.cur = w4.cur
      BY <1>5
    <3>2. again => p.local = f[w.prof].local
      OBVIOUS
    <3> SUFFICES ASSUME ~w.typed["local"]
                 PROVE  w.rows["local"].dir = w5.cur["local"]
                        /\ w5.start.verified = w5.cur["local"]
      BY <1>6, <2>3, <3>1 DEF LocalReady, LocalKept
    <3>3. CASE w.rows["local"].dir = w.cur["local"] /\ w.start.verified = w.cur["local"]
      BY <1>4, <1>5, <3>1, <3>3
    <3>4. CASE w.rows["local"].dir = w.cur["local"] /\ ~w.busy /\ w.prof = w.start.prof
      <4>1. ~again /\ w4.busy = w.busy /\ w4.cur["local"] = w.cur["local"]
        BY <1>4, <3>4
      <4> QED
        BY <1>5, <3>1, <3>4, <4>1
    <3>5. CASE /\ w.prof # w.start.prof /\ w.prof # "none" /\ w.cur["local"] = f[w.prof].local
               /\ w.start.verified = w.rows["local"].dir
      <4>1. again
        BY <3>5
      <4>2. w4.cur["local"] = w.start.verified /\ w4.start.verified = w.start.verified
        BY <1>4, <4>1
      <4> QED
        BY <1>5, <3>1, <3>5, <4>2
    <3> QED
      BY <1>6, <3>3, <3>4, <3>5 DEF LocalReady
  <2> QED
    BY <2>2, <2>3
<1> QED
  BY <1>0, <1>1, <1>5, <1>6

(***************************************************************************)
(* The main window: fields, prompts and the selection                      *)
(***************************************************************************)

\* The inductive invariant of the main window: what it shows is of the session of the
\* engine, as long as it shows it as connected.
MainState ==
    /\ Sound(mainWin, session) /\ mainWin.start.prof = mainWin.prof /\ LocalKept(mainWin)
    /\ saved \in [Main!Ids -> Accounts \cup {Main!NoProfile}]
    /\ session \in Hosts /\ Main!ChangedWhereSeen

\* Nothing is shown at the start.
LEMMA MainStarts ==
    ASSUME Main!Init
    PROVE  MainState
<1>1. PICK a \in Servers : /\ mainWin = Main!NewWindow(a)
                           /\ saved = [i \in Main!Ids |-> IF i = "p" THEN [host |-> a,
                                local |-> "work", remote |-> "/x"]
                                                          ELSE Main!NoProfile]
  BY DEF Main!Init
<1> DEFINE c == [local |-> "home", remote |-> "/"]
           r == [local |-> [server |-> "none", dir |-> "home"], remote |-> Main!NoRows]
           b == [p \in Main!Sides |-> FALSE]
           st == [prof |-> "none", key |-> a, verified |-> "home"]
<1>2. c \in [Main!Sides -> Paths] /\ c["remote"] = "/"
  <2>1. c = [p \in Main!Sides |-> IF p = "local" THEN "home" ELSE "/"]
    BY SidesAre
  <2> QED
    BY <2>1, SidesAre DEF Paths
<1>3. r \in [Main!Sides -> Sheets] /\ r["remote"] = Main!NoRows
  <2>1. r = [p \in Main!Sides |-> IF p = "local" THEN [server |-> "none",
          dir |-> "home"] ELSE Main!NoRows]
    BY SidesAre
  <2>2. [server |-> "none", dir |-> "home"] \in Sheets /\ Main!NoRows \in Sheets
    BY DEF Sheets, Hosts, Paths, Main!NoRows, Main!None
  <2> QED
    BY <2>1, <2>2, SidesAre
<1>4. b \in [Main!Sides -> BOOLEAN] /\ st \in Starts /\ ~b["remote"] /\ st.prof = "none"
  BY SidesAre DEF Starts, Hosts, Paths
<1>5. mainWin = [busy |-> FALSE, task |-> Main!NoTask, connected |-> FALSE, pending |-> "none",
        last |-> a,
                 host |-> a, secret |-> FALSE, prof |-> "none", cur |-> c, owner |-> "none",
                   rows |-> r,
                 sel |-> b, typed |-> b, asks |-> TRUE, prompt |-> Main!NothingDone,
                   confirm |-> Main!NothingDone, start |-> st]
  BY <1>1 DEF Main!NewWindow, Main!None
<1> HIDE DEF c, r, b, st
<1>6. mainWin \in Desks
  BY <1>2, <1>3, <1>4, <1>5, WorkTyped DEF Desks, Hosts, Prompts, Questions
<1>7. Sound(mainWin, session)
  <2>1. /\ mainWin.pending = "none" /\ mainWin.rows = r /\ mainWin.sel = b
             /\ mainWin.task = Main!NoTask
    BY <1>5
  <2>2. Fits(mainWin)
    BY <2>1, WorkTyped DEF Fits
  <2> QED
    BY <1>3, <1>4, <1>6, <2>1, <2>2 DEF Sound
<1>8. mainWin.start.prof = mainWin.prof /\ LocalKept(mainWin)
  <2>1. r["local"].server = "none" /\ r["local"].dir = "home" /\ c["local"] = "home"
          /\ st.verified = "home"
    BY DEF r, c, st
  <2> QED
    BY <1>4, <1>5, <2>1 DEF LocalKept
<1>9. [host |-> a, local |-> "work", remote |-> "/x"] \in Accounts
  BY DEF Accounts, Hosts, Paths
<1>10. saved \in [Main!Ids -> Accounts \cup {Main!NoProfile}]
  BY <1>1, <1>9
<1>11. session \in Hosts /\ done = Main!NothingDone
  BY DEF Main!Init, Hosts, Main!None
<1>12. Main!ChangedWhereSeen
  BY <1>11 DEF Main!ChangedWhereSeen, Main!NothingDone, Main!None
<1> QED
  BY <1>7, <1>8, <1>10, <1>11, <1>12 DEF MainState

\* The invariant says what the suite checks of the main window.
LEMMA MainHolds ==
    ASSUME MainState
    PROVE  Main!TrustWhereShown /\ Main!RowsOfSession /\ Main!ChangedWhereSeen
  BY DEF MainState, Sound, Fits, Main!TrustWhereShown, Main!RowsOfSession, Main!None

\* What a window is sound by is left as it is.
LEMMA Tuned ==
    ASSUME NEW s, NEW w, Sound(w, s), NEW u \in Desks,
           u.pending = w.pending, u.last = w.last, u.connected = w.connected, u.rows = w.rows,
           u.cur["remote"] = w.cur["remote"], u.typed["remote"] = w.typed["remote"],
           u.sel["remote"] => w.sel["remote"] \/ w.rows["remote"] # Main!NoRows,
           u.task = w.task
    PROVE  Sound(u, s)
  BY DEF Sound, Fits

\* No deletion is started.
Quiet == done' = done /\ (mainWin'.task = mainWin.task \/ mainWin'.task.kind # "change")
\* Without one none was made unasked.
LEMMA Asked ==
    ASSUME Quiet
    PROVE  Main!DeletedWasAskedStep
  BY WorkTyped DEF Quiet, Main!DeletedWasAskedStep, Main!DeletesLocal, Main!DeletesRemote

\* A step of the window, with no other profile than before.
LEMMA Stepping ==
    ASSUME MainState, NEW w, Sound(w, session), w.prof = w.start.prof, NEW f,
           f \in [Main!Ids -> Accounts \cup {Main!NoProfile}], Main!Step(w, f),
           session' = session, done' = done \/ Main!ChangedWhereSeen',
           \/ /\ w.rows = mainWin.rows /\ w.cur = mainWin.cur /\ w.typed = mainWin.typed
              /\ w.start = mainWin.start
           \/ LocalReady(w, f)
    PROVE  /\ MainState' /\ mainWin'.confirm = w.confirm
           /\ mainWin'.task = w.task \/ mainWin'.task.kind = "list"
           /\ done' = done /\ (w.task = mainWin.task \/ w.task.kind # "change")
                => Main!DeletedWasAskedStep
<1>1. mainWin' = Main!EnforceStart(w, f) /\ saved' = f
  BY DEF Main!Step
<1>0. LocalReady(w, f)
  BY DEF MainState, LocalKept, LocalReady
<1>2. /\ Sound(mainWin', session) /\ mainWin'.start.prof = mainWin'.prof /\ LocalKept(mainWin')
      /\ mainWin'.confirm = w.confirm
      /\ mainWin'.task = w.task \/ mainWin'.task.kind = "list"
  BY <1>0, <1>1, Enforcing
<1>3. done' = done /\ (w.task = mainWin.task \/ w.task.kind # "change")
        => Main!DeletedWasAskedStep
  BY <1>2, Asked DEF Quiet
<1>4. MainState'
  BY <1>1, <1>2 DEF MainState, Main!ChangedWhereSeen
<1> QED
  BY <1>2, <1>3, <1>4

\* The fields, the prompts and the selection.
LEMMA MainFields ==
    ASSUME MainState, \/ Main!Edit \/ Main!CancelPrompt \/ Main!CancelTrust \/ Main!Expire
                      \/ Main!SetConfirmDelete
                      \/ \E p \in Main!Sides : Main!SelectRow(p)
                      \/ \E p \in Main!Sides,
                           o \in {"mkdir", "rename", "chmod"} : Main!OpenPrompt(o, p)
    PROVE  MainState' /\ Main!DeletedWasAskedStep
<1>0. /\ mainWin \in Desks /\ Sound(mainWin, session) /\ mainWin.prof = mainWin.start.prof
      /\ saved \in [Main!Ids -> Accounts \cup {Main!NoProfile}] /\ session \in Hosts
  BY DEF MainState, Sound
<1>1. ASSUME NEW u \in Desks, Main!Step(u, saved), session' = session, done' = done,
             u.pending \in {mainWin.pending, "none"}, u.last = mainWin.last,
               u.connected = mainWin.connected,
             u.rows = mainWin.rows, u.start = mainWin.start, u.prof = mainWin.prof,
             \/ u.cur["remote"] = mainWin.cur["remote"]
                  /\ u.typed["remote"] = mainWin.typed["remote"]
             \/ u.typed["remote"],
             \/ u.cur["local"] = mainWin.cur["local"] /\ u.typed["local"] = mainWin.typed["local"]
             \/ u.typed["local"],
             u.sel["remote"] => mainWin.sel["remote"] \/ mainWin.rows["remote"] # Main!NoRows,
             u.task = mainWin.task
      PROVE  MainState' /\ Main!DeletedWasAskedStep
  <2>1. Sound(u, session)
    BY <1>0, <1>1 DEF Sound, Fits
  <2>2. LocalReady(u, saved)
    BY <1>0, <1>1 DEF MainState, LocalKept, LocalReady
  <2> QED
    BY <1>0, <1>1, <2>1, <2>2, Stepping
<1>2. ASSUME Main!Edit
      PROVE  MainState' /\ Main!DeletedWasAskedStep
  <2>1. session' = session /\ done' = done
    BY <1>2 DEF Main!Edit
  <2>2. ASSUME NEW a \in Servers, Main!Step([mainWin EXCEPT !.host = a], saved)
        PROVE  MainState' /\ Main!DeletedWasAskedStep
    <3> DEFINE u == [mainWin EXCEPT !.host = a]
    <3>1. /\ u \in Desks /\ u.pending = mainWin.pending /\ u.last = mainWin.last
               /\ u.typed = mainWin.typed
          /\ u.connected = mainWin.connected /\ u.rows = mainWin.rows /\ u.cur = mainWin.cur
          /\ u.start = mainWin.start /\ u.prof = mainWin.prof /\ u.sel = mainWin.sel
          /\ u.task = mainWin.task
      BY <1>0 DEF Desks, Hosts
    <3>2. Main!Step(u, saved)
      BY <2>2
    <3> HIDE DEF u
    <3> QED
      BY <1>1, <2>1, <3>1, <3>2
  <2>3. ASSUME Main!Step([mainWin EXCEPT !.secret = ~@], saved)
        PROVE  MainState' /\ Main!DeletedWasAskedStep
    <3> DEFINE u == [mainWin EXCEPT !.secret = ~@]
    <3>1. /\ u \in Desks /\ u.pending = mainWin.pending /\ u.last = mainWin.last
               /\ u.typed = mainWin.typed
          /\ u.connected = mainWin.connected /\ u.rows = mainWin.rows /\ u.cur = mainWin.cur
          /\ u.start = mainWin.start /\ u.prof = mainWin.prof /\ u.sel = mainWin.sel
          /\ u.task = mainWin.task
      BY <1>0 DEF Desks
    <3>2. Main!Step(u, saved)
      BY <2>3
    <3> HIDE DEF u
    <3> QED
      BY <1>1, <2>1, <3>1, <3>2
  <2>4. ASSUME NEW d \in Main!LocalDirs,
               Main!Step([mainWin EXCEPT !.cur["local"] = d, !.typed["local"] = TRUE], saved)
        PROVE  MainState' /\ Main!DeletedWasAskedStep
    <3> DEFINE u == [mainWin EXCEPT !.cur["local"] = d, !.typed["local"] = TRUE]
    <3>0. d \in Paths
      BY DEF Paths, Main!LocalDirs
    <3>1. /\ u \in Desks /\ u.pending = mainWin.pending /\ u.last = mainWin.last
          /\ u.connected = mainWin.connected /\ u.rows = mainWin.rows
          /\ u.cur["remote"] = mainWin.cur["remote"]
               /\ u.typed["remote"] = mainWin.typed["remote"]
          /\ u.typed["local"]
          /\ u.start = mainWin.start /\ u.prof = mainWin.prof /\ u.sel = mainWin.sel
          /\ u.task = mainWin.task
      BY <1>0, <3>0, SidesAre DEF Desks
    <3>2. Main!Step(u, saved)
      BY <2>4
    <3> HIDE DEF u
    <3> QED
      BY <1>1, <2>1, <3>1, <3>2
  <2>5. ASSUME NEW d \in Main!RemoteDirs,
               Main!Step([mainWin EXCEPT !.cur["remote"] = d, !.typed["remote"] = TRUE,
                 !.owner = Main!None],
                         saved)
        PROVE  MainState' /\ Main!DeletedWasAskedStep
    <3> DEFINE u == [mainWin EXCEPT !.cur["remote"] = d, !.typed["remote"] = TRUE,
          !.owner = "none"]
    <3>0. d \in Paths
      BY DEF Paths, Main!RemoteDirs
    <3>1. /\ u \in Desks /\ u.pending = mainWin.pending /\ u.last = mainWin.last
          /\ u.connected = mainWin.connected /\ u.rows = mainWin.rows
          /\ u.typed["remote"]
          /\ u.cur["local"] = mainWin.cur["local"] /\ u.typed["local"] = mainWin.typed["local"]
          /\ u.start = mainWin.start /\ u.prof = mainWin.prof /\ u.sel = mainWin.sel
          /\ u.task = mainWin.task
      BY <1>0, <3>0, SidesAre DEF Desks, Hosts
    <3>2. Main!Step(u, saved)
      BY <2>5 DEF Main!None
    <3> HIDE DEF u
    <3> QED
      BY <1>1, <2>1, <3>1, <3>2
  <2> QED
    BY <1>2, <2>2, <2>3, <2>4, <2>5 DEF Main!Edit
<1>3. ASSUME Main!CancelPrompt
      PROVE  MainState' /\ Main!DeletedWasAskedStep
  <2> DEFINE u == [mainWin EXCEPT !.prompt = Main!NothingDone]
  <2>1. /\ u \in Desks /\ u.pending = mainWin.pending /\ u.last = mainWin.last
             /\ u.typed = mainWin.typed
        /\ u.connected = mainWin.connected /\ u.rows = mainWin.rows /\ u.cur = mainWin.cur
        /\ u.start = mainWin.start /\ u.prof = mainWin.prof /\ u.sel = mainWin.sel
        /\ u.task = mainWin.task
    BY <1>0 DEF Desks, Prompts
  <2>2. Main!Step(u, saved) /\ session' = session /\ done' = done
    BY <1>3 DEF Main!CancelPrompt
  <2> HIDE DEF u
  <2> QED
    BY <1>1, <2>1, <2>2
<1>4. ASSUME Main!CancelTrust
      PROVE  MainState' /\ Main!DeletedWasAskedStep
  <2> DEFINE u == [mainWin EXCEPT !.pending = "none"]
  <2>1. /\ u \in Desks /\ u.pending = "none" /\ u.last = mainWin.last /\ u.typed = mainWin.typed
        /\ u.connected = mainWin.connected /\ u.rows = mainWin.rows /\ u.cur = mainWin.cur
        /\ u.start = mainWin.start /\ u.prof = mainWin.prof /\ u.sel = mainWin.sel
        /\ u.task = mainWin.task
    BY <1>0 DEF Desks, Hosts
  <2>2. Main!Step(u, saved) /\ session' = session /\ done' = done
    BY <1>4 DEF Main!CancelTrust, Main!None
  <2> HIDE DEF u
  <2> QED
    BY <1>1, <2>1, <2>2
<1>5. ASSUME Main!Expire
      PROVE  MainState' /\ Main!DeletedWasAskedStep
  <2> DEFINE u == [mainWin EXCEPT !.confirm = Main!NothingDone]
  <2>1. /\ u \in Desks /\ u.pending = mainWin.pending /\ u.last = mainWin.last
             /\ u.typed = mainWin.typed
        /\ u.connected = mainWin.connected /\ u.rows = mainWin.rows /\ u.cur = mainWin.cur
        /\ u.start = mainWin.start /\ u.prof = mainWin.prof /\ u.sel = mainWin.sel
        /\ u.task = mainWin.task
    BY <1>0 DEF Desks, Questions
  <2>2. mainWin' = u /\ session' = session /\ done' = done /\ saved' = saved
    BY <1>5 DEF Main!Expire
  <2> HIDE DEF u
  <2>3. Sound(u, session)
    BY <1>0, <2>1, Tuned
  <2>4. MainState'
    BY <1>0, <2>1, <2>2, <2>3 DEF MainState, LocalKept, Main!ChangedWhereSeen
  <2> QED
    BY <2>1, <2>2, <2>4, Asked DEF Quiet
<1>6. ASSUME NEW p \in Main!Sides, Main!SelectRow(p)
      PROVE  MainState' /\ Main!DeletedWasAskedStep
  <2> DEFINE u == [mainWin EXCEPT !.sel[p] = ~@]
  <2>1. /\ u \in Desks /\ u.pending = mainWin.pending /\ u.last = mainWin.last
             /\ u.typed = mainWin.typed
        /\ u.connected = mainWin.connected /\ u.rows = mainWin.rows /\ u.cur = mainWin.cur
        /\ u.start = mainWin.start /\ u.prof = mainWin.prof
        /\ u.task = mainWin.task /\ (p # "remote" => u.sel["remote"] = mainWin.sel["remote"])
    BY <1>0, SidesAre DEF Desks
  <2>2. Main!Step(u, saved) /\ session' = session /\ done' = done /\ mainWin.rows[p] # Main!NoRows
    BY <1>6 DEF Main!SelectRow
  <2> HIDE DEF u
  <2> QED
    BY <1>1, <2>1, <2>2
<1>7. ASSUME NEW p \in Main!Sides, NEW o \in {"mkdir", "rename", "chmod"}, Main!OpenPrompt(o, p)
      PROVE  MainState' /\ Main!DeletedWasAskedStep
  <2> DEFINE q == [op |-> o, side |-> p]
             u == [mainWin EXCEPT !.prompt = q]
  <2>0. q \in Prompts
    BY DEF Prompts
  <2>2. Main!Step(u, saved) /\ session' = session /\ done' = done
    BY <1>7 DEF Main!OpenPrompt
  <2> HIDE DEF q
  <2>1. /\ u \in Desks /\ u.pending = mainWin.pending /\ u.last = mainWin.last
             /\ u.typed = mainWin.typed
        /\ u.connected = mainWin.connected /\ u.rows = mainWin.rows /\ u.cur = mainWin.cur
        /\ u.start = mainWin.start /\ u.prof = mainWin.prof /\ u.sel = mainWin.sel
        /\ u.task = mainWin.task
    BY <1>0, <2>0 DEF Desks
  <2> HIDE DEF u
  <2> QED
    BY <1>1, <2>1, <2>2
<1>8. ASSUME Main!SetConfirmDelete
      PROVE  MainState' /\ Main!DeletedWasAskedStep
  <2> DEFINE u == [mainWin EXCEPT !.asks = ~@]
  <2>1. /\ u \in Desks /\ u.pending = mainWin.pending /\ u.last = mainWin.last
             /\ u.typed = mainWin.typed
        /\ u.connected = mainWin.connected /\ u.rows = mainWin.rows /\ u.cur = mainWin.cur
        /\ u.start = mainWin.start /\ u.prof = mainWin.prof /\ u.sel = mainWin.sel
        /\ u.task = mainWin.task
    BY <1>0 DEF Desks
  <2>2. Main!Step(u, saved) /\ session' = session /\ done' = done
    BY <1>8 DEF Main!SetConfirmDelete
  <2> HIDE DEF u
  <2> QED
    BY <1>1, <2>1, <2>2
<1> QED
  BY <1>2, <1>3, <1>4, <1>5, <1>6, <1>7, <1>8

(***************************************************************************)
(* The main window: profiles and the connection                            *)
(***************************************************************************)

\* The facts a step of the window starts from.
LEMMA MainFacts ==
    ASSUME MainState
    PROVE  /\ mainWin \in Desks /\ Sound(mainWin, session) /\ mainWin.prof = mainWin.start.prof
           /\ saved \in [Main!Ids -> Accounts \cup {Main!NoProfile}] /\ session \in Hosts
           /\ Fits(mainWin)
  BY DEF MainState, Sound

\* A step of the window that selects another profile.
LEMMA Selecting ==
    ASSUME MainState, NEW w, Sound(w, session), NEW f,
           f \in [Main!Ids -> Accounts \cup {Main!NoProfile}], Main!Step(w, f),
           w.prof # w.start.prof /\ w.prof # "none" =>
             /\ f[w.prof] \in Accounts
             /\ w.connected => f[w.prof].remote = w.cur["remote"],
           session' = session, done' = done, w.task = mainWin.task, LocalReady(w, f)
    PROVE  MainState' /\ Main!DeletedWasAskedStep
<1>1. mainWin' = Main!EnforceStart(w, f) /\ saved' = f
  BY DEF Main!Step
<1>2. /\ Sound(mainWin', session) /\ mainWin'.start.prof = mainWin'.prof /\ LocalKept(mainWin')
      /\ mainWin'.task = w.task \/ mainWin'.task.kind = "list"
  BY <1>1, Enforcing
<1>3. MainState'
  BY <1>1, <1>2 DEF MainState, Main!ChangedWhereSeen
<1> QED
  BY <1>2, <1>3, Asked DEF Quiet

\* Another profile is selected.
LEMMA MainCycles ==
    ASSUME MainState, Main!CycleProfile
    PROVE  MainState' /\ Main!DeletedWasAskedStep
<1>0. /\ mainWin \in Desks /\ Sound(mainWin, session) /\ mainWin.prof = mainWin.start.prof
      /\ saved \in [Main!Ids -> Accounts \cup {Main!NoProfile}] /\ session \in Hosts
  BY MainFacts
<1>1. PICK i \in Main!Ids :
        /\ saved[i] # Main!NoProfile
        /\ Main!Step([mainWin EXCEPT !.prof = i, !.host = saved[i].host, !.secret = FALSE,
                             !.cur.local = saved[i].local, !.cur.remote = saved[i].remote,
                             !.typed["local"] = @ \/ i = mainWin.prof,
                             !.owner = Main!None, !.pending = Main!None], saved)
  BY DEF Main!CycleProfile
<1>2. ~mainWin.connected /\ session' = session /\ done' = done
  BY DEF Main!CycleProfile
<1>3. saved[i] \in Accounts /\ i \in {"p", "q", "none"}
  BY <1>0, <1>1 DEF Main!Ids
<1>4. saved[i].host \in Hosts /\ saved[i].local \in Paths /\ saved[i].remote \in Paths
  BY <1>3 DEF Accounts
<1> DEFINE b == (mainWin.typed["local"] \/ i = mainWin.prof)
           u == [mainWin EXCEPT !.prof = i, !.host = saved[i].host, !.secret = FALSE,
                             !.cur["local"] = saved[i].local, !.cur["remote"] = saved[i].remote,
                             !.typed["local"] = b,
                             !.owner = "none", !.pending = "none"]
<1>5. Main!Step(u, saved)
  BY <1>1 DEF Main!None
<1>b. b \in BOOLEAN
  OBVIOUS
<1>c. b = (mainWin.typed["local"] \/ i = mainWin.prof)
  OBVIOUS
<1> HIDE DEF b
<1>6. /\ u \in Desks /\ u.pending = "none" /\ u.last = mainWin.last
      /\ u.typed["remote"] = mainWin.typed["remote"] /\ u.typed["local"] = b
      /\ u.cur["local"] = saved[i].local /\ u.start = mainWin.start
      /\ u.connected = mainWin.connected /\ u.rows = mainWin.rows
      /\ u.sel = mainWin.sel /\ u.task = mainWin.task /\ u.prof = i
  BY <1>0, <1>3, <1>4, <1>b, SidesAre DEF Desks, Hosts
<1> HIDE DEF u
<1>7. Sound(u, session)
  BY <1>0, <1>2, <1>6 DEF Sound, Fits
<1>8. LocalReady(u, saved)
  <2>1. i # "none"
    BY <1>1 DEF Main!Ids
  <2>2. LocalKept(mainWin)
    BY DEF MainState
  <2>3. CASE u.typed["local"]
    BY <1>6, <2>2, <2>3 DEF LocalKept, LocalReady
  <2>4. CASE ~u.typed["local"]
    <3>1. ~mainWin.typed["local"] /\ i # mainWin.prof
      BY <1>6, <1>c, <2>4
    <3> QED
      BY <1>0, <1>6, <2>1, <2>2, <3>1 DEF LocalKept, LocalReady
  <2> QED
    BY <2>3, <2>4
<1> QED
  BY <1>0, <1>2, <1>3, <1>5, <1>6, <1>7, <1>8, Selecting

\* A profile is saved, once that was confirmed.
LEMMA MainSaves ==
    ASSUME MainState, Main!SaveProfile
    PROVE  MainState' /\ Main!DeletedWasAskedStep
<1>0. /\ mainWin \in Desks /\ Sound(mainWin, session) /\ mainWin.prof = mainWin.start.prof
      /\ saved \in [Main!Ids -> Accounts \cup {Main!NoProfile}] /\ session \in Hosts
  BY MainFacts
<1>1. session' = session /\ done' = done
  BY DEF Main!SaveProfile
<1>2. CASE mainWin.secret /\ mainWin.confirm.op # "save"
  <2> DEFINE q == [op |-> "save"]
             u == [mainWin EXCEPT !.confirm = q]
  <2>1. Main!Step(u, saved)
    BY <1>2 DEF Main!SaveProfile
  <2>2. q \in Questions
    BY DEF Questions
  <2> HIDE DEF q
  <2>3. /\ u \in Desks /\ u.pending = mainWin.pending /\ u.last = mainWin.last
             /\ u.typed = mainWin.typed
        /\ u.connected = mainWin.connected /\ u.rows = mainWin.rows /\ u.cur = mainWin.cur
        /\ u.sel = mainWin.sel /\ u.task = mainWin.task
        /\ u.prof = mainWin.prof /\ u.start = mainWin.start
    BY <1>0, <2>2 DEF Desks
  <2> HIDE DEF u
  <2>4. Sound(u, session)
    BY <1>0, <2>3, Tuned
  <2> QED
    BY <1>0, <1>1, <2>1, <2>3, <2>4, Stepping
<1>3. CASE ~(mainWin.secret /\ mainWin.confirm.op # "save")
  <2> DEFINE c == IF mainWin.secret THEN Main!NothingDone ELSE mainWin.confirm
             a == [host |-> mainWin.host, local |-> mainWin.cur["local"],
               remote |-> mainWin.cur["remote"]]
  <2>1. PICK i \in Main!Ids :
          Main!Step([[mainWin EXCEPT !.confirm = IF mainWin.secret THEN Main!NothingDone ELSE @,
            !.secret = FALSE]
                       EXCEPT !.prof = i], [saved EXCEPT ![i] = a])
    <3>1. mainWin.prof # Main!None => mainWin.prof \in Main!Ids
      BY <1>0 DEF Desks, Main!None, Main!Ids
    <3>2. PICK i \in IF mainWin.prof # Main!None THEN {mainWin.prof} ELSE {j \in Main!Ids :
            saved[j] = Main!NoProfile} :
            Main!Step([[mainWin EXCEPT !.confirm = IF mainWin.secret THEN Main!NothingDone
              ELSE @, !.secret = FALSE]
                       EXCEPT !.prof = i], [saved EXCEPT ![i] = a])
      BY <1>3 DEF Main!SaveProfile
    <3> QED
      BY <3>1, <3>2
  <2> DEFINE u == [mainWin EXCEPT !.confirm = c, !.secret = FALSE, !.prof = i]
             f == [saved EXCEPT ![i] = a]
  <2>2. [[mainWin EXCEPT !.confirm = IF mainWin.secret THEN Main!NothingDone ELSE @,
          !.secret = FALSE]
                       EXCEPT !.prof = i] = u
    BY <1>0 DEF Desks
  <2>3. Main!Step(u, f)
    BY <2>1, <2>2
  <2>4. c \in Questions /\ i \in {"p", "q", "none"} /\ i # "none"
    BY <1>0, <2>1 DEF Desks, Questions, Main!Ids
  <2>5. a \in Accounts /\ a.remote = mainWin.cur["remote"]
    BY <1>0, SidesAre DEF Desks, Accounts
  <2> HIDE DEF c, a
  <2>6. /\ u \in Desks /\ u.pending = mainWin.pending /\ u.last = mainWin.last
             /\ u.typed = mainWin.typed
        /\ u.connected = mainWin.connected /\ u.rows = mainWin.rows /\ u.cur = mainWin.cur
        /\ u.sel = mainWin.sel /\ u.task = mainWin.task
        /\ u.prof = i /\ u.start = mainWin.start
    BY <1>0, <2>4 DEF Desks
  <2>7. f \in [Main!Ids -> Accounts \cup {Main!NoProfile}] /\ f[i] = a
    BY <1>0, <2>1, <2>5
  <2> HIDE DEF u, f
  <2>8. Sound(u, session)
    BY <1>0, <2>6, Tuned
  <2>9. LocalReady(u, f)
    BY <2>6 DEF MainState, LocalKept, LocalReady
  <2> QED
    BY <1>1, <2>3, <2>5, <2>6, <2>7, <2>8, <2>9, Selecting
<1> QED
  BY <1>2, <1>3

\* A profile is removed.
LEMMA MainRemoves ==
    ASSUME MainState, Main!RemoveProfile
    PROVE  MainState' /\ Main!DeletedWasAskedStep
<1>0. /\ mainWin \in Desks /\ Sound(mainWin, session) /\ mainWin.prof = mainWin.start.prof
      /\ saved \in [Main!Ids -> Accounts \cup {Main!NoProfile}] /\ session \in Hosts
  BY MainFacts
<1> DEFINE u == [mainWin EXCEPT !.prof = "none"]
           f == [saved EXCEPT ![mainWin.prof] = Main!NoProfile]
<1>1. session' = session /\ done' = done /\ Main!Step(u, f)
  BY DEF Main!RemoveProfile, Main!None
<1>2. /\ u \in Desks /\ u.pending = mainWin.pending /\ u.last = mainWin.last
           /\ u.typed = mainWin.typed
      /\ u.connected = mainWin.connected /\ u.rows = mainWin.rows /\ u.cur = mainWin.cur
      /\ u.sel = mainWin.sel /\ u.task = mainWin.task /\ u.prof = "none"
      /\ u.start = mainWin.start
  BY <1>0 DEF Desks
<1>3. f \in [Main!Ids -> Accounts \cup {Main!NoProfile}]
  BY <1>0
<1> HIDE DEF u, f
<1>4. Sound(u, session)
  BY <1>0, <1>2, Tuned
<1>5. LocalReady(u, f)
  BY <1>2 DEF MainState, LocalKept, LocalReady
<1> QED
  BY <1>1, <1>2, <1>3, <1>4, <1>5, Selecting

\* A connection goes to the server of the question, or to the one of the fields.
LEMMA MainConnects ==
    ASSUME MainState, NEW x, x \in {"none", mainWin.pending},
           x = "none" => mainWin.pending = "none" \/ mainWin.connected,
           Main!Step(Main!ConnectTo(mainWin, x), saved), session' = session, done' = done
    PROVE  MainState' /\ Main!DeletedWasAskedStep
<1>0. /\ mainWin \in Desks /\ Sound(mainWin, session) /\ mainWin.prof = mainWin.start.prof
      /\ saved \in [Main!Ids -> Accounts \cup {Main!NoProfile}] /\ session \in Hosts
  BY MainFacts
<1>1. CASE mainWin.busy \/ mainWin.connected
  <2>1. Main!Step(mainWin, saved)
    BY <1>1 DEF Main!ConnectTo
  <2> QED
    BY <1>0, <2>1, Stepping
<1>2. CASE ~(mainWin.busy \/ mainWin.connected)
  <2> DEFINE a == IF x # "none" THEN mainWin.last ELSE mainWin.host
             t == [kind |-> "connect", server |-> a, trust |-> x, state |-> "runs"]
             u == [mainWin EXCEPT !.last = a, !.secret = FALSE, !.busy = TRUE, !.task = t]
  <2>1. [[mainWin EXCEPT !.last = a, !.secret = FALSE] EXCEPT !.busy = TRUE, !.task = t] = u
    BY <1>0 DEF Desks
  <2>2. Main!Step(u, saved)
    BY <1>2, <2>1 DEF Main!ConnectTo, Main!Start, Main!None
  <2>3. a \in Hosts /\ mainWin.pending \in {"none", mainWin.last} /\ x \in Hosts
        /\ x \in {"none", a} /\ mainWin.pending \in {"none", a}
    BY <1>0, <1>2 DEF Sound, Desks, Hosts
  <2> HIDE DEF a
  <2>4. t \in Work /\ t.kind = "connect" /\ t.server = a /\ t.trust = x
    BY <2>3 DEF Work, Connecting, States
  <2> HIDE DEF t
  <2>5. /\ u \in Desks /\ u.pending = mainWin.pending /\ u.last = a /\ u.typed = mainWin.typed
        /\ u.connected = mainWin.connected /\ u.rows = mainWin.rows /\ u.cur = mainWin.cur
        /\ u.sel = mainWin.sel /\ u.task = t /\ u.prof = mainWin.prof /\ u.start = mainWin.start
    BY <1>0, <2>3, <2>4 DEF Desks
  <2> HIDE DEF u
  <2>6. Sound(u, session)
    BY <1>0, <1>2, <2>3, <2>4, <2>5 DEF Sound, Fits
  <2> QED
    BY <1>0, <2>2, <2>4, <2>5, <2>6, Stepping
<1> QED
  BY <1>1, <1>2

\* A connection is asked for, with a host key that was shown or without.
LEMMA MainTrusts ==
    ASSUME MainState, Main!ConnectClick \/ Main!TrustOrConnect
    PROVE  MainState' /\ Main!DeletedWasAskedStep
<1>1. CASE Main!ConnectClick
  <2>1. /\ mainWin.pending = "none" \/ mainWin.connected
        /\ Main!Step(Main!ConnectTo(mainWin, "none"), saved) /\ session' = session /\ done' = done
    BY <1>1 DEF Main!ConnectClick, Main!Mouse, Main!None
  <2> QED
    BY <2>1, MainConnects
<1>2. CASE Main!TrustOrConnect
  <2>1. /\ Main!Step(Main!ConnectTo(mainWin, mainWin.pending), saved) /\ session' = session
             /\ done' = done
    BY <1>2 DEF Main!TrustOrConnect
  <2> QED
    BY <2>1, MainConnects
<1> QED
  BY <1>1, <1>2

\* The session is ended, or a pane listed again.
LEMMA MainLeaves ==
    ASSUME MainState, Main!Disconnect \/ \E p \in Main!Sides : Main!RefreshClick(p)
    PROVE  MainState' /\ Main!DeletedWasAskedStep
<1>0. /\ mainWin \in Desks /\ Sound(mainWin, session) /\ mainWin.prof = mainWin.start.prof
      /\ saved \in [Main!Ids -> Accounts \cup {Main!NoProfile}] /\ session \in Hosts
  BY MainFacts
<1>1. CASE Main!Disconnect
  <2> DEFINE t == [kind |-> "leave", state |-> "runs"]
             u == [mainWin EXCEPT !.busy = TRUE, !.task = t]
  <2>1. t \in Work /\ t.kind = "leave"
    BY DEF Work, Leaving, States
  <2>2. Main!Step(u, saved) /\ session' = session /\ done' = done
    BY <1>1 DEF Main!Disconnect, Main!Start
  <2> HIDE DEF t
  <2>3. /\ u.task = t /\ u.prof = mainWin.prof /\ u.start = mainWin.start
        /\ u.rows = mainWin.rows /\ u.cur = mainWin.cur /\ u.typed = mainWin.typed
    BY <1>0 DEF Desks
  <2>4. Fits(u)
    BY <2>1, <2>3 DEF Fits
  <2>5. Sound(u, session)
    BY <1>0, <2>1, <2>4, Starting
  <2> HIDE DEF u
  <2> QED
    BY <1>0, <2>1, <2>2, <2>3, <2>5, Stepping
<1>2. ASSUME NEW p \in Main!Sides, Main!RefreshClick(p)
      PROVE  MainState' /\ Main!DeletedWasAskedStep
  <2>1. PICK d \in Paths : Main!Step(Main!Refresh(mainWin, p, d), saved)
    BY <1>2 DEF Main!RefreshClick, Paths, Main!LocalDirs, Main!RemoteDirs
  <2>2. session' = session /\ done' = done
    BY <1>2 DEF Main!RefreshClick
  <2> DEFINE u == Main!Refresh(mainWin, p, d)
  <2>3. /\ Sound(u, session) /\ u.prof = mainWin.prof /\ u.start = mainWin.start
        /\ u.rows = mainWin.rows /\ u.cur = mainWin.cur /\ u.typed = mainWin.typed
        /\ u.task = mainWin.task \/ u.task.kind = "list"
    BY <1>0, RefreshSound
  <2>4. Main!Step(u, saved)
    BY <2>1
  <2> HIDE DEF u
  <2> QED
    BY <1>0, <2>2, <2>3, <2>4, Stepping
<1> QED
  BY <1>1, <1>2

(***************************************************************************)
(* The main window: changes of files, and the work                         *)
(***************************************************************************)

\* What a change of a remote file was asked on.
LEMMA SeenTyped ==
    ASSUME MainState
    PROVE  /\ Main!Seen("remote") \in Sheets
           /\ Main!Seen("remote") = [server |-> mainWin.rows["remote"].server,
                                     dir |-> mainWin.rows["remote"].dir]
<1>1. mainWin.rows["remote"] \in Sheets
  BY MainFacts, SidesAre DEF Desks
<1> QED
  BY <1>1 DEF Main!Seen, Sheets

\* A remote change is started in the window w, which differs in what is asked.
LEMMA RemoteChanging ==
    ASSUME MainState, NEW w, Sound(w, session), w.prof = w.start.prof,
           w.rows = mainWin.rows, w.sel = mainWin.sel, w.typed = mainWin.typed,
           w.start = mainWin.start,
           w.cur = mainWin.cur, w.task = mainWin.task,
           NEW o \in Three \cup {"mkdir"}, o \in Three => mainWin.sel["remote"],
           o = "delete" => /\ mainWin.asks => Main!Asked("remote")
                           /\ w.confirm = Main!NothingDone,
           Main!RemoteChange(o, w), session' = session
    PROVE  MainState' /\ Main!DeletedWasAskedStep
<1>0. saved \in [Main!Ids -> Accounts \cup {Main!NoProfile}] /\ w \in Desks
  BY MainFacts DEF Sound
<1>1. done' = done
  BY DEF Main!RemoteChange
<1>2. CASE w.busy \/ ~w.connected
  <2>1. Main!Step(w, saved)
    BY <1>2 DEF Main!RemoteChange
  <2> QED
    BY <1>0, <1>1, <2>1, Stepping
<1>3. CASE ~(w.busy \/ ~w.connected)
  <2> DEFINE t == [kind |-> "change", op |-> o, dir |-> w.cur["remote"],
        seen |-> Main!Seen("remote"),
                   state |-> "runs"]
             u == [w EXCEPT !.busy = TRUE, !.task = t]
  <2>1. Main!Step(u, saved)
    BY <1>3 DEF Main!RemoteChange, Main!Start
  <2>2. w.cur["remote"] \in Paths
    BY <1>0, SidesAre DEF Desks
  <2>3. t \in Work /\ t.kind = "change" /\ t.op = o /\ t.seen = Main!Seen("remote")
    BY <2>2, SeenTyped DEF Work, Changing, States
  <2>9. t.dir = w.cur["remote"]
    OBVIOUS
  <2> HIDE DEF t
  <2>4. u.task = t /\ u.prof = w.prof /\ u.start = w.start /\ u.connected = w.connected
        /\ u.rows = w.rows /\ u.confirm = w.confirm /\ u.cur = w.cur /\ u.typed = w.typed
    BY <1>0 DEF Desks
  <2>5. mainWin.sel["remote"] => mainWin.rows["remote"] # Main!NoRows
    BY MainFacts DEF Sound
  <2>6. Fits(u)
    BY <1>3, <2>3, <2>4, <2>5, SeenTyped DEF Fits
  <2>7. Sound(u, session)
    BY <2>3, <2>6, Starting
  <2> HIDE DEF u
  <2>8. /\ MainState' /\ mainWin'.confirm = w.confirm
        /\ mainWin'.task = t \/ mainWin'.task.kind = "list"
    BY <1>0, <1>1, <2>1, <2>4, <2>7, Stepping
  <2>10. ASSUME mainWin'.task.kind = "change", mainWin'.task.op = "delete", mainWin.asks
         PROVE  /\ \E on \in Servers \cup {Main!None} :
                     mainWin.confirm = [op |-> "delete", side |-> "remote",
                       dir |-> mainWin'.task.dir, on |-> on]
                /\ mainWin'.confirm = Main!NothingDone
    <3>1. mainWin'.task = t /\ o = "delete" /\ mainWin'.task.dir = mainWin.cur["remote"]
      BY <2>3, <2>8, <2>9, <2>10
    <3>2. PICK on \in Servers \cup {Main!None} : mainWin.confirm = Main!Key("remote", on)
      BY <2>10, <3>1 DEF Main!Asked
    <3> QED
      BY <2>8, <3>1, <3>2 DEF Main!Key
  <2>11. Main!DeletedWasAskedStep
    BY <1>1, <2>10 DEF Main!DeletedWasAskedStep, Main!DeletesLocal, Main!DeletesRemote
  <2> QED
    BY <2>8, <2>11
<1> QED
  BY <1>2, <1>3

\* A local change is made at once.
LEMMA LocalChanging ==
    ASSUME MainState, NEW w, Sound(w, session), w.prof = w.start.prof, w.cur = mainWin.cur,
           w.task = mainWin.task, w.rows = mainWin.rows, w.typed = mainWin.typed,
           w.start = mainWin.start,
           NEW o, o = "delete" => /\ mainWin.asks => Main!Asked("local")
                                  /\ w.confirm = Main!NothingDone,
           Main!LocalChange(o, w), session' = session
    PROVE  MainState' /\ Main!DeletedWasAskedStep
<1>0. saved \in [Main!Ids -> Accounts \cup {Main!NoProfile}] /\ w \in Desks
        /\ w.cur["local"] \in Paths
  BY MainFacts, SidesAre DEF Sound, Desks
<1>1. CASE done' = done /\ Main!Step(w, saved)
  <2> QED
    BY <1>0, <1>1, Stepping
<1>2. CASE /\ done' = Main!Change(o, "local", w.cur["local"], Main!Seen("local"))
           /\ Main!Step(Main!Refresh(w, "local", w.cur["local"]), saved)
  <2>1. done'.side = "local" /\ done'.op = o /\ done'.dir = w.cur["local"]
    BY <1>2 DEF Main!Change
  <2>2. Main!ChangedWhereSeen'
    <3>1. /\ done'.server = "none" /\ done'.typed = mainWin.typed["local"]
          /\ done'.seen.server = mainWin.rows["local"].server
          /\ done'.seen.dir = mainWin.rows["local"].dir
      BY <1>2 DEF Main!Change, Main!Seen, Main!None
    <3>2. /\ mainWin.rows["local"].server = "none"
          /\ mainWin.typed["local"] \/ mainWin.rows["local"].dir = mainWin.cur["local"]
      BY DEF MainState, LocalKept
    <3> QED
      BY <2>1, <3>1, <3>2 DEF Main!ChangedWhereSeen
  <2> DEFINE u == Main!Refresh(w, "local", w.cur["local"])
  <2>3. /\ Sound(u, session) /\ u.prof = w.prof /\ u.start = w.start /\ u.confirm = w.confirm
        /\ u.rows = w.rows /\ u.cur = w.cur /\ u.typed = w.typed
        /\ u.task = w.task \/ u.task.kind = "list"
    BY <1>0, SidesAre, RefreshSound
  <2>4. Main!Step(u, saved)
    BY <1>2
  <2> HIDE DEF u
  <2>9. done'.side = "local" /\ w.cur["local"] = mainWin.cur["local"]
    BY <2>1
  <2>5. /\ MainState' /\ mainWin'.confirm = u.confirm
        /\ mainWin'.task = u.task \/ mainWin'.task.kind = "list"
    BY <1>0, <2>2, <2>3, <2>4, Stepping
  <2>6. ~Main!DeletesRemote
    BY <2>3, <2>5, WorkTyped DEF Main!DeletesRemote
  <2>7. ASSUME o = "delete", mainWin.asks
        PROVE  /\ \E on \in Servers \cup {Main!None} :
                    mainWin.confirm = [op |-> "delete", side |-> "local", dir |-> done'.dir,
                      on |-> on]
               /\ mainWin'.confirm = Main!NothingDone
    <3>1. PICK on \in Servers \cup {Main!None} : mainWin.confirm = Main!Key("local", on)
      BY <2>7 DEF Main!Asked
    <3> QED
      BY <2>1, <2>3, <2>5, <2>7, <2>9, <3>1 DEF Main!Key
  <2>8. Main!DeletedWasAskedStep
    BY <2>1, <2>6, <2>7 DEF Main!DeletedWasAskedStep, Main!DeletesLocal
  <2> QED
    BY <2>5, <2>8
<1> QED
  BY <1>1, <1>2 DEF Main!LocalChange

\* A change is asked for: in the directory of the rows, unless a path was typed.
LEMMA MainChanges ==
    ASSUME MainState, Main!SubmitPrompt \/ \E p \in Main!Sides : Main!Delete(p)
    PROVE  MainState' /\ Main!DeletedWasAskedStep
<1>0. /\ mainWin \in Desks /\ Sound(mainWin, session) /\ mainWin.prof = mainWin.start.prof
      /\ saved \in [Main!Ids -> Accounts \cup {Main!NoProfile}] /\ session \in Hosts
  BY MainFacts
<1>1. CASE Main!SubmitPrompt
  <2> DEFINE u == [mainWin EXCEPT !.prompt = Main!NothingDone]
  <2>1. /\ u \in Desks /\ u.pending = mainWin.pending /\ u.last = mainWin.last
             /\ u.typed = mainWin.typed
        /\ u.connected = mainWin.connected /\ u.rows = mainWin.rows /\ u.cur = mainWin.cur
        /\ u.sel = mainWin.sel /\ u.task = mainWin.task
        /\ u.prof = mainWin.prof /\ u.start = mainWin.start
    BY <1>0 DEF Desks, Prompts
  <2>2. /\ mainWin.prompt # Main!NothingDone /\ session' = session
        /\ IF mainWin.prompt.op # "mkdir" /\ ~mainWin.sel[mainWin.prompt.side]
           THEN Main!Step(u, saved) /\ done' = done
           ELSE Main!Apply(mainWin.prompt.op, mainWin.prompt.side, u)
    BY <1>1 DEF Main!SubmitPrompt
  <2> HIDE DEF u
  <2>3. Sound(u, session)
    BY <1>0, <2>1, Tuned
  <2>4. mainWin.prompt \in [op : {"mkdir", "rename", "chmod"}, side : Main!Sides]
    BY <1>0, <2>2 DEF Desks, Prompts
  <2> DEFINE o == mainWin.prompt.op
             p == mainWin.prompt.side
  <2>5. o \in {"mkdir", "rename", "chmod"} /\ p \in {"local", "remote"}
    BY <2>4, SidesAre
  <2>6. CASE Main!Step(u, saved) /\ done' = done
    <3> QED
      BY <1>0, <2>1, <2>2, <2>3, <2>6, Stepping
  <2>7. CASE Main!Apply(o, p, u) /\ (o = "mkdir" \/ mainWin.sel[p])
    <3> HIDE DEF o, p
    <3>1. CASE p = "local"
      <4>1. Main!LocalChange(o, u) /\ o # "delete"
        BY <2>5, <2>7, <3>1 DEF Main!Apply
      <4> QED
        BY <1>0, <2>1, <2>2, <2>3, <4>1, LocalChanging
    <3>2. CASE p = "remote"
      <4>1. Main!RemoteChange(o, u) /\ o \in Three \cup {"mkdir"}
              /\ (o \in Three => mainWin.sel["remote"])
        BY <2>5, <2>7, <3>2 DEF Main!Apply, Three
      <4> QED
        BY <1>0, <2>1, <2>2, <2>3, <2>5, <4>1, RemoteChanging
    <3> QED
      BY <2>5, <3>1, <3>2
  <2> QED
    BY <2>2, <2>6, <2>7
<1>2. ASSUME NEW p \in Main!Sides, Main!Delete(p)
      PROVE  MainState' /\ Main!DeletedWasAskedStep
  <2>1. session' = session /\ mainWin.sel[p]
    BY <1>2 DEF Main!Delete
  <2>2. CASE /\ ~mainWin.asks \/ Main!Asked(p)
             /\ Main!Apply("delete", p, [mainWin EXCEPT !.confirm = Main!NothingDone])
    <3> DEFINE u == [mainWin EXCEPT !.confirm = Main!NothingDone]
    <3>1. /\ u \in Desks /\ u.pending = mainWin.pending /\ u.last = mainWin.last
               /\ u.typed = mainWin.typed
          /\ u.connected = mainWin.connected /\ u.rows = mainWin.rows /\ u.cur = mainWin.cur
          /\ u.sel = mainWin.sel /\ u.task = mainWin.task /\ u.confirm = Main!NothingDone
          /\ u.prof = mainWin.prof /\ u.start = mainWin.start
      BY <1>0 DEF Desks, Questions
    <3>2. Main!Apply("delete", p, u)
      BY <2>2
    <3> HIDE DEF u
    <3>3. Sound(u, session)
      BY <1>0, <3>1, Tuned
    <3>6. mainWin.asks => Main!Asked(p)
      BY <2>2
    <3>4. CASE p = "local"
      <4>1. Main!LocalChange("delete", u)
        BY <3>2, <3>4 DEF Main!Apply
      <4> QED
        BY <1>0, <2>1, <3>1, <3>3, <3>4, <3>6, <4>1, LocalChanging
    <3>5. CASE p = "remote"
      <4>1. Main!RemoteChange("delete", u) /\ "delete" \in Three \cup {"mkdir"}
        BY <3>2, <3>5 DEF Main!Apply, Three
      <4> QED
        BY <1>0, <2>1, <3>1, <3>3, <3>5, <3>6, <4>1, RemoteChanging
    <3> QED
      BY <3>4, <3>5, SidesAre
  <2>3. CASE Main!Step([mainWin EXCEPT !.confirm = Main!Key(p,
             IF p = "local" THEN Main!None ELSE session)],
                       saved) /\ done' = done
    <3> DEFINE q == Main!Key(p, IF p = "local" THEN Main!None ELSE session)
               u == [mainWin EXCEPT !.confirm = q]
    <3>1. Main!Step(u, saved) /\ done' = done
      BY <2>3
    <3>2. q \in Questions
      <4>1. mainWin.cur[p] \in Paths
        BY <1>0 DEF Desks
      <4> QED
        BY <1>0, <4>1 DEF Main!Key, Questions, Hosts, Main!None
    <3> HIDE DEF q
    <3>3. /\ u \in Desks /\ u.pending = mainWin.pending /\ u.last = mainWin.last
               /\ u.typed = mainWin.typed
          /\ u.connected = mainWin.connected /\ u.rows = mainWin.rows /\ u.cur = mainWin.cur
          /\ u.sel = mainWin.sel /\ u.task = mainWin.task
          /\ u.prof = mainWin.prof /\ u.start = mainWin.start
      BY <1>0, <3>2 DEF Desks
    <3> HIDE DEF u
    <3>4. Sound(u, session)
      BY <1>0, <3>3, Tuned
    <3> QED
      BY <1>0, <2>1, <3>1, <3>3, <3>4, Stepping
  <2> QED
    BY <1>2, <2>2, <2>3 DEF Main!Delete
<1> QED
  BY <1>1, <1>2

\* The state of a task is replaced.
LEMMA Ending ==
    ASSUME NEW t \in Work, t # Main!NoTask, NEW r \in States
    PROVE  LET e == [t EXCEPT !.state = r] IN
           /\ e \in Work /\ e.kind = t.kind
           /\ t.kind = "connect" => e.server = t.server /\ e.trust = t.trust
           /\ t.kind = "list" => e.side = t.side
           /\ t.kind = "change" => e.op = t.op /\ e.seen = t.seen
<1>1. CASE t \in Connecting
  BY <1>1 DEF Work, Connecting
<1>2. CASE t \in Leaving
  BY <1>2 DEF Work, Leaving
<1>3. CASE t \in Listing
  BY <1>3 DEF Work, Listing
<1>4. CASE t \in Changing
  BY <1>4 DEF Work, Changing
<1> QED
  BY <1>1, <1>2, <1>3, <1>4 DEF Work

\* The goroutine of the task does its work.
LEMMA MainWorks ==
    ASSUME MainState, Main!Works
    PROVE  MainState' /\ Main!DeletedWasAskedStep
<1>0. /\ mainWin \in Desks /\ Sound(mainWin, session) /\ mainWin.prof = mainWin.start.prof
      /\ saved \in [Main!Ids -> Accounts \cup {Main!NoProfile}] /\ session \in Hosts
           /\ Fits(mainWin)
  BY MainFacts
<1> DEFINE t == mainWin.task
<1>1. t \in Work /\ t # Main!NoTask
  BY <1>0 DEF Main!Works, Desks
<1>2. ASSUME NEW r \in States, Main!Ended(t, r), session' \in Hosts,
             session' \in {"none", session} \/ ~mainWin.connected,
             Main!ChangedWhereSeen'
      PROVE  MainState' /\ mainWin'.task.kind = t.kind /\ ~Main!DeletesRemote
  <2> DEFINE e == [t EXCEPT !.state = r]
             u == [mainWin EXCEPT !.task = e]
  <2>1. mainWin' = u /\ saved' = saved
    BY <1>2 DEF Main!Ended
  <2>2. /\ e \in Work /\ e.kind = t.kind
        /\ t.kind = "connect" => e.server = t.server /\ e.trust = t.trust
        /\ t.kind = "list" => e.side = t.side
        /\ t.kind = "change" => e.op = t.op /\ e.seen = t.seen
    BY <1>1, Ending
  <2> HIDE DEF e
  <2>3. /\ u \in Desks /\ u.pending = mainWin.pending /\ u.last = mainWin.last
             /\ u.typed = mainWin.typed
        /\ u.connected = mainWin.connected /\ u.rows = mainWin.rows /\ u.cur = mainWin.cur
        /\ u.sel = mainWin.sel /\ u.task = e
        /\ u.prof = mainWin.prof /\ u.start = mainWin.start
    BY <1>0, <2>2 DEF Desks
  <2> HIDE DEF u
  <2>4. Fits(u)
    BY <1>0, <2>2, <2>3 DEF Fits
  <2>5. Sound(u, session')
    BY <1>0, <1>2, <2>3, <2>4 DEF Sound
  <2>6. ~Main!DeletesRemote
    BY <1>1 DEF Main!DeletesRemote
  <2> QED
    BY <1>0, <1>2, <2>1, <2>2, <2>3, <2>5, <2>6 DEF MainState, LocalKept
<1>3. ASSUME done' = done
      PROVE  Main!ChangedWhereSeen' /\ (~Main!DeletesRemote => Main!DeletedWasAskedStep)
  BY <1>3 DEF MainState, Main!ChangedWhereSeen, Main!DeletedWasAskedStep, Main!DeletesLocal
<1>4. CASE Main!Connects(t)
  <2>1. t.server \in Hosts /\ ~mainWin.connected /\ done' = done
    <3>1. t.kind = "connect" /\ done' = done
      BY <1>4 DEF Main!Connects
    <3>2. t \in Connecting
      BY <1>1, <3>1 DEF Work, Connecting, Leaving, Listing, Changing
    <3> QED
      BY <1>0, <3>1, <3>2 DEF Connecting, Fits
  <2>2. PICK r \in States : Main!Ended(t, r) /\ session' \in {session, t.server}
    BY <1>4 DEF Main!Connects, States
  <2> QED
    BY <1>0, <1>2, <1>3, <2>1, <2>2
<1>5. CASE Main!Leaves(t)
  <2>1. PICK r \in States : Main!Ended(t, r) /\ session' \in {session, "none"}
    BY <1>5 DEF Main!Leaves, States, Main!None
  <2>2. done' = done
    BY <1>5 DEF Main!Leaves
  <2> QED
    BY <1>0, <1>2, <1>3, <2>1, <2>2 DEF Hosts
<1>6. CASE Main!Lists(t)
  <2>1. PICK r \in States : Main!Ended(t, r)
    BY <1>6 DEF Main!Lists, States
  <2>2. done' = done /\ session' = session
    BY <1>6 DEF Main!Lists
  <2> QED
    BY <1>0, <1>2, <1>3, <2>1, <2>2
<1>7. CASE Main!Changes(t)
  <2>1. session' = session /\ t.kind = "change"
    BY <1>7 DEF Main!Changes
  <2>2. CASE done' = done /\ Main!Ended(t, "failed")
    BY <1>0, <1>2, <1>3, <2>1, <2>2 DEF States
  <2>3. CASE /\ session # "none"
                /\ done' = Main!Change(t.op, "remote", mainWin.cur["remote"], t.seen)
             /\ \E r \in {"ok", "failed"} : Main!Ended(t, r)
    <3>0. mainWin.typed["remote"] \in BOOLEAN
      BY <1>0, SidesAre DEF Desks
    <3>1. PICK r \in States : Main!Ended(t, r)
      BY <2>3 DEF States
    <3>2. /\ done'.op = t.op /\ done'.side = "remote" /\ done'.server = session
          /\ done'.dir = mainWin.cur["remote"] /\ done'.seen = t.seen
          /\ done'.typed = mainWin.typed["remote"]
      BY <2>3 DEF Main!Change
    <3>3. ~Main!DeletesRemote => Main!DeletedWasAskedStep
      BY <3>2 DEF Main!DeletedWasAskedStep, Main!DeletesLocal
    <3>4. Main!ChangedWhereSeen'
      <4> SUFFICES ASSUME t.op \in Three
                   PROVE  /\ t.seen.server = session
                          /\ mainWin.typed["remote"] \/ t.seen.dir = mainWin.cur["remote"]
        BY <3>2 DEF Main!ChangedWhereSeen, Three
      <4> QED
        BY <1>0, <2>1, <2>3 DEF Fits, Sound
    <3> QED
      BY <1>0, <1>2, <2>1, <3>1, <3>3, <3>4
  <2> QED
    BY <1>7, <2>2, <2>3 DEF Main!Changes, Main!None
<1> QED
  BY <1>4, <1>5, <1>6, <1>7 DEF Main!Works

(***************************************************************************)
(* The main window: results                                                *)
(***************************************************************************)

\* A listing that is accepted shows the directory of the session.
LEMMA ListedSound ==
    ASSUME NEW w, Sound(w, session), session \in Hosts, NEW p \in Main!Sides, NEW d \in Paths,
           p = "remote" => w.connected, w.task = Main!NoTask
    PROVE  LET u == Main!Listed(w, p, d) IN
           /\ Sound(u, session) /\ u.prof = w.prof /\ u.start = w.start /\ u.task = w.task
           /\ u.busy = w.busy
           /\ \/ /\ u.rows["local"] = w.rows["local"] /\ u.cur["local"] = w.cur["local"]
                 /\ u.typed["local"] = w.typed["local"]
              \/ u.rows["local"].server = "none" /\ u.rows["local"].dir = u.cur["local"]
<1> DEFINE r == [server |-> IF p = "remote" THEN session ELSE "none", dir |-> d]
           o == IF p = "remote" THEN session ELSE w.owner
           u == [w EXCEPT !.cur[p] = d, !.sel[p] = FALSE, !.typed[p] = FALSE, !.owner = o,
             !.rows[p] = r]
<1>1. Main!Listed(w, p, d) = u
  BY DEF Main!Listed, Main!None, Sound, Desks
<1>2. /\ r \in Sheets /\ r # Main!NoRows /\ r.dir = d
           /\ r.server = IF p = "remote" THEN session ELSE "none"
      /\ o \in Hosts
  <2>1. d # "none"
    BY DEF Paths
  <2> QED
    BY <2>1 DEF Sheets, Hosts, Main!NoRows, Main!None, Sound, Desks
<1> HIDE DEF r, o
<1>3. /\ u \in Desks /\ u.pending = w.pending /\ u.last = w.last
      /\ u.typed = [w.typed EXCEPT ![p] = FALSE]
      /\ u.connected = w.connected /\ u.task = w.task
      /\ u.prof = w.prof /\ u.start = w.start /\ u.busy = w.busy
      /\ u.cur = [w.cur EXCEPT ![p] = d] /\ u.sel = [w.sel EXCEPT ![p] = FALSE]
      /\ u.rows = [w.rows EXCEPT ![p] = r]
  <2>1. w \in Desks /\ w.cur \in [Main!Sides -> Paths] /\ w.sel \in [Main!Sides -> BOOLEAN]
        /\ w.typed \in [Main!Sides -> BOOLEAN] /\ w.rows \in [Main!Sides -> Sheets]
    BY DEF Sound, Desks
  <2>2. /\ [w.cur EXCEPT ![p] = d] \in [Main!Sides -> Paths]
        /\ [w.sel EXCEPT ![p] = FALSE] \in [Main!Sides -> BOOLEAN]
        /\ [w.typed EXCEPT ![p] = FALSE] \in [Main!Sides -> BOOLEAN]
        /\ [w.rows EXCEPT ![p] = r] \in [Main!Sides -> Sheets]
    BY <1>2, <2>1
  <2>3. /\ u.pending = w.pending /\ u.last = w.last
        /\ u.connected = w.connected /\ u.task = w.task
        /\ u.prof = w.prof /\ u.start = w.start /\ u.busy = w.busy
    BY <2>1 DEF Desks
  <2>4. /\ u.typed = [w.typed EXCEPT ![p] = FALSE]
        /\ u.cur = [w.cur EXCEPT ![p] = d] /\ u.sel = [w.sel EXCEPT ![p] = FALSE]
        /\ u.rows = [w.rows EXCEPT ![p] = r]
    BY <2>1 DEF Desks
  <2>5. u \in Desks
    BY <1>2, <2>1, <2>2 DEF Desks
  <2> QED
    BY <2>3, <2>4, <2>5
<1> HIDE DEF u
<1>4. CASE p = "remote"
  <2>1. u.cur["remote"] = d /\ u.sel["remote"] = FALSE /\ u.rows["remote"] = r
    BY <1>3, <1>4, SidesAre DEF Sound, Desks
  <2>2. w.connected
    BY <1>4
  <2>3. Fits(u)
    BY <1>3, WorkTyped DEF Fits
  <2>4. /\ u.rows["local"] = w.rows["local"] /\ u.cur["local"] = w.cur["local"]
        /\ u.typed["local"] = w.typed["local"]
    BY <1>3, <1>4, SidesAre DEF Sound, Desks
  <2>5. Sound(u, session)
    <3>1. r.server = session /\ r # Main!NoRows /\ r.dir = d
      BY <1>2, <1>4
    <3> QED
      BY <1>3, <2>1, <2>2, <2>3, <3>1 DEF Sound
  <2> QED
    BY <1>1, <1>3, <2>4, <2>5
<1>5. CASE p # "remote"
  <2>1. /\ u.cur["remote"] = w.cur["remote"] /\ u.typed["remote"] = w.typed["remote"]
        /\ u.sel["remote"] = w.sel["remote"]
        /\ u.rows["remote"] = w.rows["remote"]
    BY <1>3, <1>5, SidesAre DEF Sound, Desks
  <2>2. u.rows["local"] = r /\ u.cur["local"] = d
    BY <1>3, <1>5, SidesAre DEF Sound, Desks
  <2> QED
    BY <1>1, <1>2, <1>3, <1>5, <2>1, <2>2 DEF Sound, Fits
<1> QED
  BY <1>4, <1>5

\* The event loop takes the result of the task.
LEMMA MainHandles ==
    ASSUME MainState, Main!HandleResult
    PROVE  MainState' /\ Main!DeletedWasAskedStep
<1>0. /\ mainWin \in Desks /\ Sound(mainWin, session) /\ mainWin.prof = mainWin.start.prof
      /\ saved \in [Main!Ids -> Accounts \cup {Main!NoProfile}] /\ session \in Hosts
           /\ Fits(mainWin)
  BY MainFacts
<1> DEFINE t == mainWin.task
           w == [mainWin EXCEPT !.busy = FALSE, !.task = Main!NoTask]
           u == Main!Accepted(w, t)
<1>1. /\ t \in Work /\ t # Main!NoTask /\ Main!Step(u, saved) /\ session' = session
           /\ done' = done
  BY <1>0 DEF Main!HandleResult, Desks
<1>2. /\ w \in Desks /\ w.pending = mainWin.pending /\ w.last = mainWin.last
           /\ w.typed = mainWin.typed
      /\ w.connected = mainWin.connected /\ w.rows = mainWin.rows /\ w.cur = mainWin.cur
      /\ w.sel = mainWin.sel /\ w.task = Main!NoTask
      /\ w.prof = mainWin.prof /\ w.start = mainWin.start /\ ~w.busy
  BY <1>0, WorkTyped DEF Desks
<1>3. Sound(w, session)
  BY <1>0, <1>2, WorkTyped DEF Sound, Fits
<1> HIDE DEF w
<1>4. /\ Sound(u, session) /\ u.prof = w.prof /\ u.start = w.start
      /\ u.task = w.task \/ u.task.kind = "list"
      /\ \/ /\ u.rows["local"] = w.rows["local"] /\ u.cur["local"] = w.cur["local"]
            /\ u.typed["local"] = w.typed["local"]
         \/ /\ u.rows["local"].server = "none" /\ u.rows["local"].dir = u.cur["local"]
            /\ ~u.busy
  <2>1. CASE t.kind = "connect" /\ t.state = "trust"
    <3> DEFINE v == [w EXCEPT !.pending = t.server]
    <3>1. u = v
      BY <2>1 DEF Main!Accepted
    <3>2. t.server = w.last /\ t.server \in Hosts
      BY <1>0, <1>2, <2>1 DEF Fits, Sound, Desks
    <3>3. /\ v \in Desks /\ v.pending = t.server /\ v.last = w.last /\ v.typed = w.typed
          /\ v.connected = w.connected /\ v.rows = w.rows /\ v.cur = w.cur
          /\ v.sel = w.sel /\ v.task = w.task
          /\ v.prof = w.prof /\ v.start = w.start
      BY <1>2, <3>2 DEF Desks
    <3> HIDE DEF u, v
    <3>4. Sound(v, session)
      BY <1>3, <3>2, <3>3 DEF Sound, Fits
    <3> QED
      BY <3>1, <3>3, <3>4
  <2>2. CASE t.kind = "connect" /\ t.state = "ok"
    <3> DEFINE v == [w EXCEPT !.connected = TRUE]
               d == w.cur["remote"]
    <3>1. u = Main!Refresh(v, "remote", d)
      BY <2>2 DEF Main!Accepted
    <3>2. ~w.connected /\ d \in Paths
      BY <1>0, <1>2, <2>2, SidesAre DEF Fits, Desks
    <3>3. /\ v \in Desks /\ v.pending = w.pending /\ v.last = w.last /\ v.typed = w.typed
          /\ v.connected = TRUE /\ v.rows = w.rows /\ v.cur = w.cur
          /\ v.sel = w.sel /\ v.task = w.task
          /\ v.prof = w.prof /\ v.start = w.start
      BY <1>2 DEF Desks
    <3> HIDE DEF u, v, d
    <3>4. Sound(v, session)
      BY <1>2, <1>3, <3>2, <3>3, WorkTyped DEF Sound, Fits
    <3> QED
      BY <3>1, <3>2, <3>3, <3>4, SidesAre, RefreshSound
  <2>3. CASE t.kind = "leave" /\ t.state = "ok"
    <3> DEFINE v == [w EXCEPT !.connected = FALSE, !.pending = "none",
          !.rows["remote"] = Main!NoRows,
                     !.sel["remote"] = FALSE]
    <3>1. u = v
      BY <2>3 DEF Main!Accepted, Main!Left, Main!None
    <3>2. Main!NoRows \in Sheets
      BY DEF Sheets, Hosts, Main!NoRows, Main!None
    <3>3. /\ v \in Desks /\ v.pending = "none" /\ v.last = w.last /\ v.typed = w.typed
          /\ v.connected = FALSE /\ v.rows["remote"] = Main!NoRows /\ v.cur = w.cur
          /\ v.rows["local"] = w.rows["local"]
          /\ v.sel["remote"] = FALSE /\ v.task = w.task
          /\ v.prof = w.prof /\ v.start = w.start
      BY <1>2, <3>2, SidesAre DEF Desks, Hosts
    <3> HIDE DEF u, v
    <3>4. Sound(v, session)
      BY <1>2, <1>3, <3>3, WorkTyped DEF Sound, Fits
    <3> QED
      BY <3>1, <3>3, <3>4
  <2>4. CASE t.kind = "list" /\ t.state = "ok"
    <3>1. u = Main!Listed(w, t.side, t.dir)
      BY <2>4 DEF Main!Accepted
    <3>2. t \in Listing
      BY <1>1, <2>4 DEF Work, Main!NoTask, Main!None, Connecting, Leaving, Listing, Changing
    <3>3. t.side \in Main!Sides /\ t.dir \in Paths /\ (t.side = "remote" => w.connected)
      BY <1>0, <1>2, <2>4, <3>2 DEF Listing, Fits
    <3> QED
      BY <1>0, <1>3, <3>1, <1>2, <3>3, ListedSound
  <2>5. CASE t.kind = "change" /\ t.state = "ok"
    <3>1. u = Main!Listed(w, "remote", t.dir)
      BY <2>5 DEF Main!Accepted
    <3>2. t \in Changing
      BY <1>1, <2>5 DEF Work, Main!NoTask, Main!None, Connecting, Leaving, Listing, Changing
    <3>3. t.dir \in Paths /\ w.connected
      BY <1>0, <1>2, <2>5, <3>2 DEF Changing, Fits
    <3> QED
      BY <1>0, <1>3, <3>1, <1>2, <3>3, SidesAre, ListedSound
  <2>6. CASE /\ ~(t.kind = "connect" /\ t.state = "trust")
                /\ ~(t.kind = "connect" /\ t.state = "ok")
             /\ ~(t.kind = "leave" /\ t.state = "ok") /\ ~(t.kind = "list" /\ t.state = "ok")
             /\ ~(t.kind = "change" /\ t.state = "ok")
    <3>1. u = w
      BY <2>6 DEF Main!Accepted
    <3> QED
      BY <1>3, <3>1
  <2> QED
    BY <2>1, <2>2, <2>3, <2>4, <2>5, <2>6
<1> HIDE DEF u
<1>5. LocalReady(u, saved)
  BY <1>0, <1>2, <1>4 DEF MainState, LocalKept, LocalReady
<1> QED
  BY <1>0, <1>1, <1>2, <1>4, <1>5, WorkTyped, Stepping

\* Every step keeps the invariant, and a deletion is the one that was confirmed.
LEMMA MainStep ==
    ASSUME MainState, Main!Next
    PROVE  MainState' /\ Main!DeletedWasAskedStep
<1>1. CASE Main!Clicks
  BY <1>1, MainCycles, MainSaves, MainRemoves, MainTrusts, MainLeaves, MainFields, MainChanges
     DEF Main!Clicks
<1>2. CASE Main!Keyboard
  BY <1>2, MainTrusts, MainFields, MainChanges DEF Main!Keyboard
<1>3. CASE Main!Expire
  BY <1>3, MainFields
<1> QED
  BY <1>1, <1>2, <1>3, MainWorks, MainHandles DEF Main!Next

(***************************************************************************)
(* The bookmarks: their order                                              *)
(***************************************************************************)

\* The bookmarks with the ids 1 to n.
Tags(n) == [id : 1..n, name : MarkNames, kind : {"local", "remote"}]
\* An id is that of one bookmark.
Single(S) == \A a, b \in S : a.id = b.id => a = b
\* How many of S stand before b.
Behind(S, R, b) == Cardinality({a \in S : <<a, b>> \in R})
\* R orders S: no two stand in one place.
Orders(R, S) ==
    /\ \A a \in S : <<a, a>> \notin R
    /\ \A a, b \in S : a # b => <<a, b>> \in R \/ <<b, a>> \in R
    /\ \A a, b, c \in S : <<a, b>> \in R /\ <<b, c>> \in R => <<a, c>> \in R

\* What is known of the bounds.
LEMMA MarksGiven ==
    /\ MarkNames \subseteq Nat /\ MaxSaves \in Nat /\ RowCounts \subseteq Nat \ {0}
  BY LinuxAssumption DEF Marks!BookmarkAssumption

\* The number of elements, in the component's own terms.
LEMMA MarksCardinality ==
    \A S : Marks!Cardinality(S) = Cardinality(S)
  BY DEF Marks!Cardinality, Cardinality

\* The order of the bookmarks is one.
LEMMA OneBefore ==
    ASSUME NEW n \in Nat, NEW S \in SUBSET Tags(n), Single(S), NEW a \in S, NEW b \in S
    PROVE  /\ ~Marks!Before(a, a)
           /\ a # b => Marks!Before(a, b) \/ Marks!Before(b, a)
           /\ \A c \in S : Marks!Before(a, b) /\ Marks!Before(b, c) => Marks!Before(a, c)
<1>1. \A x \in Tags(n) : x.id \in Nat /\ x.name \in Nat /\ x.kind \in {"local", "remote"}
  <2>1. ASSUME NEW x \in Tags(n)
        PROVE  x.id \in Nat /\ x.name \in Nat /\ x.kind \in {"local", "remote"}
    <3>1. x.id \in 1..n /\ x.name \in MarkNames /\ x.kind \in {"local", "remote"}
      BY DEF Tags
    <3>2. \A i \in 1..n : i \in Nat
      OBVIOUS
    <3>3. MarkNames \subseteq Nat
      BY MarksGiven
    <3> QED
      BY <3>1, <3>2, <3>3
  <2> QED
    BY <2>1
<1>2. ~Marks!Before(a, a)
  BY <1>1 DEF Marks!Before
<1>3. a # b => a.id # b.id
  BY DEF Single
<1>4. a # b => Marks!Before(a, b) \/ Marks!Before(b, a)
  <2>1. a.id \in Nat /\ a.name \in Nat /\ a.kind \in {"local", "remote"}
    BY <1>1
  <2>2. b.id \in Nat /\ b.name \in Nat /\ b.kind \in {"local", "remote"}
    BY <1>1
  <2> QED
    BY <1>3, <2>1, <2>2 DEF Marks!Before
<1>5. ASSUME NEW c \in S, Marks!Before(a, b), Marks!Before(b, c)
      PROVE  Marks!Before(a, c)
  <2>1. a.id \in Nat /\ a.name \in Nat /\ a.kind \in {"local", "remote"}
    BY <1>1
  <2>2. b.id \in Nat /\ b.name \in Nat /\ b.kind \in {"local", "remote"}
    BY <1>1
  <2>3. c.id \in Nat /\ c.name \in Nat /\ c.kind \in {"local", "remote"}
    BY <1>1
  <2> QED
    BY <1>5, <2>1, <2>2, <2>3 DEF Marks!Before
<1> QED
  BY <1>2, <1>4, <1>5

\* In an order every place of a finite set is that of one element.
LEMMA Ranked ==
    ASSUME NEW S, IsFiniteSet(S), NEW R, Orders(R, S)
    PROVE  /\ Cardinality(S) \in Nat
           /\ \A b \in S : Behind(S, R, b) \in 0..(Cardinality(S) - 1)
           /\ \A a, b \in S : <<a, b>> \in R => Behind(S, R, a) < Behind(S, R, b)
           /\ \A a, b \in S : Behind(S, R, a) = Behind(S, R, b) => a = b
           /\ \A i \in 1..Cardinality(S) : \E b \in S : Behind(S, R, b) = i - 1
<1> DEFINE Pre(b) == {a \in S : <<a, b>> \in R}
           c == Cardinality(S)
<1>1. c \in Nat
  BY FS_CardinalityType
<1>2. ASSUME NEW b \in S
      PROVE  IsFiniteSet(Pre(b)) /\ Cardinality(Pre(b)) \in Nat
  BY FS_Subset, FS_CardinalityType
<1>3. ASSUME NEW b \in S
      PROVE  Cardinality(Pre(b)) < Cardinality(S)
  <2>1. Pre(b) \in SUBSET S /\ b \notin Pre(b)
    BY DEF Orders
  <2>2. Cardinality(Pre(b)) <= Cardinality(S) /\ Cardinality(Pre(b)) # Cardinality(S)
    BY <2>1, FS_Subset
  <2> QED
    BY <1>1, <1>2, <2>2
<1>4. ASSUME NEW a \in S, NEW b \in S, <<a, b>> \in R
      PROVE  Cardinality(Pre(a)) < Cardinality(Pre(b))
  <2>1. Pre(a) \in SUBSET Pre(b) /\ a \in Pre(b) /\ a \notin Pre(a)
    <3>1. a \notin Pre(a) /\ a \in Pre(b)
      BY <1>4 DEF Orders
    <3>2. ASSUME NEW x \in S, <<x, a>> \in R
          PROVE  <<x, b>> \in R
      BY <1>4, <3>2 DEF Orders
    <3> QED
      BY <3>1, <3>2
  <2>2. Cardinality(Pre(a)) <= Cardinality(Pre(b)) /\ Cardinality(Pre(a)) # Cardinality(Pre(b))
    BY <1>2, <2>1, FS_Subset
  <2> QED
    BY <1>2, <2>2
<1>5. \A b \in S : Behind(S, R, b) = Cardinality(Pre(b))
  BY DEF Behind
<1> HIDE DEF Pre
<1>6. \A b \in S : Behind(S, R, b) \in 0..(c - 1)
  BY <1>1, <1>2, <1>3, <1>5
<1>7. \A a, b \in S : <<a, b>> \in R => Behind(S, R, a) < Behind(S, R, b)
  BY <1>4, <1>5
<1>8. ASSUME NEW a \in S, NEW b \in S, a # b
      PROVE  Behind(S, R, a) # Behind(S, R, b)
  <2>1. Behind(S, R, a) < Behind(S, R, b) \/ Behind(S, R, b) < Behind(S, R, a)
    BY <1>7, <1>8 DEF Orders
  <2>2. Behind(S, R, a) \in Nat /\ Behind(S, R, b) \in Nat
    BY <1>1, <1>6
  <2> QED
    BY <2>1, <2>2
<1> DEFINE f == [b \in S |-> Behind(S, R, b) + 1]
<1>9. f \in Injection(S, 1..c)
  <2>1. \A b \in S : Behind(S, R, b) + 1 \in 1..c
    BY <1>1, <1>6
  <2>2. f \in [S -> 1..c]
    BY <2>1
  <2>3. ASSUME NEW a \in S, NEW b \in S, f[a] = f[b]
        PROVE  a = b
    <3>1. Behind(S, R, a) \in Int /\ Behind(S, R, b) \in Int
      BY <1>1, <1>6
    <3>2. Behind(S, R, a) + 1 = Behind(S, R, b) + 1
      BY <2>3
    <3> QED
      BY <1>8, <3>1, <3>2
  <2> QED
    BY <2>2, <2>3 DEF Injection, IsInjective
<1>10. IsFiniteSet(1..c) /\ Cardinality(1..c) = c
  BY <1>1, FS_Interval
<1>11. f \in Surjection(S, 1..c)
  BY <1>9, <1>10, FS_Injection
<1>12. ASSUME NEW i \in 1..c
       PROVE  \E b \in S : Behind(S, R, b) = i - 1
  <2>1. PICK b \in S : f[b] = i
    BY <1>11 DEF Surjection
  <2>2. Behind(S, R, b) \in Int /\ Behind(S, R, b) + 1 = i
    BY <1>1, <1>6, <2>1
  <2> QED
    BY <1>1, <2>2
<1> QED
  BY <1>1, <1>6, <1>7, <1>8, <1>12

\* The order of the bookmarks of S.
Order(S) == {p \in S \X S : Marks!Before(p[1], p[2])}

\* The sorted bookmarks are all of them, and no other.
LEMMA SortedAre ==
    ASSUME NEW n \in Nat, NEW S \in SUBSET Tags(n), Single(S), IsFiniteSet(S)
    PROVE  LET l == Marks!sortBookmarks(S) IN
           /\ l \in Seq(S) /\ Len(l) = Cardinality(S) /\ DOMAIN l = 1..Len(l) /\ Len(l) \in Nat
           /\ \A b \in S : \E i \in 1..Len(l) : l[i] = b
<1> DEFINE c == Cardinality(S)
           R == Order(S)
           l == Marks!sortBookmarks(S)
<1>1. Orders(R, S)
  <2>1. \A a, b \in S : <<a, b>> \in R <=> Marks!Before(a, b)
    BY DEF Order
  <2> HIDE DEF R
  <2> QED
    BY <2>1, OneBefore DEF Orders
<1>2. \A b \in S : Marks!Cardinality({a \in S : Marks!Before(a, b)}) = Behind(S, R, b)
  <2>1. ASSUME NEW b \in S
        PROVE  {a \in S : Marks!Before(a, b)} = {a \in S : <<a, b>> \in R}
    BY DEF Order
  <2> QED
    BY <2>1, MarksCardinality DEF Behind
<1> HIDE DEF R
<1>3. /\ c \in Nat
      /\ \A b \in S : Behind(S, R, b) \in 0..(c - 1)
      /\ \A a, b \in S : Behind(S, R, a) = Behind(S, R, b) => a = b
      /\ \A i \in 1..c : \E b \in S : Behind(S, R, b) = i - 1
  BY <1>1, Ranked
<1> DEFINE r(b) == Marks!Cardinality({a \in S : Marks!Before(a, b)})
           at(i) == CHOOSE b \in S : r(b) = i - 1
<1>4. l = [i \in 1..c |-> at(i)]
  <2>1. Marks!Cardinality(S) = c
    BY MarksCardinality
  <2>2. l = [i \in 1..Marks!Cardinality(S) |-> at(i)]
    BY Zenon DEF Marks!sortBookmarks
  <2> QED
    BY <2>1, <2>2
<1> HIDE DEF r, l
<1>5. \A i \in 1..c : at(i) \in S /\ r(at(i)) = i - 1
  <2>1. \A i \in 1..c : \E b \in S : r(b) = i - 1
    BY <1>2, <1>3 DEF r
  <2> QED
    BY <2>1
<1> HIDE DEF at
<1>6. \A i \in 1..c : l[i] \in S /\ Behind(S, R, l[i]) = i - 1
  BY <1>2, <1>4, <1>5 DEF r
<1>7. l \in [1..c -> S]
  BY <1>4, <1>5
<1>8. l \in Seq(S) /\ Len(l) = c /\ DOMAIN l = 1..c
  BY <1>3, <1>7
<1>9. ASSUME NEW b \in S
      PROVE  \E i \in 1..c : l[i] = b
  <2>1. Behind(S, R, b) + 1 \in 1..c /\ Behind(S, R, b) \in Int
    BY <1>3
  <2> DEFINE i == Behind(S, R, b) + 1
  <2>2. l[i] \in S /\ Behind(S, R, l[i]) = i - 1
    BY <1>6, <2>1
  <2>3. Behind(S, R, l[i]) = Behind(S, R, b)
    BY <2>1, <2>2
  <2> QED
    BY <1>3, <2>1, <2>2, <2>3
<1> QED
  BY <1>3, <1>8, <1>9 DEF l

\* Every set of slots has an order.
LEMMA OrderExists ==
    ASSUME NEW m \in Nat, NEW I \in SUBSET (1..m)
    PROVE  \E q \in [1..Cardinality(I) -> I] :
             /\ {q[i] : i \in DOMAIN q} = I
             /\ \A k, n \in DOMAIN q : k < n => q[k] < q[n]
<1> DEFINE c == Cardinality(I)
           R == {p \in I \X I : p[1] < p[2]}
<1>1. IsFiniteSet(I)
  <2>1. IsFiniteSet(1..m)
    BY FS_Interval
  <2> QED
    BY <2>1, FS_Subset
<1>2. \A a \in I : a \in Int
  OBVIOUS
<1>3. \A a, b \in I : <<a, b>> \in R <=> a < b
  OBVIOUS
<1> HIDE DEF R
<1>4. Orders(R, I)
  BY <1>2, <1>3 DEF Orders
<1>5. /\ c \in Nat
      /\ \A b \in I : Behind(I, R, b) \in 0..(c - 1)
      /\ \A a, b \in I : <<a, b>> \in R => Behind(I, R, a) < Behind(I, R, b)
      /\ \A a, b \in I : Behind(I, R, a) = Behind(I, R, b) => a = b
      /\ \A i \in 1..c : \E b \in I : Behind(I, R, b) = i - 1
  <2>1. c \in Nat
    BY <1>1, FS_CardinalityType
  <2>2. \A b \in I : Behind(I, R, b) \in 0..(c - 1)
    BY <1>1, <1>4, Ranked
  <2>3. \A a, b \in I : <<a, b>> \in R => Behind(I, R, a) < Behind(I, R, b)
    BY <1>1, <1>4, Ranked
  <2>4. \A a, b \in I : Behind(I, R, a) = Behind(I, R, b) => a = b
    BY <1>1, <1>4, Ranked
  <2>5. \A i \in 1..c : \E b \in I : Behind(I, R, b) = i - 1
    <3> DEFINE P(S) == \A i \in 1..Cardinality(S) : \E b \in S : Behind(S, R, b) = i - 1
    <3>1. ASSUME NEW S, IsFiniteSet(S), Orders(R, S) PROVE P(S)
      BY <3>1, Ranked
    <3> HIDE DEF P
    <3>2. P(I)
      BY <1>1, <1>4, <3>1
    <3> QED
      BY <3>2 DEF P
  <2> QED
    BY <2>1, <2>2, <2>3, <2>4, <2>5
<1> DEFINE at(i) == CHOOSE b \in I : Behind(I, R, b) = i - 1
           q == [i \in 1..c |-> at(i)]
<1>6. \A i \in 1..c : at(i) \in I /\ Behind(I, R, at(i)) = i - 1
  BY <1>5
<1> HIDE DEF at
<1>7. q \in [1..c -> I] /\ DOMAIN q = 1..c /\ \A i \in 1..c : q[i] \in I
        /\ Behind(I, R, q[i]) = i - 1
  BY <1>6
<1> HIDE DEF q
<1>8. {q[i] : i \in DOMAIN q} = I
  <2>1. ASSUME NEW b \in I
        PROVE  \E i \in 1..c : q[i] = b
    <3>1. Behind(I, R, b) + 1 \in 1..c /\ Behind(I, R, b) \in Int
      BY <1>5
    <3> DEFINE i == Behind(I, R, b) + 1
    <3>2. q[i] \in I /\ Behind(I, R, q[i]) = i - 1
      BY <1>7, <3>1
    <3>3. Behind(I, R, q[i]) = Behind(I, R, b)
      BY <3>1, <3>2
    <3> QED
      BY <1>5, <3>1, <3>2, <3>3
  <2> QED
    BY <1>7, <2>1
<1>9. ASSUME NEW k \in 1..c, NEW n \in 1..c, k < n
      PROVE  q[k] < q[n]
  <2>1. q[k] \in I /\ q[n] \in I /\ Behind(I, R, q[k]) = k - 1 /\ Behind(I, R, q[n]) = n - 1
    BY <1>7
  <2>2. q[k] \in Int /\ q[n] \in Int
    BY <1>2, <2>1
  <2>3. q[k] # q[n]
    BY <1>9, <2>1
  <2>4. ~(q[n] < q[k])
    <3>1. ASSUME q[n] < q[k] PROVE FALSE
      <4>1. Behind(I, R, q[n]) < Behind(I, R, q[k])
        BY <1>3, <1>5, <2>1, <3>1
      <4> QED
        BY <1>9, <2>1, <4>1
    <3> QED
      BY <3>1
  <2> QED
    BY <2>2, <2>3, <2>4
<1> QED
  BY <1>7, <1>8, <1>9

(***************************************************************************)
(* The bookmarks: what is drawn                                            *)
(***************************************************************************)

\* No question is shown.
NotAsked == [id |-> 0]
\* The bookmarks of the rows.
MarksListed == {items[i] : i \in 1..Len(items)}
\* Every bookmark the window knows.
MarksKnown == stored \cup MarksListed \cup {q \in {question} : q # NotAsked}

\* Every bookmark that is stored, shown or asked about has an id of its own.
MarksKept ==
    /\ issued \in Nat /\ MarksKnown \in SUBSET Tags(issued) /\ Single(MarksKnown)
         /\ IsFiniteSet(stored)
    /\ items \in Seq(Tags(issued))
\* The selected row is one of those that are drawn.
InViewport ==
    IF items = <<>> THEN marksSelected = 0
    ELSE /\ marksSelected \in 1..Len(items)
         /\ first < marksSelected /\ marksSelected <= first + marksRows
         /\ 0 <= first /\ first <= Marks!MaxFirst(Len(items), marksRows)
\* It is as long as the rows are shown.
Viewport ==
    /\ marksRows \in Nat \ {0} /\ marksSelected \in Int /\ first \in Int
    /\ mode = "manager" => InViewport
\* The rows are those that are stored, unless the last reading of them failed.
MarksFresh == mode = "manager" /\ ~stale => items = Marks!sortBookmarks(stored)
\* A confirmation is of the bookmark the question named.
MarksNamed == confirm # 0 => question # NotAsked /\ question.id = confirm
\* The inductive invariant of the bookmark manager.
MarksState == MarksKept /\ Viewport /\ MarksFresh /\ MarksNamed

\* Nothing is stored or shown at the start.
LEMMA MarksStarts ==
    ASSUME Marks!Init
    PROVE  MarksState
<1>1. /\ stored = {} /\ issued = 0 /\ mode = "closed" /\ items = <<>> /\ marksSelected = 0
           /\ first = 0
      /\ marksRows \in RowCounts /\ confirm = 0 /\ question = NotAsked
  BY DEF Marks!Init, Marks!None, NotAsked
<1>2. MarksKnown = {}
  <2>1. MarksListed = {}
    BY <1>1 DEF MarksListed
  <2> QED
    BY <1>1, <2>1 DEF MarksKnown
<1>3. MarksKept
  BY <1>1, <1>2, FS_EmptySet DEF MarksKept, Single
<1>4. Viewport
  BY <1>1, MarksGiven DEF Viewport
<1> QED
  BY <1>1, <1>3, <1>4 DEF MarksState, MarksFresh, MarksNamed

\* The invariant says what the suite checks of the manager.
LEMMA MarksHolds ==
    ASSUME MarksState
    PROVE  Marks!SelectionShown /\ Marks!RowsAreStored
  BY DEF MarksState, Viewport, InViewport, MarksFresh, Marks!SelectionShown, Marks!RowsAreStored,
         Marks!None

\* Whatever the selection and the first row were, a render brings them into the list.
LEMMA InRange ==
    ASSUME NEW n \in Nat, n # 0, NEW s \in Int, NEW t \in Int, NEW v \in Nat \ {0}
    PROVE  LET r == Marks!ensureSelectionVisible(n, s, t, v) IN
           /\ r[1] \in 1..n /\ r[2] \in Int /\ r[2] < r[1] /\ r[1] <= r[2] + v
           /\ 0 <= r[2] /\ r[2] <= Marks!MaxFirst(n, v)
           /\ s \in 1..n => r[1] = s
<1> DEFINE m == Marks!MaxFirst(n, v)
           a == Marks!Least(Marks!Most(s, 1), n)
           b == Marks!Least(Marks!Most(t, 0), m)
           c == IF a <= b THEN a - 1 ELSE b
           d == IF a > c + v THEN a - v ELSE c
           e == Marks!Least(d, m)
<1>1. Marks!ensureSelectionVisible(n, s, t, v) = <<a, e>>
  BY DEF Marks!ensureSelectionVisible
<1>2. m \in Nat /\ m >= n - v
  BY DEF Marks!MaxFirst, Marks!Most
<1>3. a \in 1..n /\ (s \in 1..n => a = s)
  BY DEF Marks!Least, Marks!Most
<1>9. m = 0 \/ m = n - v
  BY DEF Marks!MaxFirst, Marks!Most
<1> HIDE DEF m, a
<1>4. b \in 0..m
  BY <1>2 DEF Marks!Least, Marks!Most
<1> HIDE DEF b
<1>5. c \in 0..m /\ c < a
  BY <1>2, <1>3, <1>4
<1> HIDE DEF c
<1>6. d \in Nat /\ d < a /\ a <= d + v
  BY <1>2, <1>3, <1>5
<1> HIDE DEF d
<1>7. e \in 0..m /\ e < a /\ a <= e + v
  BY <1>2, <1>3, <1>6, <1>9 DEF Marks!Least
<1> HIDE DEF e
<1> QED
  BY <1>1, <1>2, <1>3, <1>7 DEF m

\* Rows are drawn: the selected one among them.
LEMMA Rendering ==
    ASSUME NEW l, NEW T, l \in Seq(T), NEW s \in Int, NEW t \in Int, NEW v \in Nat \ {0},
           Marks!Rendered(l, s, t, v)
    PROVE  /\ items' = l /\ marksRows' = v /\ Viewport'
           /\ s \in 1..Len(l) => marksSelected' = s
<1> DEFINE r == Marks!ensureSelectionVisible(Len(l), s, t, v)
<1>1. items' = l /\ marksRows' = v /\ marksSelected' = r[1] /\ first' = r[2]
  BY DEF Marks!Rendered
<1>2. CASE Len(l) = 0
  <2>1. r = <<0, 0>>
    BY <1>2 DEF Marks!ensureSelectionVisible, Marks!None
  <2>2. l = <<>>
    BY <1>2
  <2> QED
    BY <1>1, <1>2, <2>1, <2>2 DEF Viewport, InViewport
<1>3. CASE Len(l) # 0
  <2>1. Len(l) \in Nat /\ l # <<>>
    BY <1>3
  <2>2. /\ r[1] \in 1..Len(l) /\ r[2] \in Int /\ r[2] < r[1] /\ r[1] <= r[2] + v
        /\ 0 <= r[2] /\ r[2] <= Marks!MaxFirst(Len(l), v)
        /\ s \in 1..Len(l) => r[1] = s
    BY <1>3, <2>1, InRange
  <2> HIDE DEF r
  <2> QED
    BY <1>1, <2>1, <2>2 DEF Viewport, InViewport, Marks!MaxFirst
<1> QED
  BY <1>2, <1>3

\* The collection is read again, or it is not.
Reopened(S, T, d, o) ==
    /\ items' \in Seq(T \cup S) /\ Viewport'
    /\ items' = items \/ items' \in Seq(S)
    /\ mode' = "manager" /\ ~stale' => items' = Marks!sortBookmarks(S)
    /\ mode' = "manager" /\ o # "manager" /\ (\E b \in S : b.id = d)
         => items'[marksSelected'].id = d

\* Reading the collection again, or failing to, leaves that.
LEMMA Reopening ==
    ASSUME NEW n \in Nat, NEW S \in SUBSET Tags(n), Single(S), IsFiniteSet(S), NEW T,
           items \in Seq(T),
           Viewport, NEW d, NEW o, o # "manager" \/ mode = "manager", Marks!Reopen(S, d, o)
    PROVE  Reopened(S, T, d, o)
<1> SUFFICES /\ items' \in Seq(T \cup S) /\ Viewport'
             /\ items' = items \/ items' \in Seq(S)
             /\ mode' = "manager" /\ ~stale' => items' = Marks!sortBookmarks(S)
             /\ mode' = "manager" /\ o # "manager" /\ (\E b \in S : b.id = d)
                  => items'[marksSelected'].id = d
  BY DEF Reopened
<1> DEFINE l == Marks!sortBookmarks(S)
           k == Marks!IndexOf(l, d)
<1>1. /\ l \in Seq(S) /\ DOMAIN l = 1..Len(l) /\ Len(l) \in Nat
      /\ \A b \in S : \E i \in 1..Len(l) : l[i] = b
  BY SortedAre
<1> HIDE DEF l
<1>2. k \in Int /\ ((\E b \in S : b.id = d) => k \in 1..Len(l) /\ l[k].id = d)
  <2> DEFINE f == {i \in 1..Len(l) : l[i].id = d}
  <2>1. k = IF f = {} THEN (IF l = <<>> THEN 0 ELSE 1) ELSE CHOOSE i \in f : TRUE
    BY DEF Marks!IndexOf, Marks!None
  <2>2. (\E b \in S : b.id = d) => f # {}
    BY <1>1
  <2>3. f # {} => k \in f
    BY <2>1
  <2> HIDE DEF k
  <2>4. f = {} => k \in Int
    BY <2>1
  <2> QED
    BY <1>1, <2>2, <2>3, <2>4
<1> HIDE DEF k
<1>3. Seq(S) \subseteq Seq(T \cup S) /\ Seq(T) \subseteq Seq(T \cup S)
  OBVIOUS
<1>4. marksRows \in Nat \ {0} /\ marksSelected \in Int /\ first \in Int
  BY DEF Viewport
<1>5. CASE Marks!Rendered(l, k, 0, marksRows) /\ mode' = "manager" /\ stale' = FALSE
  <2>1. items' = l /\ Viewport' /\ (k \in 1..Len(l) => marksSelected' = k)
    BY <1>1, <1>2, <1>4, <1>5, Rendering
  <2> QED
    BY <1>1, <1>2, <1>3, <2>1 DEF l
<1>6. CASE /\ mode' = o /\ stale' = TRUE
           /\ IF o = "manager" THEN Marks!Rendered(items, marksSelected, first, marksRows)
              ELSE UNCHANGED Marks!view
  <2>1. CASE o = "manager"
    <3>1. items' = items /\ Viewport'
      BY <1>4, <1>6, <2>1, Rendering
    <3> QED
      BY <1>3, <1>6, <2>1, <3>1
  <2>2. CASE o # "manager"
    <3>1. UNCHANGED <<items, marksSelected, first, marksRows>>
      BY <1>6, <2>2 DEF Marks!view
    <3>2. Viewport'
      BY <1>4, <1>6, <2>2, <3>1 DEF Viewport
    <3> QED
      BY <1>3, <1>6, <2>2, <3>1, <3>2
  <2> QED
    BY <2>1, <2>2
<1> QED
  BY <1>5, <1>6 DEF Marks!Reopen, l, k

(***************************************************************************)
(* The bookmarks: keys, clicks and questions                               *)
(***************************************************************************)

\* The rows, and what is stored, are bookmarks the window knows.
LEMMA MarksSeq ==
    ASSUME MarksKept
    PROVE  /\ items \in Seq(MarksListed) /\ items \in Seq(MarksKnown)
           /\ \A i \in 1..Len(items) : items[i] \in MarksKnown /\ items[i].id # 0
                /\ items[i] # NotAsked
           /\ stored \in SUBSET Tags(issued) /\ Single(stored) /\ stored \subseteq MarksKnown
<1>1. items \in Seq(Tags(issued)) /\ Len(items) \in Nat
        /\ items \in [1..Len(items) -> Tags(issued)]
  BY DEF MarksKept
<1>2. \A i \in 1..Len(items) : items[i] \in MarksListed
  BY DEF MarksListed
<1>3. items \in [1..Len(items) -> MarksListed]
  BY <1>1, <1>2
<1>4. items \in Seq(MarksListed)
  BY <1>1, <1>3
<1>5. MarksListed \subseteq MarksKnown /\ stored \subseteq MarksKnown
  BY DEF MarksKnown
<1>6. items \in Seq(MarksKnown)
  BY <1>4, <1>5
<1>7. \A b \in Tags(issued) : b.id # 0
  BY DEF MarksKept, Tags
<1>8. \A i \in 1..Len(items) : items[i].id # 0 /\ items[i] # NotAsked
  BY <1>1, <1>7 DEF NotAsked
<1> QED
  BY <1>2, <1>4, <1>5, <1>6, <1>8 DEF MarksKept, Single

\* Nothing new comes among the bookmarks.
LEMMA Unissued ==
    ASSUME MarksKept, issued' = issued, stored' \subseteq stored, items' \in Seq(MarksKnown),
           question' = question \/ question' \in MarksKnown
    PROVE  MarksKept'
<1>1. MarksListed' \subseteq MarksKnown
  <2>1. \A i \in 1..Len(items') : items'[i] \in MarksKnown
    OBVIOUS
  <2> QED
    BY <2>1 DEF MarksListed
<1>2. MarksKnown' \subseteq MarksKnown
  BY <1>1 DEF MarksKnown
<1>3. IsFiniteSet(stored')
  BY FS_Subset DEF MarksKept
<1>4. items' \in Seq(Tags(issued))
  BY DEF MarksKept
<1> QED
  BY <1>2, <1>3, <1>4 DEF MarksKept, Single

\* The list is drawn again.
LEMMA MarksDrawn ==
    ASSUME MarksState, NEW s \in Int, NEW t \in Int, NEW v \in Nat \ {0},
           Marks!Rendered(items, s, t, v),
           UNCHANGED <<stored, issued, mode, stale>>,
           confirm' # 0 => question' # NotAsked /\ question'.id = confirm',
           question' = question \/ question' \in MarksKnown
    PROVE  MarksState'
<1>1. items' = items /\ Viewport'
  BY Rendering DEF MarksState, MarksKept
<1>2. MarksKept'
  BY <1>1, MarksSeq, Unissued DEF MarksState
<1> QED
  BY <1>1, <1>2 DEF MarksState, MarksFresh, MarksNamed

\* The collection is read again after none was added.
LEMMA MarksRead ==
    ASSUME MarksState, NEW d, NEW o, o # "manager" \/ mode = "manager",
           stored' \subseteq stored, Marks!Reopen(stored', d, o), issued' = issued,
             question' = question,
           confirm' \in {confirm, 0}
    PROVE  MarksState'
<1>1. /\ issued \in Nat /\ stored' \in SUBSET Tags(issued) /\ Single(stored')
           /\ IsFiniteSet(stored')
      /\ items \in Seq(MarksListed) /\ Viewport
  BY MarksSeq, FS_Subset DEF MarksState, MarksKept, Single
<1>2. /\ items' \in Seq(MarksListed \cup stored') /\ Viewport'
      /\ mode' = "manager" /\ ~stale' => items' = Marks!sortBookmarks(stored')
  <2>1. Reopened(stored', MarksListed, d, o)
    BY <1>1, Reopening
  <2> QED
    BY <2>1 DEF Reopened
<1>3. MarksListed \cup stored' \subseteq MarksKnown
  BY DEF MarksKnown
<1>4. MarksKept'
  BY <1>2, <1>3, Unissued DEF MarksState
<1> QED
  BY <1>2, <1>4 DEF MarksState, MarksFresh, MarksNamed

\* The window goes on without the list.
LEMMA MarksAway ==
    ASSUME MarksState, UNCHANGED <<stored, issued, question, items, marksSelected, first,
           marksRows, stale>>,
           confirm' \in {confirm, 0}, mode' = mode \/ mode' # "manager"
    PROVE  MarksState'
<1>1. MarksKept'
  BY MarksSeq, Unissued DEF MarksState
<1> QED
  BY <1>1 DEF MarksState, Viewport, InViewport, MarksFresh, MarksNamed

\* No bookmark is removed, none is saved.
MarksQuiet == stored' = stored
\* Without a change nothing was removed or saved.
LEMMA MarksAsked ==
    ASSUME MarksQuiet
    PROVE  Marks!RemovesTheNamedStep /\ Marks!SavedIsSelectedStep
  BY DEF MarksQuiet, Marks!RemovesTheNamedStep, Marks!SavedIsSelectedStep

\* The keys, the wheel, a click on a row and a resize of the window.
LEMMA MarksMoves ==
    ASSUME MarksState, \/ Marks!scrollViewport \/ Marks!bookmarkRowAt
                       \/ Marks!handleBookmarkManagerKey \/ Marks!Resize
    PROVE  MarksState' /\ Marks!RemovesTheNamedStep /\ Marks!SavedIsSelectedStep
<1>0. /\ marksRows \in Nat \ {0} /\ marksSelected \in Int /\ first \in Int /\ Len(items) \in Nat
      /\ confirm # 0 => question # NotAsked /\ question.id = confirm
  BY DEF MarksState, Viewport, MarksKept, MarksNamed
<1>1. UNCHANGED <<stored, issued, mode, confirm, question, stale>>
  BY DEF Marks!scrollViewport, Marks!bookmarkRowAt, Marks!handleBookmarkManagerKey,
     Marks!Resize, Marks!Stay
<1>2. ASSUME NEW s \in Int, NEW t \in Int, NEW v \in Nat \ {0}, Marks!Rendered(items, s, t, v)
      PROVE  MarksState'
  BY <1>0, <1>1, <1>2, MarksDrawn
<1>3. ASSUME Marks!scrollViewport
      PROVE  MarksState'
  <2>1. PICK x \in {-1, 1} :
          LET top == Marks!Least(Marks!Most(first + x, 0), Marks!MaxFirst(Len(items), marksRows))
              last == Marks!Least(top + marksRows, Len(items))
          IN  Marks!Rendered(items, Marks!Least(Marks!Most(marksSelected, top + 1), last), top,
            marksRows)
    BY <1>3 DEF Marks!scrollViewport
  <2> DEFINE top == Marks!Least(Marks!Most(first + x, 0), Marks!MaxFirst(Len(items), marksRows))
             last == Marks!Least(top + marksRows, Len(items))
             s == Marks!Least(Marks!Most(marksSelected, top + 1), last)
  <2>2. top \in Int
    BY <1>0 DEF Marks!Least, Marks!Most, Marks!MaxFirst
  <2>3. Marks!Rendered(items, s, top, marksRows)
    BY <2>1
  <2> HIDE DEF top
  <2>4. s \in Int
    BY <1>0, <2>2 DEF Marks!Least, Marks!Most
  <2> HIDE DEF s
  <2> QED
    BY <1>0, <1>2, <2>2, <2>3, <2>4
<1>4. ASSUME Marks!bookmarkRowAt
      PROVE  MarksState'
  <2>1. PICK i \in first + 1..Marks!Least(first + marksRows, Len(items)) :
          Marks!Rendered(items, i, first, marksRows)
    BY <1>4 DEF Marks!bookmarkRowAt
  <2>2. i \in Int
    BY <1>0, <2>1 DEF Marks!Least
  <2> QED
    BY <1>0, <1>2, <2>1, <2>2
<1>5. ASSUME Marks!handleBookmarkManagerKey
      PROVE  MarksState'
  <2>1. PICK i \in 1..Len(items) : Marks!Rendered(items, i, first, marksRows)
    BY <1>5 DEF Marks!handleBookmarkManagerKey
  <2> QED
    BY <1>0, <1>2, <2>1
<1>6. ASSUME Marks!Resize
      PROVE  MarksState'
  <2>1. PICK v \in RowCounts :
          IF mode = "manager" THEN Marks!Rendered(items, marksSelected, first, v)
          ELSE marksRows' = v /\ UNCHANGED <<items, marksSelected, first>>
    BY <1>6 DEF Marks!Resize
  <2>2. v \in Nat \ {0}
    BY MarksGiven
  <2>3. CASE mode = "manager"
    BY <1>0, <1>2, <2>1, <2>2, <2>3
  <2>4. CASE mode # "manager"
    <3>1. marksRows' = v /\ UNCHANGED <<items, marksSelected, first>>
      BY <2>1, <2>4
    <3>2. MarksKept'
      BY <1>1, <3>1, MarksSeq, Unissued DEF MarksState
    <3> QED
      BY <1>0, <1>1, <2>2, <2>4, <3>1, <3>2 DEF MarksState, Viewport, MarksFresh, MarksNamed
  <2> QED
    BY <2>3, <2>4
<1> QED
  BY <1>1, <1>3, <1>4, <1>5, <1>6, MarksAsked DEF MarksQuiet

\* The manager opens and closes, asks, and forgets a question.
LEMMA MarksOpens ==
    ASSUME MarksState, \/ Marks!openLinuxBookmarks \/ Marks!closePrompt \/ Marks!AddBookmark
                       \/ Marks!cancelPrompt \/ Marks!openSelectedLinuxBookmark
                       \/ Marks!Expire \/ Marks!SetConfirmDelete
    PROVE  MarksState' /\ Marks!RemovesTheNamedStep /\ Marks!SavedIsSelectedStep
<1>1. CASE Marks!openLinuxBookmarks \/ Marks!cancelPrompt
  <2>1. /\ Marks!Reopen(stored', 0, "closed") /\ stored' = stored /\ issued' = issued
        /\ question' = question /\ confirm' = confirm
    BY <1>1 DEF Marks!openLinuxBookmarks, Marks!cancelPrompt, Marks!None
  <2>2. MarksState'
    BY <2>1, MarksRead
  <2> QED
    BY <2>1, <2>2, MarksAsked DEF MarksQuiet
<1>2. CASE \/ Marks!closePrompt \/ Marks!AddBookmark \/ Marks!openSelectedLinuxBookmark
           \/ Marks!Expire \/ Marks!SetConfirmDelete
  <2>1. /\ UNCHANGED <<stored, issued, question, items, marksSelected, first, marksRows, stale>>
        /\ confirm' \in {confirm, 0} /\ (mode' = mode \/ mode' # "manager")
    BY <1>2 DEF Marks!closePrompt, Marks!AddBookmark, Marks!openSelectedLinuxBookmark,
                Marks!Expire, Marks!SetConfirmDelete, Marks!view, Marks!None
  <2>2. MarksState'
    BY <2>1, MarksAway
  <2> QED
    BY <2>1, <2>2, MarksAsked DEF MarksQuiet
<1> QED
  BY <1>1, <1>2

(***************************************************************************)
(* The bookmarks: saves and deletions                                      *)
(***************************************************************************)

\* A bookmark with a new id is stored and selected.
LEMMA MarksSaved ==
    ASSUME MarksState, NEW c \in MarkNames, mode \in {"local", "remote"},
           NEW b, b = [id |-> issued + 1, name |-> c, kind |-> mode],
           stored' = stored \cup {b}, issued' = issued + 1, Marks!Reopen(stored', b.id, "closed"),
           question' = question, confirm' = confirm
    PROVE  MarksState' /\ Marks!RemovesTheNamedStep /\ Marks!SavedIsSelectedStep
<1>1. /\ issued \in Nat /\ MarksKnown \in SUBSET Tags(issued) /\ Single(MarksKnown)
           /\ IsFiniteSet(stored)
      /\ items \in Seq(MarksListed) /\ stored \subseteq MarksKnown
           /\ MarksListed \subseteq MarksKnown /\ Viewport
  BY MarksSeq DEF MarksState, MarksKept, MarksKnown
<1> DEFINE n == issued + 1
<1>2. n \in Nat /\ b \in Tags(n) /\ b.id = n /\ Tags(issued) \subseteq Tags(n)
  <2>1. n \in Nat /\ n \in 1..n /\ 1..issued \subseteq 1..n
    BY <1>1
  <2> QED
    BY <2>1 DEF Tags
<1>3. \A x \in MarksKnown : x.id # n
  <2>1. \A x \in MarksKnown : x.id \in 1..issued
    BY <1>1 DEF Tags
  <2> QED
    BY <1>1, <2>1
<1>13. issued' = n
  OBVIOUS
<1> HIDE DEF n
<1> DEFINE M == MarksKnown \cup {b}
<1>4. M \in SUBSET Tags(n) /\ Single(M)
  BY <1>1, <1>2, <1>3 DEF Single
<1>5. stored' \in SUBSET M /\ stored' \in SUBSET Tags(n) /\ Single(stored')
        /\ IsFiniteSet(stored')
  <2>1. stored' \in SUBSET M
    BY <1>1
  <2>2. IsFiniteSet(stored')
    BY <1>1, FS_AddElement
  <2> QED
    BY <1>4, <2>1, <2>2 DEF Single
<1>6. /\ items' \in Seq(MarksListed \cup stored') /\ Viewport'
      /\ mode' = "manager" /\ ~stale' => items' = Marks!sortBookmarks(stored')
      /\ mode' = "manager" /\ (\E x \in stored' : x.id = b.id) => items'[marksSelected'].id = b.id
  <2> DEFINE S == stored'
             e == b.id
             o == "closed"
  <2>2. Marks!Reopen(S, e, o)
    OBVIOUS
  <2>3. S \in SUBSET Tags(n) /\ Single(S) /\ IsFiniteSet(S)
    BY <1>5
  <2>1. o # "manager"
    OBVIOUS
  <2> HIDE DEF S, e, o
  <2>4. /\ items' \in Seq(MarksListed \cup S) /\ Viewport'
        /\ mode' = "manager" /\ ~stale' => items' = Marks!sortBookmarks(S)
        /\ mode' = "manager" /\ (\E x \in S : x.id = e) => items'[marksSelected'].id = e
    <3>1. /\ items' \in Seq(MarksListed \cup S) /\ Viewport'
          /\ items' = items \/ items' \in Seq(S)
          /\ mode' = "manager" /\ ~stale' => items' = Marks!sortBookmarks(S)
          /\ mode' = "manager" /\ o # "manager" /\ (\E x \in S : x.id = e)
               => items'[marksSelected'].id = e
      <4>1. n \in Nat /\ items \in Seq(MarksListed) /\ Viewport
              /\ (o # "manager" \/ mode = "manager")
        BY <1>1, <1>2, <2>1
      <4>2. Reopened(S, MarksListed, e, o)
        BY ONLY <4>1, <2>2, <2>3, Reopening
      <4> QED
        BY <4>2 DEF Reopened
    <3> QED
      BY <2>1, <3>1
  <2> QED
    BY <2>4 DEF S, e
<1>7. items' \in Seq(M) /\ items' \in Seq(Tags(n))
  <2>1. MarksListed \cup stored' \subseteq M
    BY <1>1, <1>5
  <2>2. items' \in Seq(M)
    BY <1>6, <2>1
  <2> QED
    BY <1>4, <2>2
<1>8. MarksKnown' \subseteq M
  <2>1. \A i \in 1..Len(items') : items'[i] \in M
    BY <1>7
  <2>2. MarksListed' \subseteq M
    BY <2>1 DEF MarksListed
  <2> QED
    BY <1>5, <2>2 DEF MarksKnown
<1>9. MarksKept'
  BY <1>2, <1>4, <1>5, <1>7, <1>8, <1>13 DEF MarksKept, Single
<1>10. MarksState'
  BY <1>6, <1>9 DEF MarksState, MarksFresh, MarksNamed
<1>11. Marks!RemovesTheNamedStep
  BY DEF Marks!RemovesTheNamedStep
<1>12. Marks!SavedIsSelectedStep
  BY <1>2, <1>5, <1>6, <1>13 DEF Marks!SavedIsSelectedStep
<1> QED
  BY <1>10, <1>11, <1>12

\* A save stores one, or fails.
LEMMA MarksSaves ==
    ASSUME MarksState, Marks!saveLinuxBookmark
    PROVE  MarksState' /\ Marks!RemovesTheNamedStep /\ Marks!SavedIsSelectedStep
<1>0. mode \in {"local", "remote"} /\ confirm' = confirm /\ question' = question
  BY DEF Marks!saveLinuxBookmark
<1>1. CASE mode' = "closed" /\ UNCHANGED <<stored, issued, Marks!view, stale>>
  <2>1. UNCHANGED <<stored, issued, question, items, marksSelected, first, marksRows, stale>>
    BY <1>0, <1>1 DEF Marks!view
  <2>2. MarksState'
    BY <1>0, <1>1, <2>1, MarksAway
  <2> QED
    BY <2>1, <2>2, MarksAsked DEF MarksQuiet
<1>2. ASSUME NEW c \in MarkNames,
             LET new == [id |-> issued + 1, name |-> c, kind |-> mode]
             IN  /\ stored' = stored \cup {new} /\ issued' = issued + 1
                 /\ Marks!Reopen(stored', new.id, "closed")
      PROVE  MarksState' /\ Marks!RemovesTheNamedStep /\ Marks!SavedIsSelectedStep
  BY <1>0, <1>2, MarksSaved
<1> QED
  BY <1>1, <1>2 DEF Marks!saveLinuxBookmark

\* A deletion takes the bookmark the question named.
LEMMA MarksDeletes ==
    ASSUME MarksState, Marks!deleteSelectedLinuxBookmark
    PROVE  MarksState' /\ Marks!RemovesTheNamedStep /\ Marks!SavedIsSelectedStep
<1>0. mode = "manager" /\ marksSelected # 0 /\ issued' = issued
  BY DEF Marks!deleteSelectedLinuxBookmark, Marks!None
<1> DEFINE b == items[marksSelected]
<1>1. b \in MarksKnown /\ b.id # 0 /\ b # NotAsked
  <2>1. marksSelected \in 1..Len(items)
    BY <1>0 DEF MarksState, Viewport, InViewport
  <2> QED
    BY <2>1, MarksSeq DEF MarksState
<1>2. marksRows \in Nat \ {0} /\ marksSelected \in Int /\ first \in Int
  BY DEF MarksState, Viewport
<1>3. Marks!ConfirmKey = b.id
  BY DEF Marks!ConfirmKey
<1>4. Marks!SavedIsSelectedStep
  BY <1>0 DEF Marks!SavedIsSelectedStep
<1>5. CASE /\ confirm' = b.id /\ question' = b
           /\ Marks!Rendered(items, marksSelected, first, marksRows)
           /\ UNCHANGED <<stored, mode, stale>>
  <2>1. MarksState'
    BY <1>0, <1>1, <1>2, <1>5, MarksDrawn
  <2> QED
    BY <1>5, <2>1, MarksAsked DEF MarksQuiet
<1>6. CASE /\ confirm' = 0 /\ question' = question
           /\ Marks!Rendered(items, marksSelected, first, marksRows)
           /\ UNCHANGED <<stored, mode, stale>>
  <2>1. MarksState'
    BY <1>0, <1>2, <1>6, MarksDrawn
  <2> QED
    BY <1>6, <2>1, MarksAsked DEF MarksQuiet
<1>7. CASE /\ confirm' = 0 /\ question' = question /\ (asks => confirm = b.id)
           /\ stored' = {x \in stored : x.id # b.id}
           /\ Marks!Reopen(stored', 0, "manager")
  <2>1. MarksState'
    BY <1>0, <1>7, MarksRead
  <2>2. Marks!RemovesTheNamedStep
    <3> SUFFICES ASSUME NEW x \in stored, x \notin stored', asks
                 PROVE  question = x
      BY DEF Marks!RemovesTheNamedStep
    <3>1. x.id = b.id /\ confirm = b.id
      BY <1>7
    <3>2. question # NotAsked /\ question.id = b.id
      BY <1>1, <3>1 DEF MarksState, MarksNamed
    <3>3. question \in MarksKnown /\ x \in MarksKnown /\ Single(MarksKnown)
      BY <3>2 DEF MarksKnown, MarksState, MarksKept
    <3> QED
      BY <3>1, <3>2, <3>3 DEF Single
  <2> QED
    BY <1>4, <2>1, <2>2
<1>8. \/ /\ confirm' = b.id /\ question' = b
         /\ Marks!Rendered(items, marksSelected, first, marksRows)
         /\ UNCHANGED <<stored, mode, stale>>
      \/ /\ confirm' = 0 /\ question' = question /\ (asks => confirm = b.id)
         /\ \/ /\ stored' = {x \in stored : x.id # b.id} /\ Marks!Reopen(stored', 0, "manager")
            \/ /\ Marks!Rendered(items, marksSelected, first, marksRows)
               /\ UNCHANGED <<stored, mode, stale>>
  <2>1. CASE asks /\ confirm # Marks!ConfirmKey
    BY <1>3, <2>1 DEF Marks!deleteSelectedLinuxBookmark
  <2>2. CASE ~(asks /\ confirm # Marks!ConfirmKey)
    BY <1>3, <2>2 DEF Marks!deleteSelectedLinuxBookmark, Marks!None
  <2> QED
    BY <2>1, <2>2
<1> HIDE DEF b
<1> QED
  BY <1>5, <1>6, <1>7, <1>8

\* Every step keeps the invariant; only what was named is removed and what is saved is
\* selected.
LEMMA MarksStep ==
    ASSUME MarksState, Marks!Next
    PROVE  MarksState' /\ Marks!RemovesTheNamedStep /\ Marks!SavedIsSelectedStep
  BY MarksMoves, MarksOpens, MarksSaves, MarksDeletes DEF Marks!Next

(***************************************************************************)
(* The list of transfers: jobs that change in place                        *)
(***************************************************************************)

\* The jobs of the queue.
Rows == [id : 1..QueueJobs, st : Queue!Statuses, got : Nat, of : Nat]
\* A list grew at its end, every job kept its place.
Grew(l, k) ==
    /\ k \in Seq(Rows) /\ Len(l) <= Len(k)
    /\ \A i \in 1..Len(l) : k[i].id = l[i].id

\* The inductive invariant of the list: the selected row is the job that was selected,
\* and outside of a command the list is what the queue was before it grew.
QueueState ==
    /\ jobs \in Seq(Rows) /\ ids \in Nat /\ shown \in Seq(Rows) /\ row \in 0..Len(shown)
    /\ row # 0 => shown[row].id = picked
    /\ after = 0 => Grew(shown, jobs)
    /\ after \notin {0, QueueJobs + 1} => after = picked

\* What is known of the bounds.
LEMMA FeedGiven ==
    QueueJobs \in Nat /\ Limit \in Nat /\ Sizes \subseteq Nat
  BY LinuxAssumption DEF Queue!FeedAssumption

\* There are no jobs at the start.
LEMMA QueueStarts ==
    ASSUME Queue!Init
    PROVE  QueueState
<1>1. jobs = <<>> /\ ids = 0 /\ shown = <<>> /\ row = 0 /\ after = 0
  BY DEF Queue!Init, Queue!FeedInit
<1>2. Grew(<<>>, <<>>) /\ <<>> \in Seq(Rows)
  BY DEF Grew
<1> QED
  BY <1>1, <1>2, FeedGiven DEF QueueState

\* The invariant says what the suite checks of the list.
LEMMA QueueHolds ==
    ASSUME QueueState
    PROVE  Queue!SelectionFollows
  BY DEF QueueState, Queue!SelectionFollows

\* The jobs of a list and their numbers.
LEMMA RowTyped ==
    ASSUME NEW l \in Seq(Rows)
    PROVE  /\ Len(l) \in Nat /\ DOMAIN l = 1..Len(l)
           /\ \A i \in 1..Len(l) : /\ l[i] \in Rows /\ l[i].id \in 1..QueueJobs
                /\ l[i].got \in Nat
                                   /\ l[i].of \in Nat
<1>1. \A i \in 1..Len(l) : l[i] \in Rows
  OBVIOUS
<1>2. \A j \in Rows : j.id \in 1..QueueJobs /\ j.got \in Nat /\ j.of \in Nat
  BY DEF Rows
<1> QED
  BY <1>1, <1>2

\* A list that grew twice grew.
LEMMA GrewOn ==
    ASSUME NEW l \in Seq(Rows), NEW k, Grew(l, k)
    PROVE  /\ Grew(l, l)
           /\ \A m : Grew(k, m) => Grew(l, m)
<1>1. Grew(l, l)
  BY DEF Grew
<1>2. ASSUME NEW m, Grew(k, m)
      PROVE  Grew(l, m)
  <2>1. Len(l) \in Nat /\ Len(k) \in Nat /\ Len(m) \in Nat
    BY <1>2 DEF Grew
  <2>2. \A i \in 1..Len(l) : i \in 1..Len(k)
    BY <2>1 DEF Grew
  <2> QED
    BY <1>2, <2>1, <2>2 DEF Grew
<1> QED
  BY <1>1, <1>2

\* Jobs change where they are.
LEMMA ChangeGrows ==
    ASSUME QueueState, NEW I, NEW op, \A i \in DOMAIN jobs : op[i] \in Rows
           /\ op[i].id = jobs[i].id,
           jobs' = [i \in DOMAIN jobs |-> IF i \in I THEN op[i] ELSE jobs[i]]
    PROVE  Grew(jobs, jobs')
<1>1. jobs \in Seq(Rows) /\ Len(jobs) \in Nat /\ DOMAIN jobs = 1..Len(jobs)
      /\ \A i \in 1..Len(jobs) : jobs[i] \in Rows
  BY RowTyped DEF QueueState
<1>2. jobs' \in [1..Len(jobs) -> Rows]
  BY <1>1
<1>3. jobs' \in Seq(Rows) /\ Len(jobs') = Len(jobs)
  BY <1>1, <1>2
<1>4. \A i \in 1..Len(jobs) : jobs'[i].id = jobs[i].id
  BY <1>1
<1> QED
  BY <1>1, <1>3, <1>4 DEF Grew

\* What becomes of a job is a job with the same id.
LEMMA OpsTyped ==
    ASSUME NEW j \in Rows
    PROVE  /\ Queue!Reset(j) \in Rows /\ Queue!Reset(j).id = j.id
           /\ Queue!Started(j) \in Rows /\ Queue!Started(j).id = j.id
           /\ Queue!Cancelled(j) \in Rows /\ Queue!Cancelled(j).id = j.id
           /\ Queue!Requeued(j) \in Rows /\ Queue!Requeued(j).id = j.id
           /\ \A g, o \in Nat : Queue!Measured(j, g, o) \in Rows
                /\ Queue!Measured(j, g, o).id = j.id
           /\ \A s \in Queue!Settled : Queue!Finished(j, s) \in Rows
                /\ Queue!Finished(j, s).id = j.id
<1>1. Queue!Reset(j) \in Rows /\ Queue!Reset(j).id = j.id
  BY DEF Queue!Reset, Rows
<1>2. "running" \in Queue!Statuses /\ "queued" \in Queue!Statuses
        /\ "cancelled" \in Queue!Statuses
      /\ Queue!Settled \subseteq Queue!Statuses
  BY DEF Queue!Statuses, Queue!Settled
<1>3. \A x \in Rows, s \in Queue!Statuses : [x EXCEPT !.st = s] \in Rows
        /\ [x EXCEPT !.st = s].id = x.id
  BY DEF Rows
<1>4. \A g, o \in Nat : Queue!Measured(j, g, o) \in Rows /\ Queue!Measured(j, g, o).id = j.id
  <2>1. ASSUME NEW g \in Nat, NEW o \in Nat
        PROVE  Queue!Measured(j, g, o) \in Rows /\ Queue!Measured(j, g, o).id = j.id
    <3> DEFINE a == IF o > 0 /\ g > o THEN o ELSE g
    <3>1. a \in Nat
      OBVIOUS
    <3>2. Queue!Measured(j, g, o) = [j EXCEPT !.got = a, !.of = o]
      BY DEF Queue!Measured
    <3> HIDE DEF a
    <3> QED
      BY <3>1, <3>2 DEF Rows
  <2> QED
    BY <2>1
<1>5. \A s \in Queue!Settled : Queue!Finished(j, s) \in Rows /\ Queue!Finished(j, s).id = j.id
  <2>1. ASSUME NEW s \in Queue!Settled
        PROVE  Queue!Finished(j, s) \in Rows /\ Queue!Finished(j, s).id = j.id
    <3> DEFINE a == IF s = "done" /\ j.of > 0 THEN j.of ELSE j.got
    <3>1. a \in Nat
      BY DEF Rows
    <3>2. Queue!Finished(j, s) = [j EXCEPT !.st = s, !.got = a]
      BY DEF Queue!Finished, Rows
    <3> HIDE DEF a
    <3> QED
      BY <1>2, <3>1, <3>2 DEF Rows
  <2> QED
    BY <2>1
<1>6. /\ Queue!Started(j) = [Queue!Reset(j) EXCEPT !.st = "running"]
      /\ Queue!Cancelled(j) = [j EXCEPT !.st = "cancelled"]
      /\ Queue!Requeued(j) = [Queue!Reset(j) EXCEPT !.st = "queued"]
  BY DEF Queue!Started, Queue!Cancelled, Queue!Requeued
<1>7. /\ Queue!Started(j) \in Rows /\ Queue!Started(j).id = j.id
      /\ Queue!Cancelled(j) \in Rows /\ Queue!Cancelled(j).id = j.id
      /\ Queue!Requeued(j) \in Rows /\ Queue!Requeued(j).id = j.id
  <2> HIDE DEF Queue!Reset
  <2> QED
    BY <1>1, <1>2, <1>3, <1>6
<1> QED
  BY <1>1, <1>4, <1>5, <1>7

\* What the queue does by itself leaves every job in its place.
LEMMA WorkerGrows ==
    ASSUME QueueState, Queue!Worker
    PROVE  Grew(jobs, jobs') /\ ids' = ids
<1>0. jobs \in Seq(Rows) /\ DOMAIN jobs = 1..Len(jobs) /\ \A i \in DOMAIN jobs : jobs[i] \in Rows
  BY RowTyped DEF QueueState
<1>1. CASE Queue!Pump
  <2>1. ids' = ids /\ \E I : jobs'
          = [i \in DOMAIN jobs |-> IF i \in I THEN Queue!Started(jobs[i]) ELSE jobs[i]]
    BY <1>1 DEF Queue!Pump, Queue!Update, Queue!Changed
  <2> DEFINE op == [i \in DOMAIN jobs |-> Queue!Started(jobs[i])]
  <2>2. PICK I : jobs' = [i \in DOMAIN jobs |-> IF i \in I THEN op[i] ELSE jobs[i]]
    BY <2>1
  <2>3. \A i \in DOMAIN jobs : op[i] \in Rows /\ op[i].id = jobs[i].id
    BY <1>0, OpsTyped
  <2> HIDE DEF op
  <2> QED
    BY <2>1, <2>2, <2>3, ChangeGrows
<1>2. ASSUME NEW k \in DOMAIN jobs, NEW b \in BOOLEAN, Queue!Attempt(k, b)
      PROVE  Grew(jobs, jobs') /\ ids' = ids
  <2> DEFINE op == [i \in DOMAIN jobs |-> IF b THEN Queue!Reset(jobs[i]) ELSE jobs[i]]
  <2>1. ids' = ids /\ jobs' = [i \in DOMAIN jobs |-> IF i \in {k} THEN op[i] ELSE jobs[i]]
    BY <1>2 DEF Queue!Attempt, Queue!Update, Queue!Changed
  <2>3. \A i \in DOMAIN jobs : op[i] \in Rows /\ op[i].id = jobs[i].id
    BY <1>0, OpsTyped
  <2> HIDE DEF op
  <2> QED
    BY <2>1, <2>3, ChangeGrows
<1>3. ASSUME NEW k \in DOMAIN jobs, NEW o \in Sizes, NEW g \in 0..2, Queue!Progress(k, g, o)
      PROVE  Grew(jobs, jobs') /\ ids' = ids
  <2> DEFINE op == [i \in DOMAIN jobs |-> Queue!Measured(jobs[i], g, o)]
  <2>1. ids' = ids /\ jobs' = [i \in DOMAIN jobs |-> IF i \in {k} THEN op[i] ELSE jobs[i]]
    BY <1>3 DEF Queue!Progress, Queue!Update, Queue!Changed
  <2>2. o \in Nat /\ g \in Nat
    BY FeedGiven
  <2>3. \A i \in DOMAIN jobs : op[i] \in Rows /\ op[i].id = jobs[i].id
    BY <1>0, <2>2, OpsTyped
  <2> HIDE DEF op
  <2> QED
    BY <2>1, <2>3, ChangeGrows
<1>4. ASSUME NEW k \in DOMAIN jobs, NEW s \in Queue!Settled, Queue!Finish(k, s)
      PROVE  Grew(jobs, jobs') /\ ids' = ids
  <2> DEFINE op == [i \in DOMAIN jobs |-> Queue!Finished(jobs[i], s)]
  <2>1. ids' = ids /\ jobs' = [i \in DOMAIN jobs |-> IF i \in {k} THEN op[i] ELSE jobs[i]]
    BY <1>4 DEF Queue!Finish, Queue!Update, Queue!Changed
  <2>3. \A i \in DOMAIN jobs : op[i] \in Rows /\ op[i].id = jobs[i].id
    BY <1>0, OpsTyped
  <2> HIDE DEF op
  <2> QED
    BY <2>1, <2>3, ChangeGrows
<1> QED
  BY <1>1, <1>2, <1>3, <1>4 DEF Queue!Worker

(***************************************************************************)
(* The list of transfers: another order, and new jobs                      *)
(***************************************************************************)

\* The slots in the order of the list are places of it.
LEMMA OrderListed ==
    ASSUME NEW m \in Nat, NEW I \in SUBSET (1..m)
    PROVE  \E c \in Nat : /\ Queue!InOrder(I) \in [1..c -> 1..m]
           /\ Queue!InOrder(I) \in [1..c -> I]
                          /\ Queue!Range(Queue!InOrder(I)) = I
<1> DEFINE Right(q) == Queue!Range(q) = I /\ \A k, n \in DOMAIN q : k < n => q[k] < q[n]
           F == [1..Queue!Cardinality(I) -> I]
<1>1. Queue!Cardinality(I) = Cardinality(I)
  BY DEF Queue!Cardinality, Cardinality
<1>2. \E q \in F : Right(q)
  BY <1>1, OrderExists DEF Queue!Range
<1>3. Queue!InOrder(I) = CHOOSE q \in F : Right(q)
  BY DEF Queue!InOrder
<1>4. PICK q : q = Queue!InOrder(I)
  OBVIOUS
<1>5. q \in F /\ Right(q)
  BY <1>2, <1>3, <1>4
<1>6. Cardinality(I) \in Nat
  <2>1. IsFiniteSet(1..m)
    BY FS_Interval
  <2> QED
    BY <2>1, FS_Subset, FS_CardinalityType
<1>7. q \in [1..Cardinality(I) -> I] /\ Queue!Range(q) = I
  BY <1>1, <1>5
<1> HIDE DEF F, Right
<1>8. q \in [1..Cardinality(I) -> 1..m]
  BY <1>7
<1> QED
  BY <1>4, <1>6, <1>7, <1>8

\* One of the places is taken, the ones in between move over.
Shifted(k, d, n) ==
    IF n = d THEN k
    ELSE IF d <= n /\ n <= k THEN n - 1
    ELSE IF k <= n /\ n <= d THEN n + 1 ELSE n

\* It is a place again.
LEMMA ShiftedIn ==
    ASSUME NEW c \in Nat, NEW k \in 1..c, NEW d \in 1..c, NEW n \in 1..c
    PROVE  Shifted(k, d, n) \in 1..c
  BY DEF Shifted

\* The slots of the waiting jobs, in their order.
Waiting == Queue!InOrder(Queue!Slots({"queued"}))
\* Where a job waits.
PlaceOf(id) == CHOOSE n \in {k \in DOMAIN Waiting : jobs[Waiting[k]].id = id} : TRUE
\* Where it is to wait.
PlaceFor(k, c, to) ==
    CASE to = "top" -> 1 [] to = "bottom" -> c
      [] to = "up" -> IF k = 1 THEN 1 ELSE k - 1
      [] to = "down" -> IF k = c THEN k ELSE k + 1

\* What a move of the k-th waiting job to the d-th place does to the list.
MovedTo(q, k, d) ==
    \/ jobs' = jobs
    \/ jobs' = [i \in DOMAIN jobs |->
                    IF i \in Queue!Range(q)
                    THEN jobs[q[Shifted(k, d, CHOOSE n \in DOMAIN q : q[n] = i)]]
                    ELSE jobs[i]]

\* A move, said with these names.
LEMMA MoveExpands ==
    ASSUME NEW id, NEW to, Queue!Move(id, to)
    PROVE  MovedTo(Waiting, PlaceOf(id), PlaceFor(PlaceOf(id), Len(Waiting), to))
  BY DEF Queue!Move, Shifted, Waiting, PlaceOf, PlaceFor, MovedTo

\* The same, with the places as given numbers.
LEMMA MoveMeans ==
    ASSUME NEW id, NEW to, Queue!Move(id, to), NEW q, q = Waiting, NEW k, k = PlaceOf(id),
           NEW d, d = PlaceFor(k, Len(q), to)
    PROVE  MovedTo(q, k, d)
  BY MoveExpands

\* A move leaves a list of jobs.
LEMMA MoveTyped ==
    ASSUME QueueState, NEW id, NEW to \in {"top", "up", "down", "bottom"}, Queue!Move(id, to)
    PROVE  jobs' \in Seq(Rows) /\ ids' = ids
<1>1. ids' = ids /\ Queue!Movable(id)
  BY DEF Queue!Move
<1>2. PICK m \in Nat : m = Len(jobs) /\ DOMAIN jobs = 1..m /\ \A i \in 1..m : jobs[i] \in Rows
  BY RowTyped DEF QueueState
<1>3. PICK q : q = Waiting
  OBVIOUS
<1>4. PICK c \in Nat : q \in [1..c -> 1..m] /\ Queue!Range(q) = Queue!Slots({"queued"})
  <2>1. Queue!Slots({"queued"}) \in SUBSET (1..m)
    BY <1>2 DEF Queue!Slots
  <2> QED
    BY <1>3, <2>1, OrderListed DEF Waiting
<1>5. Len(q) = c /\ DOMAIN q = 1..c
  BY <1>4
<1>6. PICK at : at = {x \in DOMAIN q : jobs[q[x]].id = id}
  OBVIOUS
<1>7. PICK k : k = PlaceOf(id) /\ (at # {} => k \in at)
  <2>1. PlaceOf(id) = CHOOSE n \in at : TRUE
    BY <1>3, <1>6 DEF PlaceOf
  <2> QED
    BY <2>1
<1>8. k \in 1..c
  <2>1. \E i \in Queue!Slots({"queued"}) : jobs[i].id = id
    BY <1>1 DEF Queue!Movable
  <2>2. at # {}
    BY <2>1, <1>4, <1>6 DEF Queue!Range
  <2> QED
    BY <2>2, <1>5, <1>6, <1>7
<1>9. PICK d : d = PlaceFor(k, c, to)
  OBVIOUS
<1>10. d \in 1..c
  BY <1>8, <1>9 DEF PlaceFor
<1>11. MovedTo(q, k, d)
  <2>1. d = PlaceFor(k, Len(q), to)
    BY <1>5, <1>9
  <2> QED
    BY <1>3, <1>7, <2>1, MoveMeans
<1>12. CASE jobs' = jobs
  BY <1>1, <1>12 DEF QueueState
<1>13. CASE jobs' = [i \in DOMAIN jobs |->
                       IF i \in Queue!Range(q)
                       THEN jobs[q[Shifted(k, d, CHOOSE n \in DOMAIN q : q[n] = i)]]
                       ELSE jobs[i]]
  <2> DEFINE at2 == [i \in 1..m |-> CHOOSE n \in DOMAIN q : q[n] = i]
  <2>1. \A i \in 1..m : i \in Queue!Range(q) => at2[i] \in 1..c
    BY <1>5 DEF Queue!Range
  <2>2. jobs' = [i \in 1..m |-> IF i \in Queue!Range(q) THEN jobs[q[Shifted(k, d,
          at2[i])]] ELSE jobs[i]]
    BY <1>2, <1>13
  <2> HIDE DEF at2
  <2>3. \A i \in 1..m : i \in Queue!Range(q) => jobs[q[Shifted(k, d, at2[i])]] \in Rows
    <3>1. ASSUME NEW i \in 1..m, i \in Queue!Range(q)
          PROVE  jobs[q[Shifted(k, d, at2[i])]] \in Rows
      <4>1. PICK s \in 1..c : s = Shifted(k, d, at2[i])
        BY <1>8, <1>10, <2>1, <3>1, ShiftedIn
      <4>2. q[s] \in 1..m
        BY <1>4
      <4> QED
        BY <1>2, <4>1, <4>2
    <3> QED
      BY <3>1
  <2>4. jobs' \in [1..m -> Rows]
    BY <1>2, <2>2, <2>3
  <2> QED
    BY <1>1, <2>4
<1> QED
  BY <1>11, <1>12, <1>13 DEF MovedTo

\* So does taking out the finished ones.
LEMMA ClearTyped ==
    ASSUME QueueState, Queue!ClearFinished
    PROVE  jobs' \in Seq(Rows) /\ ids' = ids
<1>1. PICK I : I = Queue!Slots(Queue!Statuses \ Queue!Settled)
  OBVIOUS
<1>2. PICK q : q = Queue!InOrder(I)
  OBVIOUS
<1>3. jobs' = [k \in DOMAIN q |-> jobs[q[k]]] /\ ids' = ids
  BY <1>1, <1>2 DEF Queue!ClearFinished
<1>4. PICK m \in Nat : m = Len(jobs) /\ DOMAIN jobs = 1..m /\ \A i \in 1..m : jobs[i] \in Rows
  BY RowTyped DEF QueueState
<1>5. I \in SUBSET (1..m)
  BY <1>1, <1>4 DEF Queue!Slots
<1>6. PICK c \in Nat : q \in [1..c -> 1..m]
  BY <1>2, <1>5, OrderListed
<1>7. jobs' \in [1..c -> Rows]
  BY <1>3, <1>4, <1>6
<1> QED
  BY <1>3, <1>7

\* The calls of the queue that change its jobs where they are.
LEMMA CallsGrow ==
    ASSUME QueueState
    PROVE  /\ Queue!Disable => Grew(jobs, jobs') /\ ids' = ids
           /\ Queue!Shutdown => Grew(jobs, jobs') /\ ids' = ids
           /\ \A S : Queue!Cancel(S) \/ Queue!Retry(S) => Grew(jobs, jobs') /\ ids' = ids
           /\ Queue!Pause \/ Queue!Resume \/ Queue!Enable => jobs' = jobs /\ ids' = ids
<1>0. jobs \in Seq(Rows) /\ DOMAIN jobs = 1..Len(jobs) /\ \A i \in DOMAIN jobs : jobs[i] \in Rows
  BY RowTyped DEF QueueState
<1> DEFINE C == [i \in DOMAIN jobs |-> Queue!Cancelled(jobs[i])]
           R == [i \in DOMAIN jobs |-> Queue!Requeued(jobs[i])]
           At(I, op) == [i \in DOMAIN jobs |-> IF i \in I THEN op[i] ELSE jobs[i]]
<1>1. \A i \in DOMAIN jobs : /\ C[i] \in Rows /\ C[i].id = jobs[i].id
                             /\ R[i] \in Rows /\ R[i].id = jobs[i].id
  BY <1>0, OpsTyped
<1>2. Queue!Disable => ids' = ids /\ \E I : jobs' = At(I, C)
  BY DEF Queue!Disable, Queue!Changed
<1>3. Queue!Shutdown => ids' = ids /\ \E I : jobs' = At(I, C)
  BY DEF Queue!Shutdown, Queue!Changed
<1>4. \A S : Queue!Cancel(S) => ids' = ids /\ \E I : jobs' = At(I, C)
  BY DEF Queue!Cancel, Queue!Update, Queue!Changed
<1>5. \A S : Queue!Retry(S) => ids' = ids /\ \E I : jobs' = At(I, R)
  BY DEF Queue!Retry, Queue!Update, Queue!Changed
<1>6. Queue!Pause \/ Queue!Resume \/ Queue!Enable => jobs' = jobs /\ ids' = ids
  BY DEF Queue!Pause, Queue!Resume, Queue!Enable, Queue!feed
<1> HIDE DEF C, R
<1>7. \A I : (jobs' = At(I, C) => Grew(jobs, jobs')) /\ (jobs' = At(I, R) => Grew(jobs, jobs'))
  BY <1>1, ChangeGrows
<1> HIDE DEF At
<1> QED
  BY <1>2, <1>3, <1>4, <1>5, <1>6, <1>7

\* New jobs follow the others.
LEMMA AddGrows ==
    ASSUME QueueState, NEW n \in 1..2, Queue!Add(n)
    PROVE  Grew(jobs, jobs') /\ ids' \in Nat
<1> DEFINE new == [k \in 1..n |-> Queue!New(ids + k)]
<1>1. ids' = ids + n /\ ids + n <= QueueJobs /\ jobs' = jobs \o new
  BY DEF Queue!Add
<1>2. ids \in Nat /\ jobs \in Seq(Rows) /\ QueueJobs \in Nat /\ Len(jobs) \in Nat
  BY FeedGiven, RowTyped DEF QueueState
<1>3. \A i \in 1..QueueJobs : Queue!New(i) \in Rows
  <2>1. "queued" \in Queue!Statuses
    BY DEF Queue!Statuses
  <2> QED
    BY <2>1 DEF Queue!New, Rows
<1>4. \A k \in 1..n : ids + k \in 1..QueueJobs
  BY <1>1, <1>2
<1>5. new \in [1..n -> Rows]
  BY <1>3, <1>4
<1> HIDE DEF new
<1>6. new \in Seq(Rows) /\ Len(new) \in Nat
  BY <1>5
<1>7. jobs \o new \in Seq(Rows) /\ Len(jobs \o new) = Len(jobs) + Len(new)
      /\ \A i \in 1..Len(jobs) : (jobs \o new)[i] = jobs[i]
  BY <1>2, <1>6
<1>8. Len(jobs) <= Len(jobs) + Len(new)
  BY <1>2, <1>6
<1> QED
  BY <1>1, <1>2, <1>7, <1>8 DEF Grew

(***************************************************************************)
(* The list of transfers: the window                                       *)
(***************************************************************************)

\* The jobs change where they are or more follow, the list stays.
LEMMA FeedSteps ==
    ASSUME QueueState, Grew(jobs, jobs'), ids' \in Nat,
           shown' = shown, row' = row, picked' = picked, after' = after
    PROVE  QueueState'
<1>1. after = 0 => Grew(shown, jobs')
  BY GrewOn DEF QueueState
<1>2. jobs' \in Seq(Rows)
  BY DEF Grew
<1>3. Grew(shown, jobs)' <=> Grew(shown, jobs')
  BY DEF Grew, Rows
<1> QED
  BY <1>1, <1>2, <1>3 DEF QueueState

\* The list is the queue's, with a row that is the job selected.
LEMMA CopySteps ==
    ASSUME QueueState, jobs' = jobs, ids' = ids, shown' = jobs, picked' = picked, after' = 0,
           row' \in 0..Len(jobs), row' # 0 => jobs[row'].id = picked
    PROVE  QueueState'
<1>1. Grew(jobs, jobs)
  BY GrewOn DEF QueueState, Grew
<1>2. Grew(shown, jobs)'
  BY <1>1 DEF Grew, Rows
<1> QED
  BY <1>2 DEF QueueState

\* A command remembers the job, or that there was none.
LEMMA CommandSteps ==
    ASSUME QueueState, jobs' \in Seq(Rows), ids' = ids, shown' = shown, row' = row,
           picked' = picked, after' # 0, after' \in {picked, QueueJobs + 1}
    PROVE  QueueState'
  BY DEF QueueState

\* Nothing of the list changes.
LEMMA IdleSteps ==
    ASSUME QueueState, jobs' = jobs, ids' = ids, shown' = shown, row' = row,
           picked' = picked, after' = after
    PROVE  QueueState'
  BY DEF QueueState, Grew, Rows

\* The ticker copies a list that has grown: the selected row keeps its job.
LEMMA TickSteps ==
    ASSUME QueueState, Queue!Tick
    PROVE  QueueState'
<1>1. /\ after = 0 /\ shown' = jobs /\ row' = IF row > Len(jobs) THEN 0 ELSE row
      /\ UNCHANGED <<jobs, ids, after, picked>>
  BY DEF Queue!Tick, Queue!feed
<1>2. Grew(shown, jobs) /\ row \in 0..Len(shown) /\ Len(shown) \in Nat /\ Len(jobs) \in Nat
      /\ (row # 0 => shown[row].id = picked)
  BY <1>1, RowTyped DEF QueueState
<1>3. Len(shown) <= Len(jobs) /\ \A i \in 1..Len(shown) : jobs[i].id = shown[i].id
  BY <1>2 DEF Grew
<1>4. row \in 0..Len(jobs) /\ row' = row /\ (row # 0 => row \in 1..Len(shown))
  BY <1>1, <1>2, <1>3
<1> QED
  BY <1>1, <1>2, <1>3, <1>4, CopySteps

\* The user selects a row.
LEMMA SelectSteps ==
    ASSUME QueueState, NEW i \in Nat, Queue!Select(i)
    PROVE  QueueState'
<1>1. /\ after = 0 /\ i \in DOMAIN shown /\ row' = i /\ picked' = shown[i].id
      /\ UNCHANGED <<jobs, ids, after, shown>>
  BY DEF Queue!Select, Queue!feed
<1>2. DOMAIN shown = 1..Len(shown) /\ Len(shown) \in Nat
  BY RowTyped DEF QueueState
<1>3. row' \in 0..Len(shown)
  BY <1>1, <1>2
<1> QED
  BY <1>1, <1>3 DEF QueueState, Grew, Rows

\* The job of the selected row.
LEMMA SelectedFacts ==
    ASSUME QueueState, row # 0
    PROVE  picked = shown[row].id /\ picked \in 1..QueueJobs /\ picked # 0
<1>1. row \in 1..Len(shown) /\ picked = shown[row].id
  BY RowTyped DEF QueueState
<1>2. picked \in 1..QueueJobs
  BY <1>1, RowTyped DEF QueueState
<1> QED
  BY <1>1, <1>2, FeedGiven

\* A command copies the list and finds the job again, by its id.
LEMMA RestoreSteps ==
    ASSUME QueueState, Queue!Restore
    PROVE  QueueState'
<1>1. /\ after # 0 /\ after' = 0 /\ shown' = jobs /\ UNCHANGED <<jobs, ids, picked>>
      /\ row' = IF \E i \in DOMAIN jobs : jobs[i].id = after
                THEN CHOOSE i \in DOMAIN jobs : jobs[i].id = after ELSE 0
  BY DEF Queue!Restore, Queue!feed
<1>2. DOMAIN jobs = 1..Len(jobs) /\ Len(jobs) \in Nat
        /\ \A i \in 1..Len(jobs) : jobs[i].id \in 1..QueueJobs
  BY RowTyped DEF QueueState
<1>3. CASE \E i \in DOMAIN jobs : jobs[i].id = after
  <2>1. row' \in 1..Len(jobs) /\ jobs[row'].id = after
    BY <1>1, <1>2, <1>3
  <2>2. after # QueueJobs + 1
    BY <1>2, <2>1, FeedGiven
  <2>3. after = picked
    BY <1>1, <2>2 DEF QueueState
  <2> QED
    BY <1>1, <1>2, <2>1, <2>3, CopySteps
<1>4. CASE ~ \E i \in DOMAIN jobs : jobs[i].id = after
  <2>1. row' = 0 /\ row' \in 0..Len(jobs)
    BY <1>1, <1>2, <1>4
  <2> QED
    BY <1>1, <2>1, CopySteps
<1> QED
  BY <1>3, <1>4

\* Every click on the list and its controls.
LEMMA ClickSteps ==
    ASSUME QueueState, Queue!Click
    PROVE  QueueState'
<1>1. CASE Queue!PauseClick \/ Queue!ResumeClick
  <2>1. UNCHANGED <<shown, row, after, picked>> /\ (Queue!Pause \/ Queue!Resume)
    BY <1>1 DEF Queue!PauseClick, Queue!ResumeClick
  <2>2. jobs' = jobs /\ ids' = ids
    BY <2>1, CallsGrow
  <2> QED
    BY <2>1, <2>2, IdleSteps
<1>2. ASSUME jobs' \in Seq(Rows) /\ ids' = ids, row # 0, after' = shown[row].id,
             UNCHANGED <<shown, row, picked>>
      PROVE  QueueState'
  BY <1>2, SelectedFacts, CommandSteps
<1>3. CASE Queue!ClearClick
  <2>1. Queue!ClearFinished /\ UNCHANGED <<shown, row, picked>>
        /\ (after' = QueueJobs + 1 \/ (row # 0 /\ after' = shown[row].id))
    BY <1>3 DEF Queue!ClearClick, Queue!Command
  <2>2. jobs' \in Seq(Rows) /\ ids' = ids
    BY <2>1, ClearTyped
  <2>3. QueueJobs + 1 # 0
    BY FeedGiven
  <2> QED
    BY <1>2, <2>1, <2>2, <2>3, CommandSteps
<1>4. CASE Queue!CancelClick \/ Queue!RetryClick
  <2>1. /\ row # 0 /\ after' = shown[row].id /\ UNCHANGED <<shown, row, picked>>
        /\ \E S : Queue!Cancel(S) \/ Queue!Retry(S)
    BY <1>4 DEF Queue!CancelClick, Queue!RetryClick, Queue!Command
  <2>2. jobs' \in Seq(Rows) /\ ids' = ids
    BY <2>1, CallsGrow DEF Grew
  <2> QED
    BY <1>2, <2>1, <2>2
<1>5. ASSUME NEW to \in {"top", "up", "down", "bottom"}, Queue!MoveClick(to)
      PROVE  QueueState'
  <2>1. /\ row # 0 /\ after' = shown[row].id /\ UNCHANGED <<shown, row, picked>>
        /\ Queue!Move(shown[row].id, to)
    BY <1>5 DEF Queue!MoveClick, Queue!Command
  <2>2. jobs' \in Seq(Rows) /\ ids' = ids
    BY <2>1, MoveTyped
  <2> QED
    BY <1>2, <2>1, <2>2
<1>6. CASE Queue!RailTransfers
  BY <1>6, SelectSteps DEF Queue!RailTransfers
<1>7. ASSUME NEW i \in 1..QueueJobs, Queue!Select(i)
      PROVE  QueueState'
  BY <1>7, SelectSteps
<1>8. ASSUME NEW n \in 1..2, Queue!AddClick(n)
      PROVE  QueueState'
  <2>1. Queue!Add(n) /\ UNCHANGED <<shown, row, after, picked>>
    BY <1>8 DEF Queue!AddClick, Queue!win
  <2> QED
    BY <2>1, AddGrows, FeedSteps
<1> QED
  BY <1>1, <1>3, <1>4, <1>5, <1>6, <1>7, <1>8 DEF Queue!Click

\* The connection begins and ends, with the jobs that were waiting.
LEMMA LinkSteps ==
    ASSUME QueueState, Queue!Connecting \/ Queue!Disconnecting
    PROVE  QueueState'
<1>1. UNCHANGED <<shown, row, after, picked>>
      /\ (UNCHANGED <<jobs, ids>> \/ Queue!Enable \/ Queue!Disable)
  BY DEF Queue!Connecting, Queue!Disconnecting, Queue!Link, Queue!feed
<1>2. CASE UNCHANGED <<jobs, ids>> \/ Queue!Enable
  <2>1. jobs' = jobs /\ ids' = ids
    BY <1>2, CallsGrow
  <2> QED
    BY <1>1, <2>1, IdleSteps
<1>3. CASE Queue!Disable
  <2>1. Grew(jobs, jobs') /\ ids' = ids
    BY <1>3, CallsGrow
  <2> QED
    BY <1>1, <2>1, FeedSteps DEF QueueState
<1> QED
  BY <1>1, <1>2, <1>3

\* Every step of the queue and its window keeps the invariant.
LEMMA QueueStep ==
    ASSUME QueueState, Queue!Next
    PROVE  QueueState'
<1>1. CASE (Queue!Worker \/ Queue!Shutdown) /\ UNCHANGED Queue!win
  <2>1. Grew(jobs, jobs') /\ ids' = ids
    BY <1>1, WorkerGrows, CallsGrow
  <2>2. ids' \in Nat /\ UNCHANGED <<shown, row, after, picked>>
    BY <1>1, <2>1 DEF QueueState, Queue!win
  <2> QED
    BY <2>1, <2>2, FeedSteps
<1> QED
  BY <1>1, TickSteps, ClickSteps, RestoreSteps, LinkSteps DEF Queue!Next

(***************************************************************************)
(* Panes, and a search                                                     *)
(***************************************************************************)

\* Another filter or order keeps the selection of a pane, or drops it.
LEMMA ViewSelects ==
    ASSUME View!Next
    PROVE  View!SelectionStaysStep
<1>1. ASSUME viewSelected' = View!Restored(viewRows')
      PROVE  View!SelectionStaysStep
  BY <1>1 DEF View!Restored, View!SelectionStaysStep
<1>2. ASSUME viewQuery' = viewQuery, viewSort' = viewSort
      PROVE  View!SelectionStaysStep
  BY <1>2 DEF View!SelectionStaysStep
<1>3. ASSUME NEW n \in RowLists, View!Listed(n)
      PROVE  View!SelectionStaysStep
  BY <1>2, <1>3 DEF View!Listed
<1>4. ASSUME NEW n \in Queries, View!ApplyFilter(n)
      PROVE  View!SelectionStaysStep
  BY <1>1, <1>4 DEF View!ApplyFilter
<1>5. ASSUME View!CycleSort
      PROVE  View!SelectionStaysStep
  BY <1>1, <1>5 DEF View!CycleSort
<1>6. ASSUME NEW f, View!ClickColumn(f)
      PROVE  View!SelectionStaysStep
  BY <1>1, <1>6 DEF View!ClickColumn
<1>7. ASSUME NEW n, View!Select(n)
      PROVE  View!SelectionStaysStep
  BY <1>2, <1>7 DEF View!Select
<1>8. ASSUME View!Disconnecting \/ View!Disconnected \/ View!Connected
      PROVE  View!SelectionStaysStep
  BY <1>2, <1>8 DEF View!Disconnecting, View!Disconnected, View!Connected
<1>9. ASSUME View!CloseSearch
      PROVE  View!SelectionStaysStep
  BY <1>2, <1>9 DEF View!CloseSearch
<1>10. ASSUME NEW n, View!LeaveSearch(n)
       PROVE  View!SelectionStaysStep
  BY <1>10 DEF View!LeaveSearch, View!SelectionStaysStep
<1> QED
  BY <1>3, <1>4, <1>5, <1>6, <1>7, <1>8, <1>9, <1>10 DEF View!Next

\* The same, for the table of both windows.
LEMMA TableSelects ==
    ASSUME Table!Next
    PROVE  Table!SelectionStaysStep
<1>1. ASSUME tableSelected' = Table!Restored(tableRows')
      PROVE  Table!SelectionStaysStep
  BY <1>1 DEF Table!Restored, Table!SelectionStaysStep
<1>2. ASSUME tableQuery' = tableQuery, tableSort' = tableSort
      PROVE  Table!SelectionStaysStep
  BY <1>2 DEF Table!SelectionStaysStep
<1>3. ASSUME NEW n \in RowLists, Table!Listed(n)
      PROVE  Table!SelectionStaysStep
  BY <1>2, <1>3 DEF Table!Listed
<1>4. ASSUME NEW n \in Queries, Table!ApplyFilter(n)
      PROVE  Table!SelectionStaysStep
  BY <1>1, <1>4 DEF Table!ApplyFilter
<1>5. ASSUME Table!CycleSort
      PROVE  Table!SelectionStaysStep
  BY <1>1, <1>5 DEF Table!CycleSort
<1>6. ASSUME NEW f, Table!ClickColumn(f)
      PROVE  Table!SelectionStaysStep
  BY <1>1, <1>6 DEF Table!ClickColumn
<1>7. ASSUME NEW n, Table!Select(n)
      PROVE  Table!SelectionStaysStep
  BY <1>2, <1>7 DEF Table!Select
<1>8. ASSUME Table!Disconnecting \/ Table!Disconnected \/ Table!Connected
      PROVE  Table!SelectionStaysStep
  BY <1>2, <1>8 DEF Table!Disconnecting, Table!Disconnected, Table!Connected
<1>9. ASSUME Table!CloseSearch
      PROVE  Table!SelectionStaysStep
  BY <1>2, <1>9 DEF Table!CloseSearch
<1>10. ASSUME NEW n, Table!LeaveSearch(n)
       PROVE  Table!SelectionStaysStep
  BY <1>10 DEF Table!LeaveSearch, Table!SelectionStaysStep
<1> QED
  BY <1>3, <1>4, <1>5, <1>6, <1>7, <1>8, <1>9, <1>10 DEF Table!Next

\* A walk has what it has handed over, and a state.
Tracked(v) == "out" \in DOMAIN v /\ "state" \in DOMAIN v

\* The inductive invariant of a search: it has what it has handed over.
SearchState == Tracked(searchW) /\ (searchTo = "windows" \/ searchTo = "linux")

\* The walk v became u: after a cancel it has handed over at most what it had found,
\* to the Linux window.
Showing(v, u) ==
    /\ Tracked(u)
    /\ ctx = "cancelled" => \/ u.out = v.out
                            \/ searchTo = "linux" /\ u.out = Append(v.out, v.batch)

\* A batch is handed over; after a cancel the Windows window refuses it.
LEMMA FlushedShows ==
    ASSUME NEW v, Tracked(v), searchTo = "windows" \/ searchTo = "linux"
    PROVE  Showing(v, Search!Flushed(v))
  BY DEF Tracked, Showing, Search!Flushed, Search!Refuses

\* So is the last one, and the walk is over.
LEMMA EndsShows ==
    ASSUME NEW v, Tracked(v), searchTo = "windows" \/ searchTo = "linux", NEW r
    PROVE  /\ Showing(v, Search!Ends(v, r)) /\ Search!Ends(v, r).state # "runs"
           /\ Showing(v, Search!StoppedByContext(v))
           /\ Search!StoppedByContext(v).state # "runs"
<1>1. Showing(v, Search!Flushed(v))
  BY FlushedShows
<1>2. \A x : Showing(v, Search!Ends(v, x)) /\ Search!Ends(v, x).state # "runs"
  BY <1>1 DEF Showing, Tracked, Search!Ends
<1> DEFINE g == [Search!Flushed(v) EXCEPT !.state = "failed"]
<1>3. Showing(v, g) /\ g.state # "runs"
  BY <1>1 DEF Showing, Tracked
<1> QED
  BY <1>2, <1>3 DEF Search!StoppedByContext

\* An item is visited.
LEMMA VisitedShows ==
    ASSUME NEW v, Tracked(v), searchTo = "windows" \/ searchTo = "linux", NEW n
    PROVE  Tracked(Search!Visited(v, n))
<1>1. ASSUME NEW x, Tracked(x)
      PROVE  Tracked(Search!MatchedItem(x, n))
  <2> DEFINE b == [x EXCEPT !.batch = Append(@, n), !.results = @ + 1]
             f == IF Len(b.batch) >= opt["batch"] THEN Search!Flushed(b) ELSE b
  <2>1. Tracked(b)
    BY <1>1 DEF Tracked
  <2> HIDE DEF b
  <2>2. Tracked(f)
    BY <2>1, FlushedShows DEF Showing
  <2>3. Search!MatchedItem(x, n) =
          IF f.state = "runs" /\ f.results >= opt["results"]
          THEN Search!Ends(f, "result_limit") ELSE f
    BY DEF Search!MatchedItem, b
  <2> HIDE DEF f
  <2> QED
    BY <2>2, <2>3, EndsShows DEF Showing
<1>2. ASSUME NEW x, Tracked(x)
      PROVE  Tracked(Search!Queued(x, n))
  BY <1>2 DEF Tracked, Search!Queued
<1> DEFINE s == [v EXCEPT !.visited = @ + 1, !.rest = Tail(@)]
<1>3. Tracked(s) /\ Tracked([v EXCEPT !.state = "failed"])
  BY DEF Tracked
<1>4. Tracked(Search!Ends(v, "item_limit"))
  BY EndsShows DEF Showing
<1>5. Search!Visited(v, n) =
        IF v.visited >= opt["visited"] THEN Search!Ends(v, "item_limit")
        ELSE IF n = "b" /\ tree.b = "bad" THEN [v EXCEPT !.state = "failed"]
        ELSE Search!Queued(IF n \in tree.hits THEN Search!MatchedItem(s, n) ELSE s, n)
  BY DEF Search!Visited
<1> HIDE DEF s
<1> QED
  BY <1>1, <1>2, <1>3, <1>4, <1>5

\* Nothing is shown at the start.
LEMMA SearchStarts ==
    ASSUME Search!Init
    PROVE  SearchState
<1>1. PICK b \in {TRUE, FALSE} :
        searchW = IF b THEN Search!Start ELSE [Search!Start EXCEPT !.state = "failed"]
  BY DEF Search!Init
<1>2. "out" \in DOMAIN Search!Start /\ "state" \in DOMAIN Search!Start
  BY DEF Search!Start
<1>3. searchTo = "windows" \/ searchTo = "linux"
  BY DEF Search!Init
<1> HIDE DEF Search!Start
<1> QED
  BY <1>1, <1>2, <1>3 DEF SearchState, Tracked

\* Every step keeps that, and after a cancel only what had been found is handed over,
\* to the Linux window.
LEMMA SearchStep ==
    ASSUME SearchState, Search!Next
    PROVE  SearchState' /\ Search!CancelIsQuietStep
<1>1. Tracked(searchW) /\ (searchTo = "windows" \/ searchTo = "linux") /\ searchTo' = searchTo
  BY DEF SearchState, Search!Next, Search!Walk, Search!Item, Search!Directory, Search!Finish,
         Search!Deadline, Search!Cancel
<1>2. ASSUME Showing(searchW, searchW'), searchW'.state # "runs"
      PROVE  SearchState' /\ Search!CancelIsQuietStep
  BY <1>1, <1>2 DEF Showing, Tracked, SearchState, Search!CancelIsQuietStep
<1>3. ASSUME searchW' = searchW
      PROVE  SearchState' /\ Search!CancelIsQuietStep
  BY <1>1, <1>3 DEF SearchState, Tracked, Search!CancelIsQuietStep
<1>4. ASSUME ctx = "live", Tracked(searchW')
      PROVE  SearchState' /\ Search!CancelIsQuietStep
  BY <1>1, <1>4 DEF SearchState, Tracked, Search!CancelIsQuietStep
<1>5. CASE Search!Item
  <2>1. CASE ctx # "live"
    BY <1>1, <1>2, <1>5, <2>1, EndsShows DEF Search!Item
  <2>2. CASE ctx = "live"
    <3>1. searchW' = Search!Visited(searchW, Head(searchW.rest))
      BY <1>5, <2>2 DEF Search!Item
    <3>2. Tracked(Search!Visited(searchW, Head(searchW.rest)))
      BY <1>1, VisitedShows
    <3>3. Tracked(searchW')
      BY <3>1, <3>2
    <3> QED
      BY <1>4, <2>2, <3>3
  <2> QED
    BY <2>1, <2>2
<1>6. CASE Search!Directory
  <2>1. CASE ctx # "live" /\ searchW' = Search!StoppedByContext(searchW)
    BY <1>1, <1>2, <2>1, EndsShows
  <2>2. CASE /\ ctx = "live"
             /\ searchW' = [searchW EXCEPT !.at = Head(searchW.queue), !.queue = Tail(@),
                                           !.rest = Search!Holds[Head(searchW.queue)]]
    BY <1>1, <1>4, <2>2 DEF Tracked
  <2>3. CASE ctx = "live" /\ searchW' = [searchW EXCEPT !.state = "failed"]
    BY <1>1, <1>4, <2>3 DEF Tracked
  <2> QED
    BY <1>6, <2>1, <2>2, <2>3 DEF Search!Directory
<1>7. CASE Search!Finish
  <2>1. PICK r : searchW' = Search!Ends(searchW, r)
    BY <1>7 DEF Search!Finish
  <2> QED
    BY <1>1, <1>2, <2>1, EndsShows
<1>8. CASE Search!Deadline \/ Search!Cancel
  BY <1>3, <1>8 DEF Search!Deadline, Search!Cancel
<1> QED
  BY <1>5, <1>6, <1>7, <1>8 DEF Search!Next, Search!Walk

(***************************************************************************)
(* The suite                                                               *)
(***************************************************************************)

\* The component a behaviour is about begins in its own initial states.
LEMMA PartStarts ==
    ASSUME Init
    PROVE  /\ part = "main" => Main!Init
           /\ part = "found" => Found!Init
           /\ part = "pairs" => Pairs!Init
           /\ part = "history" => History!Init
           /\ part = "marks" => Marks!Init
           /\ part = "queue" => Queue!Init
           /\ part = "search" => Search!Init
  BY DEF Init

\* A step is one of the component the behaviour is about.
LEMMA PartMoves ==
    ASSUME Next
    PROVE  /\ part' = part
           /\ part = "main" => Main!Next
           /\ part = "found" => Found!Next
           /\ part = "pairs" => Pairs!Next
           /\ part = "history" => History!Next
           /\ part = "marks" => Marks!Next
           /\ part = "queue" => Queue!Next
           /\ part = "view" => View!Next
           /\ part = "table" => Table!Next
           /\ part = "search" => Search!Next
  BY DEF Next, OnlyMain, OnlyFound, OnlyPairs, OnlyHistory, OnlyMarks, OnlyLayout, OnlyQueue,
         OnlyView, OnlyTable, OnlySearch, OnlyShared

\* The inductive invariant of a behaviour: that of the component it is about.
LinuxState ==
    /\ part = "main" => MainState
    /\ part = "found" => FoundState
    /\ part = "pairs" => PairsState
    /\ part = "history" => HistoryState
    /\ part = "marks" => MarksState
    /\ part = "queue" => QueueState
    /\ part = "search" => SearchState

\* Every behaviour begins in it.
LEMMA LinuxStarts ==
    ASSUME Init
    PROVE  LinuxState
  BY PartStarts, MainStarts, FoundStarts, PairsStarts, HistoryStarts, MarksStarts, QueueStarts,
     SearchStarts DEF LinuxState

\* Every step stays in it.
LEMMA LinuxMoves ==
    ASSUME LinuxState, Next
    PROVE  LinuxState'
<1>1. part' = part
  BY PartMoves
<1>2. part = "main" => MainState'
  BY PartMoves, MainStep DEF LinuxState
<1>3. part = "found" => FoundState'
  BY PartMoves, FoundStep DEF LinuxState
<1>4. part = "pairs" => PairsState'
  BY PartMoves, PairsStep DEF LinuxState
<1>5. part = "history" => HistoryState'
  BY PartMoves, HistoryStep DEF LinuxState
<1>6. part = "marks" => MarksState'
  BY PartMoves, MarksStep DEF LinuxState
<1>7. part = "queue" => QueueState'
  BY PartMoves, QueueStep DEF LinuxState
<1>8. part = "search" => SearchState'
  BY PartMoves, SearchStep DEF LinuxState
<1> QED
  BY <1>1, <1>2, <1>3, <1>4, <1>5, <1>6, <1>7, <1>8 DEF LinuxState

\* What the invariant says depends on the variables of the components alone.
LEMMA LinuxRests ==
    ASSUME LinuxState, UNCHANGED vars
    PROVE  LinuxState'
<1>1. part' = part
  BY DEF vars
<1>2. MainState => MainState'
  BY DEF vars, MainVars, MainState, Sound, Fits, LocalKept, Main!ChangedWhereSeen
<1>3. FoundState => FoundState'
  BY DEF vars, FoundVars, FoundState
<1>4. PairsState => PairsState'
  BY DEF vars, PairsVars, PairsState
<1>5. HistoryState => HistoryState'
  BY DEF vars, HistoryVars, HistoryState, HistoryTyped, OnServer, Replaying,
         History!ForwardReturns
<1>6. MarksState => MarksState'
  BY DEF vars, MarksVars, MarksState, MarksKept, Viewport, InViewport, MarksFresh, MarksNamed,
         MarksKnown, MarksListed
<1>7. QueueState => QueueState'
  BY DEF vars, QueueVars, QueueState
<1>8. SearchState => SearchState'
  BY DEF vars, SearchVars, SearchState, Tracked
<1> QED
  BY <1>1, <1>2, <1>3, <1>4, <1>5, <1>6, <1>7, <1>8 DEF LinuxState

\* A behaviour of the suite keeps the inductive invariant of its component.
THEOREM LinuxInvariant == Spec => []LinuxState
<1>1. LinuxState /\ [Next]_vars => LinuxState'
  BY LinuxMoves, LinuxRests
<1> QED
  BY <1>1, LinuxStarts, PTL DEF Spec

\* A search or a comparison holds the window while it is shown, a busy window has a task
\* or a result to wait for, and the two panes of a comparison go together: for any number
\* of searches, comparisons, goroutines and results under way (gui_linux.go,
\* recursive_search_linux.go, directory_compare_linux.go).
THEOREM ModalAlwaysHolds == Spec => []ModalHoldsWindow
<1>1. LinuxState => ModalHoldsWindow
  BY FoundHolds, PairsHolds DEF LinuxState, ModalHoldsWindow
<1> QED
  BY <1>1, LinuxInvariant, PTL

\* The user acts on what is seen: on a question where it was asked; on a file in the
\* directory its row is of, unless a path was put into the field since, and always on the
\* server its row is of; on the bookmark and the transfer that were selected although both
\* lists are replaced under the selection; and on a place of this server when going back
\* and forward.  For every set of servers and directories, any bound of the history, and
\* any number of bookmarks and jobs (gui_linux.go, bookmark_linux.go,
\* queue_actions_linux.go, linux_master_rail.go).
THEOREM AlwaysActsWhereSeen == Spec => []ActsWhereSeen
<1>1. LinuxState => ActsWhereSeen
  BY MainHolds, MarksHolds, QueueHolds, HistoryHolds DEF LinuxState, ActsWhereSeen
<1> QED
  BY <1>1, LinuxInvariant, PTL

\* A step of the user does what it was asked to: while deletions are to be confirmed a
\* deletion is the one of the question, of its side and directory; a bookmark that goes is
\* the one the question named and one that is saved becomes the selected one; closing a
\* search or a comparison returns what was there; another filter or order keeps the
\* selection; a replay that is over has lost no place; and a cancelled search hands nothing
\* more to the Windows window, and at most what it had found to the Linux one.
THEOREM StepsAreAsAsked == Spec => StepsAsAsked
<1> DEFINE Step == /\ part = "main" => Main!DeletedWasAskedStep
                   /\ part = "found" => Found!CloseReturnsStep
                   /\ part = "pairs" => Pairs!CloseReturnsStep
                   /\ part = "marks" => Marks!RemovesTheNamedStep /\ Marks!SavedIsSelectedStep
                   /\ part = "view" => View!SelectionStaysStep
                   /\ part = "table" => Table!SelectionStaysStep
                   /\ part = "history" => History!ReplayKeepsPlacesStep
                   /\ part = "search" => Search!CancelIsQuietStep
<1>1. ASSUME LinuxState, Next
      PROVE  Step
  <2>1. part = "main" => Main!DeletedWasAskedStep
    BY <1>1, PartMoves, MainStep DEF LinuxState
  <2>2. part = "found" => Found!CloseReturnsStep
    BY <1>1, PartMoves, FoundStep DEF LinuxState
  <2>3. part = "pairs" => Pairs!CloseReturnsStep
    BY <1>1, PartMoves, PairsStep DEF LinuxState
  <2>4. part = "marks" => Marks!RemovesTheNamedStep /\ Marks!SavedIsSelectedStep
    BY <1>1, PartMoves, MarksStep DEF LinuxState
  <2>5. part = "view" => View!SelectionStaysStep
    BY <1>1, PartMoves, ViewSelects
  <2>6. part = "table" => Table!SelectionStaysStep
    BY <1>1, PartMoves, TableSelects
  <2>7. part = "history" => History!ReplayKeepsPlacesStep
    BY <1>1, PartMoves, HistoryStep DEF LinuxState
  <2>8. part = "search" => Search!CancelIsQuietStep
    BY <1>1, PartMoves, SearchStep DEF LinuxState
  <2> QED
    BY <2>1, <2>2, <2>3, <2>4, <2>5, <2>6, <2>7, <2>8
<1>2. LinuxState /\ [Next]_vars => [Step]_vars
  BY <1>1
<1>3. []LinuxState /\ [][Next]_vars => [][Step]_vars
  BY <1>2, PTL
<1> QED
  BY <1>3, LinuxInvariant, PTL DEF Spec, StepsAsAsked
=============================================================================
