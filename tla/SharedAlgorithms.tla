--------------------------- MODULE SharedAlgorithms ---------------------------
(***************************************************************************)
(* What both windows compute without any state of their own.               *)
(*                                                                         *)
(* The comparison of a listed local directory with a listed remote one     *)
(* (internal/directorycompare/compare.go), and which of its rows may be    *)
(* opened on both sides (sync.go).  A time is 0 when the listing has none; *)
(* differences of times saturate, as Go's durations do.                    *)
(*                                                                         *)
(* What remote editing does to a file that is not in the user's text: line *)
(* ends (internal/desktop/remote_edit_buffer.go) and permissions           *)
(* (remoteEditPermissionMode of internal/api/remote_edit.go).  A text is a *)
(* sequence of "x", "CR" and "LF".  Permissions are what a server lists,   *)
(* "-rwxr-sr--", as a sequence of ten letters.                             *)
(***************************************************************************)
EXTENDS Integers, Sequences, FiniteSets, SequencesExt

CONSTANTS Tolerance,      \* the difference of times that counts as none
          MaxDuration,    \* the longest duration there is
          Firsts, Extras, \* the items, and the second items, a listing may hold
          MaxText         \* length of the texts (bound)

\* What every instance has to satisfy.
AlgorithmAssumption ==
    /\ Tolerance \in Nat /\ MaxDuration \in Nat /\ Tolerance < MaxDuration
    /\ MaxText \in Nat

VARIABLES in, out  \* what is given, and what comes out of it

vars == <<in, out>>

-----------------------------------------------------------------------------
(* Comparison *)

\* A listing of at most two items.
Listings == {<<>>} \cup {<<i>> : i \in Firsts} \cup {<<i, j>> : i \in Firsts, j \in Extras}

Sub(a, b) == IF a - b > MaxDuration THEN MaxDuration
             ELSE IF a - b < -MaxDuration - 1 THEN -MaxDuration - 1 ELSE a - b

\* Mutant: the older minus the newer, without its sign; that of the least overflows.
NewerAbsolute(a, b) ==
    LET d == Sub(b, a) IN a > b /\ (IF d = -MaxDuration - 1 THEN d ELSE -d) > Tolerance

Newer(a, b) == a > b /\ Sub(a, b) > Tolerance

\* Two files of one name.
Files(l, r) ==
    IF l.time = 0 \/ r.time = 0 THEN IF l.size # r.size THEN "conflict" ELSE "unknown"
    ELSE IF Newer(l.time, r.time) THEN "newer_local"
    ELSE IF Newer(r.time, l.time) THEN "newer_remote"
    ELSE IF l.size # r.size THEN "conflict"
    ELSE IF l.size = 0 THEN "unknown" ELSE "same"

\* classifyPair.
Classified(l, r) ==
    IF l.link \/ r.link THEN "unknown" ELSE IF l.dir # r.dir THEN "conflict"
    ELSE IF l.dir THEN "same" ELSE Files(l, r)

\* groupByExactName: the items of one name, in the order of the listing.
Named(items, n) == SelectSeq(items, LAMBDA i : i.name = n)

NamesOf(items) == {i.name : i \in ToSet(items)}

EntryOf(n, ls, rs) ==
    [name |-> n, local |-> ls, remote |-> rs,
     status |-> IF Len(ls) > 1 \/ Len(rs) > 1 THEN "conflict"
                ELSE IF ls = <<>> THEN "remote_only"
                ELSE IF rs = <<>> THEN "local_only"
                ELSE Classified(ls[1], rs[1])]

\* One entry for each name, in the order of the names.
Compared(ls, rs) ==
    LET names == SetToSortSeq(NamesOf(ls) \cup NamesOf(rs), <) IN
    [k \in DOMAIN names |-> EntryOf(names[k], Named(ls, names[k]), Named(rs, names[k]))]

\* SynchronizedDirectoryName.
Synchronized(n) ==
    \E e \in ToSet(out.rows) :
        /\ e.name = n /\ e.status = "same" /\ e.local # <<>> /\ e.remote # <<>>
        /\ e.local[1].dir /\ e.remote[1].dir /\ ~e.local[1].link /\ ~e.remote[1].link

-----------------------------------------------------------------------------
(* Line ends *)

\* normalizeRemoteEditorText: CRLF first, then what is left of CR.
Normalize(t) ==
    LET keep == SelectSeq([i \in 1..Len(t) |-> i],
                          LAMBDA i : ~(t[i] = "CR" /\ i < Len(t) /\ t[i + 1] = "LF"))
    IN [k \in 1..Len(keep) |-> IF t[keep[k]] = "CR" THEN "LF" ELSE t[keep[k]]]

HasCRLF(t) == \E i \in 1..Len(t) - 1 : t[i] = "CR" /\ t[i + 1] = "LF"

\* Outside of the pairs.
HasLF(t) == \E i \in 1..Len(t) : t[i] = "LF" /\ (i > 1 => t[i - 1] # "CR")
HasCR(t) == \E i \in 1..Len(t) : t[i] = "CR" /\ (i < Len(t) => t[i + 1] # "LF")

\* Mutant: a single CR among other line ends is not noticed.
StylesOfTwo(t) == {s \in {"CRLF", "LF"} : IF s = "CRLF" THEN HasCRLF(t) ELSE HasLF(t)}

Styles(t) == {s \in {"CRLF", "LF", "CR"} :
                 CASE s = "CRLF" -> HasCRLF(t) [] s = "LF" -> HasLF(t) [] OTHER -> HasCR(t)}

\* newRemoteEditBuffer refuses more than one style.
Refused(t) == Cardinality(Styles(t)) > 1
Newline(t) == IF HasCRLF(t) THEN <<"CR", "LF">> ELSE IF HasCR(t) THEN <<"CR">> ELSE <<"LF">>

\* Encode.
Encode(t, newline) == FlattenSeq([i \in 1..Len(t) |-> IF t[i] = "LF" THEN newline ELSE <<t[i]>>])

\* A file opened and saved with no change.
Saved(t) == Encode(Normalize(t), Newline(t))

-----------------------------------------------------------------------------
(* Permissions *)

\* How a server shows a mode: ls -l.
Bit(m, k) == (m \div 2^k) % 2
Letter(on, c) == IF on = 1 THEN c ELSE "-"
Execute(m, x, special, c, upper) ==
    IF Bit(m, special) = 1 THEN IF Bit(m, x) = 1 THEN c ELSE upper ELSE Letter(Bit(m, x), "x")
Listed(m) == <<"-", Letter(Bit(m, 8), "r"), Letter(Bit(m, 7), "w"), Execute(m, 6, 11, "s", "S"),
               Letter(Bit(m, 5), "r"), Letter(Bit(m, 4), "w"), Execute(m, 3, 10, "s", "S"),
               Letter(Bit(m, 2), "r"), Letter(Bit(m, 1), "w"), Execute(m, 0, 9, "t", "T")>>

Executes == {"x", "s", "t"}

Digit(p, base) == (IF p[base] = "r" THEN 4 ELSE 0) + (IF p[base + 1] = "w" THEN 2 ELSE 0)
                  + (IF p[base + 2] \in Executes THEN 1 ELSE 0)

\* remoteEditPermissionMode, as the number its digits stand for.
PermissionMode(p) ==
    512 * ((IF p[4] \in {"s", "S"} THEN 4 ELSE 0) + (IF p[7] \in {"s", "S"} THEN 2 ELSE 0)
           + (IF p[10] \in {"t", "T"} THEN 1 ELSE 0))
    + 64 * Digit(p, 2) + 8 * Digit(p, 5) + Digit(p, 8)

-----------------------------------------------------------------------------
None == [status |-> "none"]

Init ==
    /\ out = None
    /\ in \in {[kind |-> "listings", local |-> l, remote |-> r] : l, r \in Listings}
              \cup {[kind |-> "text", of |-> t] : t \in SeqOf({"x", "CR", "LF"}, MaxText)}
              \cup {[kind |-> "mode", of |-> m] : m \in 0..4095}

Answers(answer) == out = None /\ out' = answer /\ UNCHANGED in

Compare ==
    /\ in.kind = "listings"
    /\ Answers([status |-> "compared", rows |-> Compared(in.local, in.remote)])
SaveText ==
    /\ in.kind = "text"
    /\ Answers(IF Refused(in.of) THEN [status |-> "refused"]
               ELSE [status |-> "saved", of |-> Saved(in.of)])
SaveMode ==
    /\ in.kind = "mode"
    /\ Answers([status |-> "saved", of |-> PermissionMode(Listed(in.of))])

Next == Compare \/ SaveText \/ SaveMode
Spec == Init /\ [][Next]_vars

-----------------------------------------------------------------------------
Rows == IF out.status = "compared" THEN out.rows ELSE <<>>
Done == out.status = "compared"

\* Every name of either side has its row, once, in order, with all its items.
EveryNameOnce ==
    Done => /\ {e.name : e \in ToSet(Rows)} = NamesOf(in.local) \cup NamesOf(in.remote)
            /\ \A i, j \in DOMAIN Rows : i < j => Rows[i].name < Rows[j].name

Mirror == [same |-> "same", local_only |-> "remote_only", remote_only |-> "local_only",
           newer_local |-> "newer_remote", newer_remote |-> "newer_local",
           conflict |-> "conflict", unknown |-> "unknown"]

\* The other way round the comparison says the same of the other side: neither
\* side is trusted more.
Symmetric ==
    Done => LET other == Compared(in.remote, in.local) IN
            \A k \in DOMAIN Rows : other[k].status = Mirror[Rows[k].status]

\* Two files are only called the same when each name stands for one ordinary
\* file, the sizes are known and equal and the times are known and close,
\* however far apart they may be.
SameIsKnown ==
    \A e \in ToSet(Rows) : e.status = "same" =>
        /\ Len(e.local) = 1 /\ Len(e.remote) = 1
        /\ LET l == e.local[1] r == e.remote[1] IN
           /\ ~l.link /\ ~r.link /\ l.dir = r.dir
           /\ ~l.dir => /\ l.size = r.size /\ l.size > 0 /\ l.time > 0 /\ r.time > 0
                        /\ l.time - r.time \in -Tolerance..Tolerance

\* A side is only called newer when both times are known and the difference is
\* more than the tolerance.
NewerIsKnown ==
    \A e \in ToSet(Rows) : e.status \in {"newer_local", "newer_remote"} =>
        LET l == e.local[1] r == e.remote[1]
            d == IF e.status = "newer_local" THEN l.time - r.time ELSE r.time - l.time
        IN l.time > 0 /\ r.time > 0 /\ d > Tolerance /\ ~l.dir /\ ~r.dir

\* A row opens on both sides only if its name is one ordinary directory on each.
OpensOneDirectory ==
    \A e \in ToSet(Rows) : Synchronized(e.name) =>
        /\ Len(Named(in.local, e.name)) = 1 /\ Len(Named(in.remote, e.name)) = 1
        /\ \A i \in ToSet(Named(in.local, e.name) \o Named(in.remote, e.name)) : i.dir /\ ~i.link

\* A file that is saved untouched has the bytes and the permissions it had.
Untouched == out.status = "saved" => out.of = in.of

\* Only a file that saving untouched would change is refused.
RefusedForReason == out.status = "refused" => Saved(in.of) # in.of
===============================================================================
