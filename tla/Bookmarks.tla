----------------------------- MODULE Bookmarks -----------------------------
(***************************************************************************)
(* Bookmarks: their file with its previous generation, and opening one on  *)
(* the server it was saved for (src/internal/config/bookmarks.go,          *)
(* src/internal/api/bookmarks.go).                                         *)
(*                                                                         *)
(* Nothing is cached: every call reads the file, and a change writes the   *)
(* whole collection back, keeping the file it replaces as the previous     *)
(* generation.  A read that finds neither generation means "no bookmarks"  *)
(* only if there is no file; otherwise the call fails, and so nothing is   *)
(* written over what could still be recovered.                             *)
(*                                                                         *)
(* Opening a bookmark takes no lock of the connection: the account is      *)
(* compared before and after the listing, and so is the identity of the    *)
(* connection, while the user may disconnect and log in elsewhere.         *)
(***************************************************************************)
EXTENDS Integers, FiniteSets, FiniteSetsExt

CONSTANTS Accounts,      \* server accounts
          MaxBookmarks,  \* config.maxBookmarks
          MaxSaves,      \* bound: bookmarks saved
          MaxFaults,     \* bound: damaged files and missed reads
          MaxConnections \* bound: connections

VARIABLES main, previous, \* the file and its previous generation
          pending,        \* the write in progress
          issued,         \* ids given out
          acknowledged,   \* ghost: ids reported as saved and not removed
          faults,
          missed,         \* ghost: 1 after a read missed the file, 2 when more followed
          session,        \* the connection: its account and its number
          nav             \* the bookmark being opened

vars == <<main, previous, pending, issued, acknowledged, faults, missed, session, nav>>
files == <<main, previous, pending, issued, acknowledged, faults, missed>>

Whole(items) == [state |-> "whole", items |-> items]
Damaged == [state |-> "damaged", items |-> {}]
Absent == [state |-> "absent", items |-> {}]
Readable(file) == file.state = "whole"
NoWrite == [kind |-> "none"]
NoSession == [account |-> "none", number |-> 0]
Idle == [step |-> "idle"]
Ids(items) == {b.id : b \in items}

(***************************************************************************)
(* Reading.  A read may miss the file although it is whole: it is locked,  *)
(* or it changes while it is read.                                         *)
(***************************************************************************)

\* There is a generation to read, or no file at all.
Loadable(seen) ==
  \/ Readable(main) /\ seen
  \/ Readable(previous)
  \/ main = Absent /\ previous = Absent

loadLocked(seen) ==
  IF Readable(main) /\ seen THEN main.items ELSE previous.items

\* A missed read is a fault, counted where it happens.
Load(Op(_)) ==
  \E seen \in BOOLEAN :
    /\ seen \/ (faults < MaxFaults /\ Readable(main))
    /\ Loadable(seen)
    /\ Op(loadLocked(seen))
    /\ faults' = IF seen THEN faults ELSE faults + 1
    /\ missed' = IF missed > 0 THEN 2 ELSE IF seen THEN 0 ELSE 1

(***************************************************************************)
(* Writing.  The mutex of the collection is held from the read to the end  *)
(* of the write.                                                           *)
(***************************************************************************)
\* A remote bookmark is bound to the account of the open connection.
SaveRemoteBookmark(of) == of \in Accounts => session.account = of

Save ==
  /\ pending = NoWrite /\ issued < MaxSaves
  /\ \E of \in Accounts \cup {"local"} :
       /\ SaveRemoteBookmark(of)
       /\ LET new == [id |-> issued + 1, of |-> of]
              Add(items) == /\ Cardinality(items) < MaxBookmarks
                            /\ pending' = [kind |-> "save", id |-> new.id, kept |-> FALSE,
                                           items |-> items \cup {new}]
          IN  Load(Add)
  /\ issued' = issued + 1
  /\ UNCHANGED <<main, previous, acknowledged, session, nav>>

Remove ==
  /\ pending = NoWrite
  /\ \E id \in 1..issued :
       LET Drop(items) == /\ id \in Ids(items)
                          /\ pending' = [kind |-> "remove", id |-> id, kept |-> FALSE,
                                         items |-> {b \in items : b.id # id}]
       IN  Load(Drop)
  /\ UNCHANGED <<main, previous, issued, acknowledged, session, nav>>

\* The file is copied to the previous generation, unless it cannot be read.
Keep ==
  /\ pending # NoWrite /\ ~pending.kept
  /\ pending' = [pending EXCEPT !.kept = TRUE]
  /\ \/ Readable(main) /\ previous' = main /\ UNCHANGED <<faults, missed>>
     \/ ~Readable(main) /\ UNCHANGED <<previous, faults, missed>>
     \/ /\ Readable(main) /\ faults < MaxFaults
        /\ faults' = faults + 1 /\ UNCHANGED previous
        /\ missed' = IF missed > 0 THEN 2 ELSE 0
  /\ UNCHANGED <<main, issued, acknowledged, session, nav>>

Replace ==
  /\ pending # NoWrite /\ pending.kept
  /\ main' = Whole(pending.items)
  /\ acknowledged' = IF pending.kind = "save" THEN acknowledged \cup {pending.id}
                     ELSE acknowledged \ {pending.id}
  /\ pending' = NoWrite
  /\ UNCHANGED <<previous, issued, faults, missed, session, nav>>

\* The write fails, or the process ends, before the file is replaced.
WriteFails ==
  /\ pending # NoWrite /\ pending' = NoWrite
  /\ missed' = IF missed = 1 THEN 0 ELSE missed
  /\ UNCHANGED <<main, previous, issued, acknowledged, faults, session, nav>>

\* The file is damaged from outside.
Damage ==
  /\ pending = NoWrite /\ faults < MaxFaults /\ Readable(main)
  /\ main' = Damaged /\ faults' = faults + 1
  /\ acknowledged' = acknowledged \cap Ids(previous.items)
  /\ UNCHANGED <<previous, pending, issued, missed, session, nav>>

(***************************************************************************)
(* The connection.                                                         *)
(***************************************************************************)
Connect ==
  /\ session.account = "none" /\ session.number < MaxConnections
  /\ \E a \in Accounts : session' = [account |-> a, number |-> session.number + 1]
  /\ UNCHANGED <<files, nav>>

Disconnect ==
  /\ session.account # "none"
  /\ session' = [session EXCEPT !.account = "none"]
  /\ UNCHANGED <<files, nav>>

(***************************************************************************)
(* Opening a remote bookmark, step by step.                                *)
(***************************************************************************)
connectionIdentity == session.number
Matches(bookmark) == session.account = bookmark.of

Start ==
  /\ nav.step \in {"idle", "done"} /\ Readable(main)
  /\ \E b \in main.items : Matches(b) /\ nav' = [step |-> "matched", bookmark |-> b]
  /\ UNCHANGED <<files, session>>

Identify ==
  /\ nav.step = "matched" /\ session.account # "none"
  /\ nav' = [step |-> "identified", bookmark |-> nav.bookmark,
             before |-> connectionIdentity]
  /\ UNCHANGED <<files, session>>

\* The listing runs on the session it found, whatever happens meanwhile.
List ==
  /\ nav.step = "identified" /\ session.account # "none"
  /\ nav' = [step |-> "listed", bookmark |-> nav.bookmark, before |-> nav.before,
             rows |-> session]
  /\ UNCHANGED <<files, session>>

\* Mutant: only the account is compared after the listing.
SettleAccount ==
  /\ nav.step = "listed"
  /\ nav' = IF Matches(nav.bookmark) THEN [nav EXCEPT !.step = "done"] ELSE Idle
  /\ UNCHANGED <<files, session>>

\* The same connection, and still the account of the bookmark.
Settle ==
  /\ nav.step = "listed"
  /\ nav' = IF /\ session.account # "none"
               /\ connectionIdentity = nav.before
               /\ Matches(nav.bookmark)
            THEN [nav EXCEPT !.step = "done"] ELSE Idle
  /\ UNCHANGED <<files, session>>

GiveUp ==
  /\ nav.step \in {"matched", "identified"}
  /\ nav' = Idle
  /\ UNCHANGED <<files, session>>

Init ==
  /\ main = Absent /\ previous = Absent /\ pending = NoWrite
  /\ issued = 0 /\ acknowledged = {} /\ faults = 0 /\ missed = 0
  /\ session = NoSession /\ nav = Idle

Next ==
  \/ Save \/ Remove \/ Keep \/ Replace \/ WriteFails \/ Damage
  \/ Connect \/ Disconnect
  \/ Start \/ Identify \/ List \/ Settle \/ GiveUp

Spec == Init /\ [][Next]_vars

-----------------------------------------------------------------------------
\* What a call is about to write differs by one bookmark from a generation on
\* disk.  In particular a collection that cannot be read is never replaced by
\* a new one, as loadLocked's comment promises.
OneChangeStep ==
    pending = NoWrite /\ pending' # NoWrite =>
      \E g \in {main, previous} :
        /\ Readable(g) \/ (main = Absent /\ previous = Absent)
        /\ Cardinality(SymDiff(Ids(g.items), Ids(pending'.items))) = 1
OneChange == [][OneChangeStep]_vars

\* What was reported as saved is in the file.  If a read missed the file once,
\* the collection written from the previous generation lacks the newest
\* bookmark, but the file it replaced is kept until the next write, unless it
\* could not be copied either.
SavedIsKept ==
  acknowledged \subseteq
    CASE missed = 0 -> IF Readable(main) THEN Ids(main.items) ELSE Ids(previous.items)
      [] missed = 1 -> Ids(main.items) \cup Ids(previous.items)
      [] OTHER -> acknowledged

\* The rows an opened bookmark shows come from its own account, through one
\* connection that was there before and after the listing.
RowsOfAccount ==
  nav.step = "done" =>
    nav.rows.account = nav.bookmark.of /\ nav.rows.number = nav.before
=============================================================================
