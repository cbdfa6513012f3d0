----------------------------- MODULE ProfileStore -----------------------------
(***************************************************************************)
(* internal/config/profiles.go and profile_crypto_other.go: the saved      *)
(* profiles as one sealed document of the state store, the key file it is  *)
(* sealed with, and the formats of older versions it is migrated from.     *)
(*                                                                         *)
(* p.mu is held during a whole call, so one program counter stands for its *)
(* holder.  Each file has a visible content and the contents that a stop   *)
(* of the machine may leave: what is written is visible at once and        *)
(* durable once synced.  The document has a previous generation, which is  *)
(* what a read falls back to.                                              *)
(***************************************************************************)
EXTENDS Naturals, FiniteSets

CONSTANTS Profiles,   \* the profiles of a user
          Keys,       \* the keys that are drawn (bound)
          Absent,     \* there is no file
          Broken,     \* a file nobody can read; of the key, one of the wrong size
          Plain,      \* the encoding without a key that older versions wrote
          MaxDamages, \* times a file is lost or damaged from outside (bound)
          MaxFaults   \* these, missed reads, writes that fail, kills and crashes (bound)

Documents == [items : SUBSET Profiles, by : Keys \cup {Plain}]

\* What every instance has to satisfy.
ProfileAssumption ==
    /\ IsFiniteSet(Keys) /\ {MaxDamages, MaxFaults} \subseteq Nat
    /\ Keys \cap {Absent, Broken, Plain} = {}
    /\ Absent # Broken /\ Plain \notin {Absent, Broken}
    /\ \A d \in Documents : d \notin {Absent, Broken}
    /\ \A old \in SUBSET Profiles : old \notin {Absent, Broken}

Calls == [op : {"list", "save", "remove"}, who : Profiles]

VARIABLES
    sec, secMay,   \* profiles.secure.json
    prev, prevMay, \* profiles.secure.json.previous
    leg, legMay,   \* profiles.json of the first versions: a set of profiles
    key, keyMay,   \* .profiles.key
    pc, call,      \* the call that holds p.mu
    items,         \* the profiles it loaded or is about to save
    migrating,     \* it saves them only to migrate their format
    kept, gone,    \* history: the profiles acknowledged as saved, as removed
    older,         \* history: its read has missed the newest file
    forgot,        \* history: such a call has written or removed files
    weak,          \* history: a key that was never synced has been used
    damages, faults

bounds == <<damages, faults>>
secVars == <<sec, secMay, prev, prevMay>>
fileVars == <<secVars, leg, legMay, key, keyMay>>
history == <<kept, gone, forgot, weak>>
callVars == <<call, items, migrating, older>>
vars == <<fileVars, pc, callVars, history, bounds>>

NoCall == [op |-> "none", who |-> "none"]

Init ==
    /\ sec \in {Absent} \cup {d \in Documents : d.by = Plain} /\ secMay = {sec}
    /\ prev \in {Absent} \cup {d \in Documents : d.by = Plain /\ sec # Absent} /\ prevMay = {prev}
    /\ leg \in {Absent} \cup SUBSET Profiles /\ legMay = {leg}
    /\ key = Absent /\ keyMay = {Absent}
    /\ pc = "idle" /\ call = NoCall /\ items = {} /\ migrating = FALSE
    /\ kept = (IF sec # Absent THEN sec.items ELSE IF leg # Absent THEN leg ELSE {})
    /\ gone = {} /\ damages = 0 /\ faults = 0 /\ older = FALSE /\ forgot = FALSE /\ weak = FALSE

\* What load answers from the document s, its previous generation p, a legacy file l and
\* a key k.
Opened(d, k) == IF d.by \in {Plain, k} THEN d.items ELSE {}
Found(s, p, l, k) ==
    IF s \in Documents THEN Opened(s, k)
    ELSE IF p \in Documents THEN Opened(p, k)
    ELSE IF s = Absent /\ p = Absent /\ l # Absent /\ l # Broken THEN l ELSE {}

Goto(l) == pc' = l /\ UNCHANGED <<fileVars, callVars, history, bounds>>

\* A call ends without having saved anything more.
Return ==
    /\ pc' = "idle" /\ call' = NoCall /\ items' = {} /\ migrating' = FALSE /\ older' = FALSE

Fails == Return /\ UNCHANGED <<fileVars, history, bounds>>

Fault == faults < MaxFaults /\ faults' = faults + 1 /\ UNCHANGED damages

Begin(c) ==
    /\ pc = "idle" /\ pc' = "load" /\ call' = c
    /\ UNCHANGED <<fileVars, items, migrating, older, history, bounds>>

Loaded(found, migrate) ==
    /\ items' = found /\ migrating' = migrate
    /\ pc' = IF migrate THEN "seal" ELSE "edit"
    /\ UNCHANGED <<call, kept, gone, weak>>

\* Unlocking a document: sealed with a key that is gone, one is created, which does not
\* fit.
Unlock(d) ==
    \/ d.by \in {Plain, key} /\ Loaded(d.items, d.by = Plain) /\ UNCHANGED <<fileVars, forgot>>
    \/ d.by # Plain /\ key = Absent /\ pc' = "createForLoad"
       /\ UNCHANGED <<fileVars, call, items, migrating, history>>
    \/ d.by \notin {Plain, key} /\ key # Absent /\ Return /\ UNCHANGED <<fileVars, history>>

\* Store.Read answers the document or, when that cannot be read, the previous generation.
\* A document that is whole may be missed: it is locked or changes while it is read.
\* loadSecure: a file that is there must be readable.
LoadSecure ==
    \/ sec \in Documents /\ Unlock(sec) /\ UNCHANGED <<older, bounds>>
    \/ sec \notin Documents /\ prev \in Documents /\ Unlock(prev) /\ UNCHANGED <<older, bounds>>
    \/ sec \in Documents /\ prev \in Documents /\ Unlock(prev) /\ older' = TRUE /\ Fault
    \/ (sec # Absent \/ prev # Absent) /\ Fails

RemoveLegacy == leg' = Absent /\ legMay' = legMay \cup {Absent}

\* Without a secure document the legacy file is migrated or, when it says
\* nothing, removed; that it cannot be read is not noticed.
LoadLegacy ==
    /\ sec = Absent /\ prev = Absent /\ UNCHANGED older
    /\ LET found == Found(sec, prev, leg, key)
           NotSeen == /\ Loaded({}, FALSE) /\ RemoveLegacy /\ UNCHANGED <<secVars, key, keyMay>>
       IN
       \/ found # {} /\ Loaded(found, TRUE) /\ UNCHANGED <<fileVars, forgot, bounds>>
       \/ found = {} /\ NotSeen /\ UNCHANGED <<forgot, bounds>>
       \/ found # {} /\ NotSeen /\ forgot' = TRUE /\ Fault

\* Mutant: the legacy file is asked before the secure document.
LoadLegacyFirst ==
    /\ pc = "load"
    /\ \/ leg \notin {Absent, Broken} /\ Loaded(leg, TRUE)
          /\ UNCHANGED <<fileVars, older, forgot, bounds>>
       \/ leg \in {Absent, Broken} /\ (LoadSecure \/ LoadLegacy)

Load == pc = "load" /\ (LoadSecure \/ LoadLegacy)

\* Save and Remove change the list; List, Get and a Remove of a profile that
\* is not there are done.
Edit ==
    /\ pc = "edit"
    /\ \/ call.op = "list" /\ Fails
       \/ call.op = "remove" /\ call.who \notin items /\ Fails
       \/ /\ call.op = "save"
          /\ items' = items \cup {call.who} /\ gone' = gone \ {call.who} /\ pc' = "seal"
          /\ UNCHANGED <<fileVars, call, migrating, older, kept, forgot, weak, bounds>>
       \/ /\ call.op = "remove" /\ call.who \in items
          /\ items' = items \ {call.who} /\ kept' = kept \ {call.who} /\ pc' = "seal"
          /\ UNCHANGED <<fileVars, call, migrating, older, gone, forgot, weak, bounds>>

\* protectProfileData needs the key: it is read, or created, or of no use.
Seal ==
    /\ pc = "seal"
    /\ \/ key \in Keys /\ pc' = "keep" /\ weak' = (weak \/ keyMay # {key})
          /\ UNCHANGED <<fileVars, callVars, kept, gone, forgot, bounds>>
       \/ key = Absent /\ Goto("create")
       \/ key = Broken /\ Fails

Creating == {"create", "createForLoad"}
Written(l) == IF l = "create" THEN "keyWritten" ELSE "keyWrittenForLoad"

\* createLinuxProfileKey: an empty file first ...
CreateKey ==
    /\ pc \in Creating /\ key = Absent
    /\ key' = Broken /\ keyMay' = keyMay \cup {Broken}
    /\ UNCHANGED <<secVars, leg, legMay, pc, callVars, history, bounds>>

\* ... then the random bytes ...
WriteKey(k) ==
    /\ pc \in Creating /\ key = Broken
    /\ \A s \in secMay \cup prevMay : s \in Documents => s.by # k
    /\ key' = k /\ keyMay' = keyMay \cup {k}
    /\ pc' = Written(pc)
    /\ UNCHANGED <<secVars, leg, legMay, callVars, history, bounds>>

\* Mutant: the key is not synced.
SyncKeySkipped ==
    /\ \/ pc = "keyWritten" /\ pc' = "keep" /\ UNCHANGED callVars
       \/ pc = "keyWrittenForLoad" /\ Return
    /\ UNCHANGED <<secVars, leg, legMay, key, keyMay, history, bounds>>

\* ... and the file and the directory are synced.
SyncKey ==
    /\ \/ pc = "keyWritten" /\ pc' = "keep" /\ UNCHANGED callVars
       \/ pc = "keyWrittenForLoad" /\ Return
    /\ keyMay' = {key}
    /\ UNCHANGED <<secVars, leg, legMay, key, history, bounds>>

\* A step of the creation fails: the file is removed again; whether that succeeds is not
\* looked at, and what stays is taken for the key by the next call.
CreateKeyFails ==
    /\ \/ pc \in Creating /\ key = Broken
       \/ pc \in {"keyWritten", "keyWrittenForLoad"}
    /\ key' \in {Absent, key} /\ keyMay' = keyMay \cup {key'}
    /\ Return /\ Fault
    /\ UNCHANGED <<secVars, leg, legMay, history>>

\* Store.Write: a document that can be read is copied to the previous generation, unless
\* the read misses it ...
KeepDocument ==
    /\ pc = "keep"
    /\ \/ sec \in Documents /\ prev' = sec /\ prevMay' = prevMay \cup {sec} /\ pc' = "kept"
       \/ pc' = "write" /\ UNCHANGED <<prev, prevMay>>
    /\ UNCHANGED <<sec, secMay, leg, legMay, key, keyMay, callVars, history, bounds>>

\* ... which is made durable ...
SettlePrevious ==
    /\ pc = "kept" /\ prevMay' = {prev} /\ pc' = "write"
    /\ UNCHANGED <<sec, secMay, prev, leg, legMay, key, keyMay, callVars, history, bounds>>

\* ... then the new document is visible ...
WriteDocument ==
    /\ pc = "write"
    /\ sec' = [items |-> items, by |-> key] /\ secMay' = secMay \cup {sec'}
    /\ pc' = "settle" /\ forgot' = (forgot \/ older)
    /\ UNCHANGED <<prev, prevMay, leg, legMay, key, keyMay, callVars, kept, gone, weak, bounds>>

\* ... and durable.
SettleDocument ==
    /\ pc = "settle" /\ secMay' = {sec} /\ pc' = "clean"
    /\ UNCHANGED <<sec, prev, prevMay, leg, legMay, key, keyMay, callVars, history, bounds>>

WriteFails ==
    /\ pc \in {"keep", "kept", "write", "settle"}
    /\ Return /\ Fault /\ UNCHANGED <<fileVars, history>>

\* saveAll removes the legacy files and returns, to its caller or to load.
Clean ==
    /\ pc = "clean"
    /\ RemoveLegacy
    /\ \/ migrating /\ pc' = "edit" /\ migrating' = FALSE
          /\ UNCHANGED <<call, items, older, history>>
       \/ /\ ~migrating /\ Return
          /\ kept' = IF call.op = "save" THEN kept \cup {call.who} ELSE kept
          /\ gone' = IF call.op = "remove" THEN gone \cup {call.who} ELSE gone
          /\ UNCHANGED <<forgot, weak>>
    /\ UNCHANGED <<secVars, key, keyMay, bounds>>

\* The process is killed: what is visible stays, durable or not.
Kill == pc # "idle" /\ Return /\ Fault /\ UNCHANGED <<fileVars, history>>

\* The machine stops.
Crash ==
    /\ sec' \in secMay /\ secMay' = {sec'} /\ prev' \in prevMay /\ prevMay' = {prev'}
    /\ leg' \in legMay /\ legMay' = {leg'}
    /\ key' \in keyMay /\ keyMay' = {key'}
    /\ Return /\ Fault
    /\ UNCHANGED history

\* A file is lost or damaged; nothing is promised of the profiles then.
Damage ==
    /\ pc = "idle" /\ damages < MaxDamages /\ faults < MaxFaults
    /\ damages' = damages + 1 /\ faults' = faults + 1
    /\ \/ sec # Absent /\ sec' = Broken /\ secMay' = {Broken}
          /\ UNCHANGED <<prev, prevMay, leg, legMay, key, keyMay>>
       \/ prev # Absent /\ prev' = Broken /\ prevMay' = {Broken}
          /\ UNCHANGED <<sec, secMay, leg, legMay, key, keyMay>>
       \/ /\ key' \in {Absent, Broken} /\ keyMay' = {key'}
          /\ UNCHANGED <<secVars, leg, legMay>>
    /\ kept' = {} /\ gone' = {}
    /\ UNCHANGED <<pc, callVars, forgot, weak>>

Next ==
    \/ \E c \in Calls : Begin(c)
    \/ Load \/ Edit \/ Seal
    \/ CreateKey \/ (\E k \in Keys : WriteKey(k)) \/ SyncKey \/ CreateKeyFails
    \/ KeepDocument \/ SettlePrevious \/ WriteDocument \/ SettleDocument \/ WriteFails \/ Clean
    \/ Kill \/ Crash \/ Damage

Spec == Init /\ [][Next]_vars

-----------------------------------------------------------------------------
(* Properties *)

\* Whatever is visible may be left by a crash, and a document is written only with a
\* key that was read or created for it.
TypeOK ==
    /\ sec \in secMay /\ secMay \subseteq Documents \cup {Absent, Broken}
    /\ prev \in prevMay /\ prevMay \subseteq Documents \cup {Absent, Broken}
    /\ leg \in legMay /\ legMay \subseteq (SUBSET Profiles) \cup {Absent}
    /\ key \in keyMay /\ keyMay \subseteq Keys \cup {Absent, Broken}
    /\ pc \in {"idle", "load", "edit", "seal", "create", "createForLoad", "keyWritten",
               "keyWrittenForLoad", "keep", "kept", "write", "settle", "clean"}
    /\ pc = "idle" <=> call = NoCall
    /\ call \in Calls \cup {NoCall}
    /\ items \subseteq Profiles /\ migrating \in BOOLEAN /\ older \in BOOLEAN
    /\ forgot \in BOOLEAN /\ weak \in BOOLEAN
    /\ kept \subseteq Profiles /\ gone \subseteq Profiles
    /\ pc \in {"keep", "kept", "write", "settle", "clean"} => key \in Keys
    /\ damages \in 0..MaxDamages /\ faults \in 0..MaxFaults

\* What load can find after a crash now.
Outcomes == {Found(s, p, l, k) : s \in secMay, p \in prevMay, l \in legMay, k \in keyMay}

\* Every profile acknowledged as saved, and every one of an older version, is found
\* again whenever the machine stops: through sealing, the creation of the key, and both
\* migrations, until a read misses the newest file and something is written after it,
\* and until a key is used whose sync had failed or never come.
NothingLost == ~forgot /\ ~weak => \A found \in Outcomes : kept \subseteq found

\* A profile acknowledged as removed does not come back, although the removal
\* of the legacy files is never synced, until a read misses the newest file.
NothingRevived == ~forgot /\ ~weak => \A found \in Outcomes : gone \cap found = {}

\* A key file that a crash tore guards nothing: no document was sealed before
\* its key was durable, until a key is used that a failed creation left.
TornKeyGuardsNothing ==
    damages = 0 /\ ~weak /\ (keyMay \cap {Absent, Broken} # {}) =>
        \A s \in secMay \cup prevMay : s \in Documents => s.by = Plain

\* A document that cannot be read or unlocked is replaced by the program only when it
\* could read the previous generation or has kept the document as that.
Usable(d) == d \in Documents /\ d.by \in {Plain, key}
UnreadableIsKeptStep ==
    sec # Absent /\ ~Usable(sec) /\ secMay = {sec} =>
        sec' = sec \/ damages' # damages \/ prev = sec \/ Usable(prev)

\* What was acknowledged is found again, whatever reads missed it and creations failed.
\* The code does not keep it: see "Disagreements found" in the README.
AcknowledgedIsFound == \A found \in Outcomes : kept \subseteq found
=============================================================================
