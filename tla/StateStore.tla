------------------------------ MODULE StateStore ------------------------------
(***************************************************************************)
(* internal/config/store.go: the two generations of one state file, name   *)
(* and name.previous, the steps of Store.Write on them and what Store.Read *)
(* finds.                                                                  *)
(*                                                                         *)
(* s.mu is held during a whole Read or Write, so one program counter is    *)
(* the Write's.  A rename is visible at once and durable once the          *)
(* directory is synced (replaceSyncedGeneration); until then a crash may   *)
(* leave either entry.  Temporary files are synced before the rename and   *)
(* have no name Read looks at.                                             *)
(***************************************************************************)
EXTENDS Naturals, TLAPS

CONSTANTS Values,     \* what the program writes to the file
          Absent,     \* there is no file
          Broken,     \* a file that is not JSON
          Foreign,    \* JSON that does not decode into the type read
          Damages,    \* what the file can become from outside, while no Write runs
          MaxDamages  \* how often (bound)

ASSUME StoreAssumption ==
    /\ Absent \notin Values /\ Broken \notin Values /\ Foreign \notin Values
    /\ Absent # Broken /\ Absent # Foreign /\ Broken # Foreign
    /\ Damages \subseteq {Absent, Broken, Foreign}
    /\ MaxDamages \in Nat

Generations == {"current", "previous"}
Contents == Values \cup {Absent, Broken, Foreign}

VARIABLES visible,   \* the content of each generation
          limbo,     \* the contents a crash may leave in it
          pc,        \* where Write is
          value,     \* the value it writes
          existing,  \* the current generation as it read it
          result,    \* what the last Write returned
          damages    \* times the file was damaged

fileVars == <<visible, limbo>>
vars == <<fileVars, pc, value, existing, result, damages>>

Init ==
    /\ visible = [g \in Generations |-> Absent]
    /\ limbo = [g \in Generations |-> {Absent}]
    /\ pc = "idle" /\ value = Absent /\ existing = Absent
    /\ result = "none" /\ damages = 0

\* What Read answers from contents c of the current and p of the previous
\* generation: Absent stands for the fallback.
ReadOf(c, p) == IF c \in Values THEN c ELSE IF p \in Values THEN p ELSE Absent

\* Mutant: the current generation is kept without looking at it.
ValidWhenPresent(c) == c # Absent

\* json.Valid: the document is complete, whatever its type.
Valid(c) == c \in Values \cup {Foreign}

\* Write takes s.mu and reads the current generation.  A file that cannot be
\* read counts as none.  Only valid JSON becomes the previous generation.
WriteBegin(v) ==
    /\ pc = "idle"
    /\ value' = v /\ result' = "none"
    /\ existing' \in {visible["current"], Absent}
    /\ pc' = IF Valid(existing') THEN "renamePrevious" ELSE "renameCurrent"
    /\ UNCHANGED <<fileVars, damages>>

\* replaceFile of a synced temporary file with content c.
Replace(g, c) ==
    /\ visible' = [visible EXCEPT ![g] = c]
    /\ limbo' = [limbo EXCEPT ![g] = @ \cup {c}]

\* Mutant: the directory is not synced before Write goes on.
SyncDirectorySkipped == UNCHANGED fileVars

\* syncStateDirectory: both directory entries are durable.
SyncDirectory ==
    /\ limbo' = [g \in Generations |-> {visible[g]}]
    /\ UNCHANGED visible

RenamePrevious ==
    /\ pc = "renamePrevious" /\ pc' = "syncPrevious"
    /\ Replace("previous", existing)
    /\ UNCHANGED <<value, existing, result, damages>>

SyncPrevious ==
    /\ pc = "syncPrevious" /\ pc' = "renameCurrent"
    /\ SyncDirectory
    /\ UNCHANGED <<value, existing, result, damages>>

RenameCurrent ==
    /\ pc = "renameCurrent" /\ pc' = "syncCurrent"
    /\ Replace("current", value)
    /\ UNCHANGED <<value, existing, result, damages>>

SyncCurrent ==
    /\ pc = "syncCurrent" /\ pc' = "synced"
    /\ SyncDirectory
    /\ UNCHANGED <<value, existing, result, damages>>

EndWrite(r) == pc' = "idle" /\ value' = Absent /\ existing' = Absent /\ result' = r

\* ensureDirectoryIdentity succeeds once more and Write returns nil.
WriteReturns ==
    /\ pc = "synced"
    /\ EndWrite("ok")
    /\ UNCHANGED <<fileVars, damages>>

\* A temporary file, a rename, the sync or the identity of the directory
\* fails: Write returns the error at once and leaves the files as they are.
WriteFails ==
    /\ pc # "idle"
    /\ EndWrite("error")
    /\ UNCHANGED <<fileVars, damages>>

\* The machine stops: each entry is what was synced or a later rename.
Crash ==
    /\ visible' \in [Generations -> Contents]
    /\ \A g \in Generations : visible'[g] \in limbo[g]
    /\ limbo' = [g \in Generations |-> {visible'[g]}]
    /\ EndWrite("none")
    /\ UNCHANGED damages

\* A generation is damaged, removed or replaced by another program's file.
Damage(g, c) ==
    /\ pc = "idle" /\ damages < MaxDamages
    /\ visible' = [visible EXCEPT ![g] = c]
    /\ limbo' = [limbo EXCEPT ![g] = {c}]
    /\ damages' = damages + 1
    /\ UNCHANGED <<pc, value, existing, result>>

Next ==
    \/ \E v \in Values : WriteBegin(v)
    \/ RenamePrevious \/ SyncPrevious \/ RenameCurrent \/ SyncCurrent
    \/ WriteReturns \/ WriteFails \/ Crash
    \/ \E g \in Generations, c \in Damages : Damage(g, c)

Spec == Init /\ [][Next]_vars

-----------------------------------------------------------------------------
(* Properties *)

\* A crash is always left with contents of the two generations, and a Write
\* holds a valid document to keep while it has one to keep.
TypeOK ==
    /\ visible \in [Generations -> Contents]
    /\ limbo \in [Generations -> SUBSET Contents]
    /\ \A g \in Generations : visible[g] \in limbo[g]
    /\ pc \in {"idle", "renamePrevious", "syncPrevious", "renameCurrent", "syncCurrent", "synced"}
    /\ value \in Values \cup {Absent} /\ (value = Absent <=> pc = "idle")
    /\ existing \in Contents
    /\ result \in {"none", "ok", "error"}
    /\ pc \in {"renamePrevious", "syncPrevious"} => Valid(existing)
    /\ damages \in 0..MaxDamages

\* What a Read may answer after a crash now.
Outcomes == {ReadOf(c, p) : c \in limbo["current"], p \in limbo["previous"]}

\* The two generations are one atomic register: whatever fails or crashes, a
\* Read answers the last acknowledged value or one of a Write that failed or
\* was cut short since, and an acknowledged Write is durable.
Register == INSTANCE StateRegister WITH
    Nothing <- Absent, now <- ReadOf(visible["current"], visible["previous"]),
    may <- Outcomes, busy <- value
AtomicRegister == Register!Spec

\* Write keeps a recovery point: where a crash cannot lose every readable
\* generation, no step of the program brings that about.
RecoveryPointKept == [][damages' = damages /\ Absent \notin Outcomes => Absent \notin Outcomes']_vars

(***************************************************************************)
(* Proofs: the types, and that the two generations of a file implement the *)
(* register StateRegister as long as nothing but this program writes JSON  *)
(* into them.  What Write relies on is that the document it keeps is the   *)
(* one Read would have found.                                              *)
(***************************************************************************)

\* The document kept as the previous generation is the current one.
KeepsCurrent ==
    pc \in {"renamePrevious", "syncPrevious"} => existing = visible["current"]

\* The new value is in place before the last directory sync, and durable
\* after it.
InPlace ==
    /\ pc \in {"syncCurrent", "synced"} => visible["current"] = value
    /\ pc = "synced" => \A g \in Generations : limbo[g] = {visible[g]}

\* No file holds JSON of another type.
NoForeign == \A g \in Generations : Foreign \notin limbo[g]

IInv == TypeOK /\ KeepsCurrent /\ InPlace

(***************************************************************************)
(* Type correctness and the invariant of Write                             *)
(***************************************************************************)

LEMMA InitIInv == Init => IInv
  BY StoreAssumption DEF Init, IInv, TypeOK, KeepsCurrent, InPlace, Generations, Contents

LEMMA NextIInv == IInv /\ [Next]_vars => IInv'
<1> SUFFICES ASSUME IInv, [Next]_vars PROVE IInv'
  OBVIOUS
<1> USE StoreAssumption DEF IInv, TypeOK, KeepsCurrent, InPlace, Generations, fileVars
<1>1. ASSUME NEW v \in Values, WriteBegin(v) PROVE IInv'
  BY <1>1 DEF WriteBegin, Contents, Valid
<1>2. CASE RenamePrevious
  BY <1>2 DEF RenamePrevious, Replace, Contents, Valid
<1>3. CASE SyncPrevious
  BY <1>3 DEF SyncPrevious, SyncDirectory, Contents
<1>4. CASE RenameCurrent
  BY <1>4 DEF RenameCurrent, Replace, Contents
<1>5. CASE SyncCurrent
  BY <1>5 DEF SyncCurrent, SyncDirectory, Contents
<1>6. CASE WriteReturns
  BY <1>6 DEF WriteReturns, EndWrite, Contents
<1>7. CASE WriteFails
  BY <1>7 DEF WriteFails, EndWrite, Contents
<1>8. CASE Crash
  BY <1>8 DEF Crash, EndWrite, Contents
<1>9. ASSUME NEW g \in Generations, NEW c \in Damages, Damage(g, c) PROVE IInv'
  BY <1>9 DEF Damage, Contents
<1>10. CASE UNCHANGED vars
  BY <1>10 DEF vars
<1> QED
  BY <1>1, <1>2, <1>3, <1>4, <1>5, <1>6, <1>7, <1>8, <1>9, <1>10 DEF Next

THEOREM StoreInvariant == Spec => []IInv
<1> QED
  BY InitIInv, NextIInv, PTL DEF Spec

\* A crash always leaves contents of the two generations, and Write holds a
\* document to keep while it keeps one (store.go, Write).
THEOREM StoreTypes == Spec => []TypeOK
<1>1. IInv => TypeOK
  BY DEF IInv
<1> QED
  BY <1>1, StoreInvariant, PTL

(***************************************************************************)
(* What a Read may answer                                                  *)
(***************************************************************************)

LEMMA InitNoForeign == Init => NoForeign
  BY StoreAssumption DEF Init, NoForeign, Generations

LEMMA NextNoForeign ==
    ASSUME Foreign \notin Damages
    PROVE  IInv /\ NoForeign /\ [Next]_vars => NoForeign'
<1> SUFFICES ASSUME IInv, NoForeign, [Next]_vars PROVE NoForeign'
  OBVIOUS
<1> USE StoreAssumption DEF IInv, TypeOK, NoForeign, Generations, fileVars
<1>1. ASSUME NEW v \in Values, WriteBegin(v) PROVE NoForeign'
  BY <1>1 DEF WriteBegin
<1>2. CASE RenamePrevious
  BY <1>2 DEF RenamePrevious, Replace, KeepsCurrent
<1>3. CASE SyncPrevious
  BY <1>3 DEF SyncPrevious, SyncDirectory
<1>4. CASE RenameCurrent
  BY <1>4 DEF RenameCurrent, Replace
<1>5. CASE SyncCurrent
  BY <1>5 DEF SyncCurrent, SyncDirectory
<1>6. CASE WriteReturns \/ WriteFails
  BY <1>6 DEF WriteReturns, WriteFails
<1>7. CASE Crash
  BY <1>7 DEF Crash
<1>8. ASSUME NEW g \in Generations, NEW c \in Damages, Damage(g, c) PROVE NoForeign'
  BY <1>8 DEF Damage
<1>9. CASE UNCHANGED vars
  BY <1>9 DEF vars
<1> QED
  BY <1>1, <1>2, <1>3, <1>4, <1>5, <1>6, <1>7, <1>8, <1>9 DEF Next

\* Keeping the current document as the previous generation changes nothing
\* for a Read, before or after a crash.
LEMMA KeepingIsInvisible ==
    ASSUME IInv, NoForeign, RenamePrevious
    PROVE  /\ Outcomes' = Outcomes
           /\ ReadOf(visible["current"], visible["previous"])'
                = ReadOf(visible["current"], visible["previous"])
<1> USE DEF IInv, TypeOK, Generations
<1>1. existing = visible["current"] /\ existing \in Values /\ existing \in limbo["current"]
  BY DEF RenamePrevious, KeepsCurrent, NoForeign, Valid
<1>2. /\ visible'["current"] = visible["current"]
      /\ limbo'["current"] = limbo["current"]
      /\ limbo'["previous"] = limbo["previous"] \cup {existing}
  BY DEF RenamePrevious, Replace
<1>3. Outcomes \subseteq Outcomes'
  BY <1>2 DEF Outcomes
<1>4. ASSUME NEW c \in limbo["current"], NEW p \in limbo["previous"] \cup {existing}
      PROVE  ReadOf(c, p) \in Outcomes
  <2>1. CASE p \in limbo["previous"]
    BY <2>1 DEF Outcomes
  <2>2. CASE p = existing
    <3>1. PICK q \in limbo["previous"] : TRUE
      OBVIOUS
    <3>2. ReadOf(c, p) = ReadOf(c, q) \/ ReadOf(c, p) = ReadOf(existing, q)
      BY <1>1, <2>2 DEF ReadOf
    <3> QED
      BY <1>1, <3>1, <3>2 DEF Outcomes
  <2> QED
    BY <2>1, <2>2
<1>5. Outcomes' \subseteq Outcomes
  BY <1>2, <1>4 DEF Outcomes, ReadOf
<1> QED
  BY <1>1, <1>2, <1>3, <1>5 DEF ReadOf

\* A directory sync leaves the outcome a Read finds now.
LEMMA SyncSettles ==
    ASSUME IInv, SyncDirectory
    PROVE  /\ Outcomes' = {ReadOf(visible["current"], visible["previous"])}
           /\ ReadOf(visible["current"], visible["previous"])'
                = ReadOf(visible["current"], visible["previous"])
  BY DEF SyncDirectory, Outcomes, ReadOf, Generations

\* Renaming the new value over the current generation adds one outcome.
LEMMA RenameAddsValue ==
    ASSUME IInv, RenameCurrent
    PROVE  /\ Outcomes' = Outcomes \cup {value}
           /\ ReadOf(visible["current"], visible["previous"])' = value
<1> USE DEF IInv, TypeOK, Generations
<1>1. value \in Values /\ value' = value
  BY DEF RenameCurrent
<1>2. /\ visible'["current"] = value
      /\ limbo'["current"] = limbo["current"] \cup {value}
      /\ limbo'["previous"] = limbo["previous"]
  BY DEF RenameCurrent, Replace
<1>3. PICK q \in limbo["previous"] : TRUE
  OBVIOUS
<1>4. \A p : ReadOf(value, p) = value
  BY <1>1 DEF ReadOf
<1>5. ReadOf(value, q) = value
  BY <1>4
<1>6. Outcomes' = {ReadOf(c, p) : c \in limbo["current"] \cup {value}, p \in limbo["previous"]}
  BY <1>2 DEF Outcomes, ReadOf
<1>7. Outcomes' \subseteq Outcomes \cup {value}
  BY <1>4, <1>6 DEF Outcomes
<1>8. Outcomes \subseteq Outcomes'
  BY <1>6 DEF Outcomes
<1>9. value \in Outcomes'
  BY <1>3, <1>5, <1>6
<1> QED
  BY <1>1, <1>2, <1>7, <1>8, <1>9 DEF ReadOf

\* A crash picks one of the outcomes.
LEMMA CrashPicks ==
    ASSUME IInv, Crash
    PROVE  /\ ReadOf(visible["current"], visible["previous"])' \in Outcomes
           /\ Outcomes' = {ReadOf(visible["current"], visible["previous"])'}
  BY DEF Crash, Outcomes, ReadOf, Generations

\* Steps that leave the files alone.
LEMMA FilesUnchanged ==
    ASSUME UNCHANGED fileVars
    PROVE  /\ Outcomes' = Outcomes
           /\ ReadOf(visible["current"], visible["previous"])'
                = ReadOf(visible["current"], visible["previous"])
  BY DEF fileVars, Outcomes, ReadOf

(***************************************************************************)
(* The two theorems                                                        *)
(***************************************************************************)

LEMMA InitRegister == Init => Register!Init
  BY StoreAssumption DEF Init, Register!Init, Outcomes, ReadOf, Generations

LEMMA StepIsRegisterStep ==
    ASSUME IInv, NoForeign, [Next]_vars
    PROVE  [Register!Next]_Register!vars
<1> DEFINE Now == ReadOf(visible["current"], visible["previous"])
<1> USE StoreAssumption
<1>1. ASSUME NEW v \in Values, WriteBegin(v) PROVE Register!Begin(v)
  <2>1. Outcomes' = Outcomes /\ Now' = Now
    BY <1>1, FilesUnchanged DEF WriteBegin
  <2> QED
    BY <1>1, <2>1 DEF WriteBegin, Register!Begin, IInv, TypeOK
<1>2. CASE RenamePrevious
  BY <1>2, KeepingIsInvisible DEF RenamePrevious, Register!vars
<1>3. CASE SyncPrevious \/ SyncCurrent
  <2>1. Outcomes' = {Now} /\ Now' = Now
    BY <1>3, SyncSettles DEF SyncPrevious, SyncCurrent
  <2>2. value # Absent /\ UNCHANGED <<value, result, damages>>
    BY <1>3 DEF SyncPrevious, SyncCurrent, IInv, TypeOK
  <2>3. Register!Settle
    BY <2>1, <2>2 DEF Register!Settle
  <2> QED
    BY <2>3 DEF Register!Next
<1>4. CASE RenameCurrent
  <2>1. Outcomes' = Outcomes \cup {value} /\ Now' = value
    BY <1>4, RenameAddsValue
  <2>2. value # Absent /\ UNCHANGED <<value, result, damages>>
    BY <1>4 DEF RenameCurrent, IInv, TypeOK
  <2>3. Register!TakeEffect
    BY <2>1, <2>2 DEF Register!TakeEffect
  <2> QED
    BY <2>3 DEF Register!Next
<1>5. CASE WriteReturns
  <2>1. Outcomes' = Outcomes /\ Now' = Now
    BY <1>5, FilesUnchanged DEF WriteReturns
  <2>2. value \in Values
    BY <1>5 DEF WriteReturns, IInv, TypeOK
  <2>3. visible["current"] = value
    BY <1>5 DEF WriteReturns, IInv, InPlace
  <2>4. \A g \in Generations : limbo[g] = {visible[g]}
    BY <1>5 DEF WriteReturns, IInv, InPlace
  <2>5. Now = value
    BY <2>2, <2>3 DEF ReadOf
  <2>6. Outcomes = {value}
    BY <2>4, <2>5 DEF Outcomes, Generations
  <2>7. Register!Acknowledge
    BY <1>5, <2>1, <2>2, <2>5, <2>6 DEF WriteReturns, EndWrite, Register!Acknowledge
  <2> QED
    BY <2>7 DEF Register!Next
<1>6. CASE WriteFails
  <2>1. Outcomes' = Outcomes /\ Now' = Now
    BY <1>6, FilesUnchanged DEF WriteFails
  <2>2. Register!Fail
    BY <1>6, <2>1 DEF WriteFails, EndWrite, Register!Fail, IInv, TypeOK
  <2> QED
    BY <2>2 DEF Register!Next
<1>7. CASE Crash
  <2>1. Now' \in Outcomes /\ Outcomes' = {Now'}
    BY <1>7, CrashPicks
  <2>2. Register!Crash
    BY <1>7, <2>1 DEF Crash, EndWrite, Register!Crash
  <2> QED
    BY <2>2 DEF Register!Next
<1>8. ASSUME NEW g \in Generations, NEW c \in Damages, Damage(g, c) PROVE Register!Damage
  <2>1. Now' \in Values \cup {Absent} /\ Outcomes' \in SUBSET (Values \cup {Absent})
    BY DEF ReadOf, Outcomes
  <2> QED
    BY <1>8, <2>1 DEF Damage, Register!Damage, Register!Readable, IInv, TypeOK
<1>9. CASE UNCHANGED vars
  <2>1. Outcomes' = Outcomes /\ Now' = Now
    BY <1>9, FilesUnchanged DEF vars
  <2> QED
    BY <1>9, <2>1 DEF vars, Register!vars
<1> QED
  BY <1>1, <1>2, <1>3, <1>4, <1>5, <1>6, <1>7, <1>8, <1>9 DEF Next, Register!Next

\* Store.Write and Store.Read are one atomic, durable register, whatever
\* fails, whenever the machine stops and whichever generation breaks or
\* disappears, as long as no other program writes JSON into the files.
THEOREM StoreIsRegister ==
    ASSUME Foreign \notin Damages
    PROVE  Spec => AtomicRegister
<1>1. Spec => [](IInv /\ NoForeign)
  <2>1. IInv /\ NoForeign /\ [Next]_vars => (IInv /\ NoForeign)'
    BY NextIInv, NextNoForeign
  <2> QED
    BY <2>1, InitIInv, InitNoForeign, PTL DEF Spec
<1>2. IInv /\ NoForeign /\ [Next]_vars => [Register!Next]_Register!vars
  BY StepIsRegisterStep
<1> QED
  BY <1>1, <1>2, InitRegister, PTL DEF Spec, AtomicRegister, Register!Spec

\* No step of Write, and no crash, loses the last readable generation.
THEOREM RecoveryPointStays ==
    ASSUME Foreign \notin Damages
    PROVE  Spec => RecoveryPointKept
<1> DEFINE Keeps == damages' = damages /\ Absent \notin Outcomes => Absent \notin Outcomes'
<1>1. Spec => [](IInv /\ NoForeign)
  <2>1. IInv /\ NoForeign /\ [Next]_vars => (IInv /\ NoForeign)'
    BY NextIInv, NextNoForeign
  <2> QED
    BY <2>1, InitIInv, InitNoForeign, PTL DEF Spec
<1>2. IInv /\ NoForeign /\ [Next]_vars => [Keeps]_vars
  <2> SUFFICES ASSUME IInv, NoForeign, [Next]_vars, damages' = damages, Absent \notin Outcomes
               PROVE  Absent \notin Outcomes'
    OBVIOUS
  <2>1. ASSUME NEW v \in Values, WriteBegin(v) PROVE Absent \notin Outcomes'
    BY <2>1, FilesUnchanged DEF WriteBegin
  <2>2. CASE RenamePrevious
    BY <2>2, KeepingIsInvisible
  <2>3. CASE SyncPrevious \/ SyncCurrent
    <3>1. Outcomes' = {ReadOf(visible["current"], visible["previous"])}
      BY <2>3, SyncSettles DEF SyncPrevious, SyncCurrent
    <3>2. ReadOf(visible["current"], visible["previous"]) \in Outcomes
      BY DEF Outcomes, IInv, TypeOK, Generations
    <3> QED
      BY <3>1, <3>2
  <2>4. CASE RenameCurrent
    BY <2>4, RenameAddsValue DEF RenameCurrent, IInv, TypeOK
  <2>5. CASE WriteReturns \/ WriteFails
    BY <2>5, FilesUnchanged DEF WriteReturns, WriteFails
  <2>6. CASE Crash
    BY <2>6, CrashPicks
  <2>7. ASSUME NEW g \in Generations, NEW c \in Damages, Damage(g, c) PROVE FALSE
    BY <2>7 DEF Damage, IInv, TypeOK
  <2>8. CASE UNCHANGED vars
    BY <2>8, FilesUnchanged DEF vars
  <2> QED
    BY <2>1, <2>2, <2>3, <2>4, <2>5, <2>6, <2>7, <2>8 DEF Next
<1> QED
  BY <1>1, <1>2, PTL DEF Spec, RecoveryPointKept
=============================================================================
