---------------------------- MODULE StateRegister -----------------------------
(***************************************************************************)
(* What one state file of internal/config/store.go promises its users:    *)
(* Read finds one value, Write replaces it as a whole, an acknowledged     *)
(* Write survives a crash, and a Write that failed or was cut short leaves *)
(* the old value or the new one.  Nothing stands for what Read answers     *)
(* with its fallback.                                                      *)
(***************************************************************************)
EXTENDS Naturals

CONSTANTS Values,   \* the values that are written
          Nothing   \* no value can be read; not one of Values

VARIABLES now,      \* the value Read finds
          may,      \* the values Read may find if the machine crashes
          busy,     \* the value being written, Nothing when no Write runs
          result,   \* what the last Write returned
          damages   \* times the file was damaged from outside

vars == <<now, may, busy, result, damages>>

Readable == Values \cup {Nothing}

Init == now = Nothing /\ may = {Nothing} /\ busy = Nothing
        /\ result = "none" /\ damages = 0

Begin(v) ==
    /\ busy = Nothing /\ busy' = v /\ result' = "none"
    /\ UNCHANGED <<now, may, damages>>

TakeEffect ==
    /\ busy # Nothing
    /\ now' = busy /\ may' = may \cup {busy}
    /\ UNCHANGED <<busy, result, damages>>

\* What is read now has reached the disk.
Settle ==
    /\ busy # Nothing
    /\ may' = {now}
    /\ UNCHANGED <<now, busy, result, damages>>

Acknowledge ==
    /\ busy # Nothing /\ now = busy /\ may = {busy}
    /\ busy' = Nothing /\ result' = "ok"
    /\ UNCHANGED <<now, may, damages>>

Fail ==
    /\ busy # Nothing
    /\ busy' = Nothing /\ result' = "error"
    /\ UNCHANGED <<now, may, damages>>

Crash ==
    /\ now' \in may /\ may' = {now'}
    /\ busy' = Nothing /\ result' = "none"
    /\ UNCHANGED damages

Damage ==
    /\ busy = Nothing
    /\ now' \in Readable /\ may' \in SUBSET Readable
    /\ damages' = damages + 1
    /\ UNCHANGED <<busy, result>>

Next ==
    \/ \E v \in Values : Begin(v)
    \/ TakeEffect \/ Settle \/ Acknowledge \/ Fail \/ Crash \/ Damage

Spec == Init /\ [][Next]_vars
=============================================================================
