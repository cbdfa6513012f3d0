--------------------------- MODULE SettingsWriters ---------------------------
(***************************************************************************)
(* Who writes the settings on Windows: the language list and the settings  *)
(* dialog in goroutines, the site manager's presets and sync options at    *)
(* once (desktop/localization_windows.go, settings_windows.go,             *)
(* site_manager_windows.go), each the whole record from the window's copy. *)
(* The store is internal/config/settings.go.                               *)
(***************************************************************************)
EXTENDS Naturals, FiniteSets

CONSTANTS Entries,     \* what else writes or reads: "site", "load"
          MaxChanges,  \* changes by the user (bound)
          MaxFaults    \* writes that fail (bound)

\* What every instance has to satisfy.
WritersAssumption ==
    Entries \subseteq {"site", "load"} /\ MaxChanges \in Nat /\ MaxFaults \in Nat

VARIABLES
    disk, cache,  \* settings.json and the value of the SettingsStore
    ui,           \* the window's copy
    calls,        \* goroutines under way
    enabled,      \* the language list and the settings button
    modal,        \* the site manager, the dialog over it or over the window
    draft,        \* what the dialog was opened with
    boxes,        \* the marks of the sync options
    changes, faults

store == <<disk, cache>>
vars == <<disk, cache, ui, calls, enabled, modal, draft, boxes, changes, faults>>

Policies == {"skip", "replace"}
Fields == {"lang", "policy", "par"}

\* The old flag follows the policy.
Canonical(v) == [v EXCEPT !.skip = v.policy = "skip"]

Init ==
    /\ disk = [lang |-> 0, policy |-> "replace", par |-> 0, skip |-> FALSE]
    /\ cache = disk /\ ui = disk /\ draft = disk /\ boxes = disk.skip
    /\ calls = IF "load" \in Entries THEN {[kind |-> "load", state |-> "runs", changed |-> {}]} ELSE {}
    /\ enabled = TRUE /\ modal = {} /\ changes = 0 /\ faults = 0

User == changes < MaxChanges /\ changes' = changes + 1

-----------------------------------------------------------------------------
(* The store *)

\* Mutant: the value in memory is replaced before the file is written.
SetEarly(v, ok) ==
    /\ cache' = Canonical(v)
    /\ IF ok THEN disk' = Canonical(v) /\ faults' = faults
       ELSE faults < MaxFaults /\ faults' = faults + 1 /\ disk' = disk

\* Set; a write that fails may already have replaced the file.
Set(v, ok) ==
    IF ok THEN cache' = Canonical(v) /\ disk' = Canonical(v) /\ faults' = faults
    ELSE /\ faults < MaxFaults /\ faults' = faults + 1
         /\ cache' = cache /\ disk' \in {disk, Canonical(v)}

-----------------------------------------------------------------------------
(* The window *)

\* Mutant: the controls stay enabled while the goroutine writes.
LanguageOpen ==
    /\ User /\ enabled /\ modal = {}
    /\ LET next == [ui EXCEPT !.lang = 1 - @] IN
       /\ ui' = next
       /\ calls' = calls \cup {[kind |-> "language", state |-> "runs", next |-> next, old |-> ui,
                                changed |-> {"lang"}]}
    /\ UNCHANGED <<store, enabled, modal, draft, boxes, faults>>

\* changeLanguageFromUI: shown at once, written in a goroutine.
Language ==
    /\ User /\ enabled /\ modal = {}
    /\ LET next == [ui EXCEPT !.lang = 1 - @] IN
       /\ ui' = next /\ enabled' = FALSE
       /\ calls' = calls \cup {[kind |-> "language", state |-> "runs", next |-> next, old |-> ui,
                                changed |-> {"lang"}]}
    /\ UNCHANGED <<store, modal, draft, boxes, faults>>

\* openSettings by its button or out of the site manager.
OpenDialog ==
    /\ "dialog" \notin modal /\ (modal = {} => enabled)
    /\ modal' = modal \cup {"dialog"} /\ draft' = ui
    /\ UNCHANGED <<store, ui, calls, enabled, boxes, changes, faults>>

DialogAccepted(v) ==
    /\ enabled' = FALSE
    /\ calls' = calls \cup {[kind |-> "dialog", state |-> "runs", next |-> v, old |-> draft,
                             changed |-> {f \in Fields : v[f] # draft[f]}]}

Accept ==
    /\ User /\ "dialog" \in modal /\ modal' = modal \ {"dialog"}
    /\ \E l \in 0..1, p \in Policies, n \in 0..1 :
         DialogAccepted(Canonical([draft EXCEPT !.lang = l, !.policy = p, !.par = n]))
    /\ UNCHANGED <<store, ui, draft, boxes, faults>>

CancelDialog ==
    /\ "dialog" \in modal /\ modal' = modal \ {"dialog"}
    /\ UNCHANGED <<store, ui, calls, enabled, draft, boxes, changes, faults>>

-----------------------------------------------------------------------------
(* The site manager *)

Site ==
    /\ "site" \in Entries /\ "dialog" \notin modal
    /\ \/ "site" \notin modal /\ modal' = {"site"} /\ boxes' = ui.skip
       \/ "site" \in modal /\ modal' = {} /\ UNCHANGED boxes
    /\ UNCHANGED <<store, ui, calls, enabled, draft, changes, faults>>

\* SetSettings on the UI thread; a failure leaves the window's copy.
SetNow(v) ==
    \E ok \in BOOLEAN : Set(v, ok) /\ ui' = IF ok THEN cache' ELSE ui

\* applyTransferPreset.
Preset ==
    /\ User /\ modal = {"site"}
    /\ \E p \in Policies, n \in 0..1 : SetNow(Canonical([ui EXCEPT !.policy = p, !.par = n]))
    /\ boxes' = ui'.skip /\ UNCHANGED <<calls, enabled, modal, draft>>

\* saveSyncOptions: the marks go into the old flags.
SyncOption ==
    /\ User /\ modal = {"site"}
    /\ \E ok \in BOOLEAN :
         /\ Set([ui EXCEPT !.skip = ~boxes], ok)
         /\ ui' = (IF ok THEN cache' ELSE ui) /\ boxes' = IF ok THEN ~boxes ELSE ui.skip
    /\ UNCHANGED <<calls, enabled, modal, draft>>

-----------------------------------------------------------------------------
(* Goroutines *)

Runs(c) ==
    /\ c \in calls /\ c.state = "runs"
    /\ IF c.kind = "load"
       THEN /\ calls' = (calls \ {c}) \cup {[kind |-> "load", state |-> "ok", saved |-> cache]}
            /\ UNCHANGED <<store, faults>>
       ELSE \E ok \in BOOLEAN :
              /\ Set(c.next, ok)
              /\ calls' = (calls \ {c}) \cup {[kind |-> c.kind, old |-> c.old, saved |-> cache',
                                               state |-> IF ok THEN "ok" ELSE "failed"]}
    /\ UNCHANGED <<ui, enabled, modal, draft, boxes, changes>>

\* The result, also while a dialog is open.
Result(c) ==
    /\ c \in calls /\ c.state # "runs" /\ calls' = calls \ {c}
    /\ ui' = (IF c.state = "ok" THEN c.saved ELSE IF c.kind = "language" THEN c.old ELSE ui)
    /\ enabled' = (enabled \/ c.kind # "load")
    /\ UNCHANGED <<store, modal, draft, boxes, changes, faults>>

\* The process ends and starts again.
Restart ==
    /\ cache' = disk /\ ui' = disk /\ draft' = disk /\ boxes' = disk.skip
    /\ calls' = {} /\ enabled' = TRUE /\ modal' = {}
    /\ UNCHANGED <<disk, changes, faults>>

Next ==
    \/ Language \/ OpenDialog \/ Accept \/ CancelDialog \/ Site \/ Preset \/ SyncOption
    \/ \E c \in calls : Runs(c) \/ Result(c)
    \/ Restart

Spec == Init /\ [][Next]_vars

-----------------------------------------------------------------------------
\* A write changes the choices the user made for it and restores no older
\* value of another.
NoStaleWriteStep ==
    \A c \in calls : (c.state = "runs" /\ c \notin calls' /\ calls' # {})
      => \A f \in Fields \ c.changed : cache'[f] = cache[f]

\* When nothing is under way the window shows what the store holds.
WindowShowsStore == calls = {} => ui = cache

\* Settings never take effect without being on disk, so a restart brings
\* back no older ones, whichever writes failed.
InEffectIsOnDiskStep ==
    cache' # cache => disk' = cache'

\* After the user marks "skip existing files" the transfers follow the mark.
\* The code does not keep it: see "Disagreements found" in the README.
SyncOptionsObeyed == modal = {"site"} /\ calls = {} => cache.skip = boxes
=============================================================================
