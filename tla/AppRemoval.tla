------------------------------- MODULE AppRemoval -------------------------------
(***************************************************************************)
(* Shortcuts and the removal of the Windows program:                       *)
(* internal/platform/shortcut_windows.go, delete_windows.go,               *)
(* integrated_uninstall_windows.go, browser_protocol_windows.go and        *)
(* cmd/ghostftp/uninstall_mode_windows.go.                                 *)
(*                                                                         *)
(* Setup makes shortcuts and records their digests.  The uninstaller is    *)
(* two processes: the parent removes shortcuts and registrations, and a    *)
(* verified copy of the program waits for it and deletes the program.      *)
(* A file is its content, which stands for its digest.                     *)
(***************************************************************************)
EXTENDS Naturals

CONSTANTS Links,      \* the desktop and the Start menu shortcut
          MaxSetups,  \* runs of setup (bound)
          MaxFaults,  \* steps that fail (bound)
          MaxUser     \* changes by the user and other programs (bound)

\* What every instance has to satisfy.
RemovalAssumption == {MaxSetups, MaxFaults, MaxUser} \subseteq Nat

VARIABLES
    exe,        \* "app", "other" (replaced by someone), "none"
    running,    \* another Ghost FTP runs: its file cannot be deleted
    link,       \* content: "own" as setup makes it, "edited" but of the program, "foreign", "none"
    rec,        \* the digests recorded for the links
    keys,       \* registrations: "path", "uninstall", "protocol"
    setup,      \* links setup has yet to make
    parent,     \* the uninstaller
    helper,     \* the finalizer: "none", "started", "waits", "ended"
    todo,       \* links the uninstaller has yet to look at
    warned,     \* an error was shown to the user
    setups, faults, changes

files == <<exe, running, link>>
counts == <<setups, faults, changes>>
vars == <<files, rec, keys, setup, parent, helper, todo, warned, counts>>

Init ==
    /\ exe = "app" /\ running = FALSE
    /\ link \in [Links -> {"none", "foreign"}] /\ rec = [l \in Links |-> "none"]
    /\ keys = {"path", "uninstall", "protocol"}
    /\ setup = Links /\ parent = "none" /\ helper = "none" /\ todo = {} /\ warned = FALSE
    /\ setups = 1 /\ faults = 0 /\ changes = 0

Fault == faults < MaxFaults /\ faults' = faults + 1
Idle == parent \in {"none", "cancelled"} /\ setup = {}

-----------------------------------------------------------------------------
(* Setup *)

\* createOwnedShortcut: a new link is recorded; an old one is recorded when it
\* leads to the program, and a foreign one is left alone.  A new link that
\* cannot be recorded is taken back, which may fail too, and an old one whose
\* target cannot be read is recorded no more.
MakeLink(l) ==
    /\ l \in setup /\ setup' = setup \ {l}
    /\ \/ /\ link[l] = "none" /\ link' = [link EXCEPT ![l] = "own"]
          /\ rec' = [rec EXCEPT ![l] = "own"] /\ UNCHANGED <<warned, faults>>
       \/ /\ Fault /\ warned' = TRUE
          /\ \/ UNCHANGED <<link, rec>>
             \/ link[l] = "none" /\ link' = [link EXCEPT ![l] = "own"] /\ UNCHANGED rec
             \/ /\ link[l] \notin {"none", rec[l]}
                /\ rec' = [rec EXCEPT ![l] = "none"] /\ UNCHANGED link
       \/ /\ link[l] \in {"own", "edited"} /\ rec' = [rec EXCEPT ![l] = link[l]]
          /\ UNCHANGED <<link, warned, faults>>
       \/ /\ link[l] = "foreign" /\ rec' = [rec EXCEPT ![l] = "none"] /\ warned' = TRUE
          /\ UNCHANGED <<link, faults>>
    /\ UNCHANGED <<exe, running, keys, parent, helper, todo, setups, changes>>

\* Setup runs again, once the program has none of its two processes.
SetupAgain ==
    /\ Idle /\ setups < MaxSetups /\ setups' = setups + 1
    /\ setup' = Links /\ exe' = "app" /\ keys' = {"path", "uninstall", "protocol"} /\ warned' = FALSE
    /\ ~running
    /\ UNCHANGED <<running, link, rec, parent, helper, todo, faults, changes>>

-----------------------------------------------------------------------------
(* The uninstaller *)

\* verifyIntegratedUninstallExecutable: the program's file and registrations.
Owned == exe = "app" /\ {"path", "uninstall"} \subseteq keys

Begin ==
    /\ Idle /\ parent = "none" /\ Owned
    /\ parent' \in {"asked", "cancelled"}
    /\ UNCHANGED <<files, rec, keys, setup, helper, todo, warned, counts>>

\* Mutant: the registrations go before the helper runs.
LaunchLast ==
    /\ parent = "asked" /\ keys' = {"protocol"} /\ rec' = [l \in Links |-> "none"]
    /\ \/ exe = "app" /\ helper' = "started" /\ parent' = "links" /\ UNCHANGED <<faults, warned>>
       \/ Fault /\ parent' = "cancelled" /\ warned' = TRUE /\ UNCHANGED helper
    /\ todo' = Links
    /\ UNCHANGED <<files, setup, setups, changes>>

\* launchIntegratedUninstallHelper: a copy with the same digest, started.
Launch ==
    /\ parent = "asked"
    /\ \/ /\ exe = "app" /\ helper' = "started" /\ parent' = "links" /\ todo' = Links
          /\ UNCHANGED <<faults, warned>>
       \/ /\ exe # "app" /\ parent' = "cancelled" /\ warned' = TRUE /\ UNCHANGED <<helper, todo, faults>>
       \/ /\ Fault /\ parent' = "cancelled" /\ warned' = TRUE /\ UNCHANGED <<helper, todo>>
    /\ UNCHANGED <<files, rec, keys, setup, setups, changes>>

\* removeOwnedShortcut: deleted by its handle when its digest is recorded.
RemoveLink(l) ==
    /\ parent = "links" /\ l \in todo /\ todo' = todo \ {l}
    /\ \/ rec[l] = "none" /\ UNCHANGED <<link, rec, warned, faults>>
       \/ /\ rec[l] # "none" /\ link[l] \in {"none", rec[l]}
          /\ link' = [link EXCEPT ![l] = "none"] /\ rec' = [rec EXCEPT ![l] = "none"]
          /\ UNCHANGED <<warned, faults>>
       \/ /\ rec[l] # "none" /\ link[l] \notin {"none", rec[l]}
          /\ warned' = TRUE /\ UNCHANGED <<link, rec, faults>>
       \/ Fault /\ warned' = TRUE /\ UNCHANGED <<link, rec>>
    /\ UNCHANGED <<exe, running, keys, setup, parent, helper, setups, changes>>

\* The registrations; the records of the links are in the uninstall key.
Unregister ==
    /\ parent = "links" /\ todo = {} /\ parent' = "shown"
    /\ \/ keys' = keys \ {"path", "uninstall"} /\ rec' = [l \in Links |-> "none"]
          /\ UNCHANGED <<warned, faults>>
       \/ /\ Fault /\ warned' = TRUE
          /\ \/ keys' = keys \ {"path"} /\ UNCHANGED rec
             \/ keys' = keys \ {"uninstall"} /\ rec' = [l \in Links |-> "none"]
    /\ UNCHANGED <<files, setup, helper, todo, setups, changes>>

\* The user closes "Uninstall completed"; then RemoveOwnedGhostFTPProtocolRegistration.
ParentExits ==
    /\ parent = "shown" /\ parent' = "exited"
    /\ \/ keys' = keys \ {"protocol"} /\ UNCHANGED faults
       \/ Fault /\ UNCHANGED keys
    /\ UNCHANGED <<files, rec, setup, helper, todo, warned, setups, changes>>

\* handleIntegratedUninstallFinalizer up to the wait: it must find its parent.
HelperWaits ==
    /\ helper = "started"
    /\ helper' = IF parent = "exited" THEN "ended" ELSE "waits"
    /\ UNCHANGED <<files, rec, keys, setup, parent, todo, warned, counts>>

\* Mutant: the helper does not wait.
DeleteAtOnce ==
    /\ helper = "waits" /\ helper' = "ended"
    /\ exe' = IF exe = "app" /\ ~running THEN "none" ELSE exe
    /\ UNCHANGED <<running, link, rec, keys, setup, parent, todo, warned, counts>>

\* RemoveVerifiedRegularFileMatchingSHA256 on the program.
Delete ==
    /\ helper = "waits" /\ parent = "exited" /\ helper' = "ended"
    /\ exe' = IF exe = "app" /\ ~running THEN "none" ELSE exe
    /\ UNCHANGED <<running, link, rec, keys, setup, parent, todo, warned, counts>>

-----------------------------------------------------------------------------
(* The user and other programs *)

Change ==
    /\ changes < MaxUser /\ changes' = changes + 1
    /\ \/ exe # "none" /\ ~running /\ exe' = "other" /\ UNCHANGED <<running, link>>
       \/ exe = "app" /\ running' = ~running /\ UNCHANGED <<exe, link>>
       \/ /\ UNCHANGED <<exe, running>>
          /\ \E l \in Links, c \in {"edited", "foreign", "none"} :
                /\ c = "edited" => link[l] = "own"
                /\ link' = [link EXCEPT ![l] = c]
    /\ UNCHANGED <<rec, keys, setup, parent, helper, todo, warned, setups, faults>>

SetupStep == \E l \in Links : MakeLink(l)
Uninstaller ==
    \/ Begin \/ Launch \/ (\E l \in Links : RemoveLink(l)) \/ Unregister \/ ParentExits
    \/ HelperWaits \/ Delete

Next == SetupStep \/ SetupAgain \/ Uninstaller \/ Change
Spec == Init /\ [][Next]_vars

-----------------------------------------------------------------------------
(* Properties *)

\* A link that does not lead to the program is never recorded as the own one.
TypeOK ==
    /\ exe \in {"app", "other", "none"} /\ keys \subseteq {"path", "uninstall", "protocol"}
    /\ rec \in [Links -> {"none", "own", "edited"}] /\ todo \subseteq Links /\ setup \subseteq Links

\* The uninstaller removes a shortcut only with the content that was recorded
\* for it, however it was changed or replaced since.
OnlyRecordedLinksStep ==
    \A l \in Links : RemoveLink(l) => link'[l] = link[l] \/ link[l] = rec[l]

\* Nothing but the verified program is deleted, and not while the process that
\* runs it is there.
OnlyTheProgramStep ==
    exe' = "none" /\ exe # "none" => exe = "app" /\ parent = "exited"
OnlyTheProgram == [][OnlyTheProgramStep]_vars

\* "No installation registration was removed": a removal that was cancelled or
\* could not start leaves the registrations.
RegisteredUntilStarted == helper = "none" => keys = {"path", "uninstall", "protocol"}

\* When nothing was reported, no shortcut of the program is left: those setup
\* made, and those it took over, are recorded until they are removed.
NoShortcutLeft ==
    parent \in {"shown", "exited"} /\ ~warned =>
        \A l \in Links : link[l] \notin {"own", "edited"}

\* The completion message: the program will be removed after the window closes.
\* The code does not keep it: see "Disagreements found" in the README.
ProgramRemoved == parent = "exited" /\ helper = "ended" => exe # "app"
=============================================================================
