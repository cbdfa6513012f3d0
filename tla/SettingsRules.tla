---------------------------- MODULE SettingsRules ----------------------------
(***************************************************************************)
(* What settings are and how they are edited: internal/config/settings.go, *)
(* the Linux panel (desktop/gui_linux_settings.go), the Windows dialog     *)
(* (desktop/settings_windows.go over platform/settings_dialog_windows.go), *)
(* the terminal (desktop/other.go) and what the transports make of the     *)
(* bandwidth limits (transfer/bandwidth.go, remote/bandwidth.go).          *)
(***************************************************************************)
EXTENDS Integers, Sequences, FiniteSets, FiniteSetsExt

CONSTANTS Edited  \* what varies, of Numbers and Options (bound)

VARIABLES
    stored,   \* the settings in effect
    draft,    \* what an open editor shows
    editor,   \* "none", "linux" or "windows"
    touched   \* the choices the user made in it

vars == <<stored, draft, editor, touched>>

Languages == {"en", "hr", "de"}
Appearances == {"dark", "light"}
Policies == {"skip", "replace", "replace_backup"}
Numbers == {"parallel", "upload", "download", "retries", "delay", "timeout"}

Low == [parallel |-> 1, upload |-> 0, download |-> 0, retries |-> 0, delay |-> 1, timeout |-> 5]
High == [parallel |-> 8, upload |-> 1048576, download |-> 1048576, retries |-> 3, delay |-> 30,
         timeout |-> 60]

Options == {"language", "appearance", "policy", "confirm"}

\* What every instance has to satisfy.
EditedAssumption == Edited \subseteq Numbers \cup Options

DefaultSettings ==
    [language |-> "en", appearance |-> "dark", policy |-> "replace_backup", skip |-> FALSE,
     backup |-> TRUE, confirm |-> TRUE,
     num |-> [parallel |-> 2, upload |-> 0, download |-> 0, retries |-> 0, delay |-> 3, timeout |-> 15]]

Within(n, x) == x >= Low[n] /\ x <= High[n]

-----------------------------------------------------------------------------
(* The store *)

\* Mutant: the old flags are left as they were.
PolicyOnly(v, persisted) ==
    [v EXCEPT !.policy = IF @ = "" THEN IF v.skip THEN "skip" ELSE "replace" ELSE @]

\* migrateConflictPolicy: the two old flags become one policy, and follow it.
MigrateConflict(v, persisted) ==
    LET p == IF v.policy = "" THEN IF v.skip THEN "skip"
                                   ELSE IF v.backup THEN "replace_backup" ELSE "replace"
             ELSE IF v.policy \notin Policies /\ persisted THEN "replace_backup" ELSE v.policy
    IN IF p \in Policies THEN [v EXCEPT !.policy = p, !.skip = p = "skip", !.backup = p # "replace"]
       ELSE [v EXCEPT !.policy = p]

NormalizeLanguage(l) == IF l \in Languages THEN l ELSE "en"
InRange(num) == [n \in Numbers |-> IF Within(n, num[n]) THEN num[n] ELSE DefaultSettings.num[n]]

Normalize(v) ==
    MigrateConflict([v EXCEPT !.language = NormalizeLanguage(@), !.num = InRange(@),
                              !.appearance = IF @ \in Appearances THEN @ ELSE "dark"], TRUE)

Valid(v) ==
    /\ v.language \in Languages /\ v.appearance \in Appearances /\ v.policy \in Policies
    /\ \A n \in Numbers : Within(n, v.num[n])

\* What an older client leaves out: zero stands for it where it is no value.
Filled(v) ==
    [v EXCEPT !.language = IF @ = "" THEN "en" ELSE @, !.appearance = IF @ = "" THEN "dark" ELSE @,
              !.num = [n \in Numbers |-> IF @[n] = 0 /\ n \in {"parallel", "timeout", "delay"}
                                         THEN DefaultSettings.num[n] ELSE @[n]]]

\* Set: what is stored, or the settings as they were.
SetResult(v, old) ==
    LET w == MigrateConflict(Filled(v), FALSE) IN IF Valid(w) THEN w ELSE old

-----------------------------------------------------------------------------
(* The Linux panel *)

Clamp(x, n) == IF x < Low[n] THEN Low[n] ELSE IF x > High[n] THEN High[n] ELSE x

Step(x, n, by) == Clamp(x + by, n)

Presets == {0, 64, 128, 256, 512, 1024, 2048, 4096, 8192, 16384, 32768, 65536, 131072,
            262144, 524288, 1048576}

\* stepBandwidthLimit: the next preset.
StepLimit(x, up) ==
    LET next == {p \in Presets : IF up THEN p > x ELSE p < x} IN
    IF next = {} THEN IF up THEN High["upload"] ELSE Low["upload"]
    ELSE IF up THEN Min(next) ELSE Max(next)

NextPolicy(p) == IF p = "skip" THEN "replace" ELSE IF p = "replace" THEN "replace_backup" ELSE "skip"

\* linuxDefaultSettingsDraft: the language stays.
Reset(v) == [DefaultSettings EXCEPT !.language = v.language]

Closed == editor' = "none" /\ draft' = stored' /\ touched' = {}

OpenLinux ==
    /\ editor = "none" /\ editor' = "linux" /\ touched' = {}
    /\ draft' = [stored EXCEPT !.language = NormalizeLanguage(@),
                               !.appearance = IF @ \in Appearances THEN @ ELSE "dark"]
    /\ UNCHANGED stored

Edit(v, what) ==
    /\ Cardinality(what) = 1 => what \subseteq Edited
    /\ draft' = v /\ touched' = touched \cup what /\ UNCHANGED <<stored, editor>>

StepNumber(n, up) ==
    IF n \in {"upload", "download"} THEN StepLimit(draft.num[n], up)
    ELSE Step(draft.num[n], n, IF up THEN IF n = "timeout" THEN 5 ELSE 1
                               ELSE IF n = "timeout" THEN -5 ELSE -1)

\* handleSettingsMouse.
LinuxClick ==
    /\ editor = "linux"
    /\ \/ \E l \in Languages : Edit([draft EXCEPT !.language = l], {"language"})
       \/ Edit([draft EXCEPT !.appearance = IF @ = "dark" THEN "light" ELSE "dark"], {"appearance"})
       \/ \E n \in Numbers \cap Edited, up \in BOOLEAN :
            Edit([draft EXCEPT !.num[n] = StepNumber(n, up)], {n})
       \/ Edit([draft EXCEPT !.policy = NextPolicy(@)], {"policy"})
       \/ Edit([draft EXCEPT !.confirm = ~@], {"confirm"})
       \/ Edit(Reset(draft), (Options \cup Numbers) \ {"language"})

\* saveSettings; a refused draft stays open.
SaveLinux ==
    /\ editor = "linux" /\ stored' = SetResult(draft, stored)
    /\ IF Valid(MigrateConflict(Filled(draft), FALSE)) THEN Closed ELSE UNCHANGED <<draft, editor, touched>>

-----------------------------------------------------------------------------
(* The Windows dialog *)

PromptSettings(v) == [v EXCEPT !.num = InRange(@), !.appearance = IF @ = "" THEN "dark" ELSE @]

\* conflictPolicyIndex.
ConflictIndex(v) ==
    CASE v.policy = "skip" -> 0 [] v.policy = "replace" -> 1 [] v.policy = "replace_backup" -> 2
      [] OTHER -> IF v.skip THEN 0 ELSE IF v.backup THEN 2 ELSE 1

ApplyConflict(v, i) ==
    LET p == IF i = 0 THEN "skip" ELSE IF i = 1 THEN "replace" ELSE "replace_backup"
    IN [v EXCEPT !.policy = p, !.skip = p = "skip", !.backup = p # "replace"]

\* The dialog works on indices and texts; here on what they stand for.
OpenWindows ==
    /\ editor = "none" /\ editor' = "windows" /\ touched' = {}
    /\ draft' = PromptSettings(stored) /\ UNCHANGED stored

Typed(n) == {-1, 0, 1, Low[n], High[n], High[n] + 1, DefaultSettings.num[n]}

\* settingsWndProc: lists, digits, and the button that resets everything.
WindowsEdit ==
    /\ editor = "windows"
    /\ \/ \E l \in Languages : Edit([draft EXCEPT !.language = l], {"language"})
       \/ \E a \in Appearances : Edit([draft EXCEPT !.appearance = a], {"appearance"})
       \/ \E n \in Numbers \cap Edited : \E x \in Typed(n) : Edit([draft EXCEPT !.num[n] = x], {n})
       \/ \E p \in Policies : Edit([draft EXCEPT !.policy = p], {"policy"})
       \/ Edit([draft EXCEPT !.confirm = ~@], {"confirm"})
       \/ Edit(DefaultSettings, Options \cup Numbers)

\* Apply refuses a number outside its range and keeps the dialog open.
AcceptWindows ==
    /\ editor = "windows" /\ \A n \in Numbers : Within(n, draft.num[n])
    /\ stored' = SetResult(ApplyConflict(draft, ConflictIndex(draft)), stored) /\ Closed

Cancel == editor # "none" /\ stored' = stored /\ Closed

-----------------------------------------------------------------------------
(* The terminal *)

\* "set": whatever was written goes to the store.
TerminalSet ==
    /\ editor = "none"
    /\ \/ \E n \in Edited \cap {"parallel", "retries", "delay", "timeout"} : \E x \in Typed(n) :
            stored' = SetResult([stored EXCEPT !.num[n] = x], stored)
       \/ "policy" \in Edited /\ \E p \in Policies \cup {"", "other"} : stored' = SetResult([stored EXCEPT !.policy = p], stored)
       \/ "confirm" \in Edited /\ \E b \in BOOLEAN : stored' = SetResult([stored EXCEPT !.confirm = b], stored)
       \/ "language" \in Edited /\ \E l \in Languages : stored' = SetResult([stored EXCEPT !.language = l], stored)
    /\ Closed

-----------------------------------------------------------------------------
(* Bandwidth *)

\* bandwidthLimitBytesPerSecond: the share of one slot.
Share(v, n) ==
    IF v.num[n] <= 0 THEN 0
    ELSE (v.num[n] * 1024)
         \div (IF Within("parallel", v.num["parallel"]) THEN v.num["parallel"] ELSE High["parallel"])

\* sftpLimitKbitPerSecond: 125 bytes are a kilobit.
Kbit(bytes) == IF bytes <= 0 THEN 0 ELSE Max({1, bytes \div 125})

-----------------------------------------------------------------------------
\* A file written by this or another version, or damaged, in what varies.
Varies(what, all) == IF what \in Edited THEN all ELSE {CHOOSE x \in all : TRUE}
Files ==
    [language : Varies("language", {"", "hr", "xx"}), appearance : {"", "grey"},
     policy : Varies("policy", Policies \cup {"", "other"}),
     skip : Varies("policy", BOOLEAN), backup : Varies("policy", BOOLEAN), confirm : {TRUE},
     num : {DefaultSettings.num}
           \cup UNION {{[DefaultSettings.num EXCEPT ![n] = x] : x \in {-1, 0, 1, 8, 9, 61}} :
                         n \in Numbers \cap Edited}]

\* Get normalizes what was read.
Init ==
    /\ \E f \in Files : stored = Normalize(f) /\ draft = stored
    /\ editor = "none" /\ touched = {}

Next ==
    \/ OpenLinux \/ LinuxClick \/ SaveLinux
    \/ OpenWindows \/ WindowsEdit \/ AcceptWindows \/ Cancel \/ TerminalSet

Spec == Init /\ [][Next]_vars

-----------------------------------------------------------------------------
\* Whatever was in the file and whoever edited since: the settings in effect
\* are valid, and the flags old components read agree with the policy.
StoredCanonical ==
    Valid(stored) /\ (stored.skip <=> stored.policy = "skip") /\ (stored.backup <=> stored.policy # "replace")

\* The panel never holds a draft the store would refuse.
PanelAccepted == editor = "linux" => SetResult(draft, [draft EXCEPT !.policy = "none"]).policy # "none"

\* Editing changes what the user touched and nothing else.
OnlyTouchedStep ==
    editor # "none" =>
    /\ \A n \in Numbers : stored'.num[n] # stored.num[n] => n \in touched
    /\ stored'.policy # stored.policy => "policy" \in touched
    /\ stored'.language # stored.language => "language" \in touched
    /\ stored'.appearance # stored.appearance => "appearance" \in touched
    /\ stored'.confirm # stored.confirm => "confirm" \in touched

\* What the Windows dialog accepts is stored as it stands there.
AcceptedIsStoredStep ==
    editor = "windows" /\ stored' # stored =>
    /\ stored'.num = draft.num /\ stored'.policy = draft.policy

\* The slots of a direction together stay within its limit, in bytes and in
\* the kilobits of sftp, and a limit never becomes none.
ShareWithinBudget ==
    \A n \in {"upload", "download"} :
        LET share == Share(stored, n)  slots == stored.num["parallel"] IN
        /\ stored.num[n] > 0 <=> Kbit(share) > 0
        /\ slots * share <= stored.num[n] * 1024
        /\ slots * Kbit(share) * 125 <= stored.num[n] * 1024

\* A step up from a preset and back is no change, inside the range.
StepsReturn ==
    editor = "linux" =>
       /\ \A x \in Presets \ {High["upload"]} : StepLimit(StepLimit(x, TRUE), FALSE) = x
       /\ draft.num["upload"] > 0 => StepLimit(draft.num["upload"], FALSE) < draft.num["upload"]
=============================================================================
