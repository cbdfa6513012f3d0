-------------------------- MODULE TransfersProofs --------------------------
(***************************************************************************)
(* Proofs about the components that work with the server and with files.   *)
(* Each component has an inductive invariant: its states satisfy it at the *)
(* start (...Starts), every step keeps it (...Steps), and the invariants   *)
(* that the suite checks follow from it (...Implies).  The last section    *)
(* puts them together for a behaviour of MCTransfers, for every value of   *)
(* its constants.                                                          *)
(***************************************************************************)
EXTENDS MCTransfers, SequenceTheorems, FiniteSetTheorems, TLAPS

(***************************************************************************)
(* Downloads: a whole file through every failure                           *)
(***************************************************************************)

\* What a job has beside the target: its staging file is whole while it is activated, a
\* copy is set aside only from then on, and success leaves the backup and, of the attempt
\* that succeeded, nothing else.
JobOwns(j) ==
    /\ replacePc[j] = "get" => Replace!Part(j) = Sentinel
    /\ replacePc[j] = "validate" => Replace!Part(j) \in {j, Sentinel}
    /\ replacePc[j] \in {"inspect", "protect", "hold", "check", "activate"} => Replace!Part(j) = j
    /\ replacePc[j] \in {"prepare", "get", "validate", "inspect", "protect"} =>
          replaceSaved[j] = Missing
    /\ replacePc[j] = "discard" => replacePolicy[j] # "backup" /\ Replace!Part(j) = Missing
    /\ replacePc[j] = "done" <=> replaceResult[j] # "none"
    /\ replaceResult[j] = "ok" =>
          Replace!Part(j) = Missing /\ (replaceSaved[j] # Missing => replacePolicy[j] = "backup")

\* A copy that is not about to be removed.
SetAside(j) == replaceSaved[j] \in Replace!Whole /\ replacePc[j] # "discard"

\* A whole file is at the target or set aside for it, until somebody else replaces it.
CopyIsSomewhere ==
    ~replaceReplaced => replaceBase \in Replace!Whole \/ \E j \in Downloads : SetAside(j)

\* The inductive invariant of the downloads that replace a file.
ReplaceInv ==
    /\ Replace!TypeOK
    /\ \A j \in Downloads : JobOwns(j)
    /\ CopyIsSomewhere
    /\ Replace!BackupKeepsOriginal

\* The contents are different from each other.
LEMMA DownloadFacts ==
    /\ Missing \notin Replace!Whole /\ Sentinel \notin Replace!Whole
    /\ Old \in Replace!Whole /\ Foreign \in Replace!Whole
    /\ Replace!Whole \subseteq Replace!Contents /\ Missing \in Replace!Contents
    /\ \A j \in Downloads :
          /\ j \in Replace!Whole /\ j # Missing /\ j # Sentinel /\ j # Partial
          /\ Replace!Placeholder(j) \in Replace!Contents
          /\ Replace!Placeholder(j) \notin Replace!Whole \cup {Missing}
  BY TransfersAssumption DEF Replace!DownloadAssumption, Replace!Whole, Replace!Contents

\* What a part may hold.
PartContents == Downloads \cup {Missing, Sentinel, Partial}

\* The part of the attempt a job is at becomes c.
PartBecomes(j, c) ==
    /\ replacePart' \in [Downloads -> [Replace!Attempts -> PartContents]]
    /\ replacePart'[j][replaceAttempt[j]] = c
    /\ \A i \in Downloads \ {j} : replacePart'[i] = replacePart[i]

\* A write to the part of the attempt changes nothing else.
LEMMA PartSet ==
    ASSUME ReplaceInv, NEW j \in Downloads, NEW c \in PartContents, Replace!SetPart(j, c)
    PROVE  PartBecomes(j, c)
<1> DEFINE n == replaceAttempt[j]
           row == [replacePart[j] EXCEPT ![n] = c]
<1>1. /\ replacePart \in [Downloads -> [Replace!Attempts -> PartContents]]
      /\ n \in Replace!Attempts
  BY DEF ReplaceInv, Replace!TypeOK, PartContents
<1>2. replacePart' = [replacePart EXCEPT ![j] = row]
  BY DEF Replace!SetPart
<1>3. row \in [Replace!Attempts -> PartContents] /\ row[n] = c
  BY <1>1
<1> HIDE DEF row, n
<1>4. /\ replacePart' \in [Downloads -> [Replace!Attempts -> PartContents]]
      /\ replacePart'[j] = row
      /\ \A i \in Downloads \ {j} : replacePart'[i] = replacePart[i]
  BY <1>1, <1>2, <1>3
<1> QED
  BY <1>3, <1>4 DEF PartBecomes, n

\* A clean-up removes the part of the attempt or leaves it.
LEMMA PartCleaned ==
    ASSUME ReplaceInv, NEW j \in Downloads, Replace!CleanPart(j)
    PROVE  \E c \in PartContents : PartBecomes(j, c)
<1>1. Replace!Part(j) \in PartContents /\ Missing \in PartContents
  BY DEF ReplaceInv, Replace!TypeOK, Replace!Part, PartContents
<1> QED
  BY <1>1, PartSet DEF Replace!CleanPart

\* So does a step that does not touch it.
LEMMA PartAlone ==
    ASSUME ReplaceInv, NEW j \in Downloads, replacePart' = replacePart
    PROVE  PartBecomes(j, Replace!Part(j)) /\ Replace!Part(j) \in PartContents
  BY DEF ReplaceInv, Replace!TypeOK, Replace!Part, PartContents, PartBecomes

\* A step of one job leaves what the others have alone.
OnlyJob(j) ==
    /\ replacePolicy' = replacePolicy
    /\ replacePart' \in [Downloads -> [Replace!Attempts -> PartContents]]
    /\ replaceSaved' \in [Downloads -> Replace!Contents]
    /\ replaceExpected' \in [Downloads -> Replace!Contents]
    /\ replacePc' \in [Downloads -> Replace!Locations]
    /\ replaceAttempt' \in [Downloads -> Replace!Attempts]
    /\ replaceResult' \in [Downloads -> {"none", "ok", "skipped", "failed", "activeButFailed",
         "killed"}]
    /\ \A i \in Downloads \ {j} :
          /\ replacePart'[i] = replacePart[i] /\ replaceSaved'[i] = replaceSaved[i]
          /\ replacePc'[i] = replacePc[i] /\ replaceResult'[i] = replaceResult[i]
          /\ replaceAttempt'[i] = replaceAttempt[i]

\* What a step of one job has to keep of the invariant.
ReplaceKeeps(j) ==
    /\ OnlyJob(j) /\ JobOwns(j)'
    /\ replacePc'[j] \in {"discard", "restore", "link", "rename"} => replaceSaved'[j] # Missing
    /\ replaceBase' \in Replace!Contents
    /\ replaceReplaced' \in BOOLEAN /\ replaceOverrun' \in BOOLEAN
    /\ replaceAppeared' = replaceAppeared
    /\ CopyIsSomewhere' /\ Replace!BackupKeepsOriginal'

\* Keeping that is enough for the invariant.
LEMMA ReplaceKept ==
    ASSUME ReplaceInv, NEW j \in Downloads, ReplaceKeeps(j)
    PROVE  ReplaceInv'
<1>1. \A i \in Downloads : JobOwns(i)'
  BY DEF ReplaceInv, ReplaceKeeps, OnlyJob, JobOwns, Replace!Part
<1>2. Replace!TypeOK'
  BY DEF ReplaceInv, ReplaceKeeps, OnlyJob, Replace!TypeOK, PartContents
<1> QED
  BY <1>1, <1>2 DEF ReplaceInv, ReplaceKeeps


\* Steps that leave the target and the copy alone.
LEMMA AsideKeeps ==
    ASSUME ReplaceInv, NEW j \in Downloads, OnlyJob(j), JobOwns(j)',
           UNCHANGED <<replaceBase, replaceSaved, Replace!history, replaceAppeared>>,
           replacePc'[j] \notin {"discard", "link", "rename"},
           replacePc'[j] = "restore" => replaceSaved[j] # Missing
    PROVE  ReplaceKeeps(j)
<1>1. CopyIsSomewhere' /\ Replace!BackupKeepsOriginal'
  BY DEF ReplaceInv, OnlyJob, CopyIsSomewhere, SetAside, Replace!BackupKeepsOriginal,
     Replace!history
<1> QED
  BY <1>1 DEF ReplaceKeeps, ReplaceInv, Replace!TypeOK, Replace!history

\* Up to the comparison of the parts, a job works on its own staging file.
LEMMA PrepareKeeps ==
    ASSUME ReplaceInv, NEW j \in Downloads, Replace!Prepare(j) \/ Replace!Get(j)
           \/ Replace!ValidatePart(j) \/ Replace!Inspect(j)
    PROVE  ReplaceKeeps(j)
<1> USE DEF Replace!Goto, Replace!Finish
<1> DEFINE Fits(c) ==
             /\ PartBecomes(j, c)
             /\ replacePc'[j] = "get" => c = Sentinel
             /\ replacePc'[j] = "validate" => c \in {j, Sentinel}
             /\ replacePc'[j] \in {"inspect", "protect", "hold"} => c = j
<1>1. PICK c \in PartContents : Fits(c)
  <2> USE DEF ReplaceInv
  <2>1. {Sentinel, Missing, Partial, j} \subseteq PartContents
    BY DEF PartContents
  <2>2. PartBecomes(j, Replace!Part(j)) \/ replacePart' # replacePart
    BY PartAlone
  <2>3. Replace!Part(j) \in PartContents
    BY DEF Replace!TypeOK, Replace!Part, PartContents
  <2>4. replacePc \in [Downloads -> Replace!Locations]
    BY DEF Replace!TypeOK
  <2>5. CASE Replace!Prepare(j)
    <3>1. CASE replacePart' = replacePart /\ replacePc' = [replacePc EXCEPT ![j] = "done"]
      BY <2>2, <2>3, <2>4, <3>1
    <3>2. CASE Replace!SetPart(j, Sentinel) /\ replacePc' = [replacePc EXCEPT ![j] = "get"]
      BY <2>1, <2>4, <3>2, PartSet
    <3>3. ASSUME NEW d \in {Missing, Partial}, Replace!SetPart(j, d),
                 replacePc' = [replacePc EXCEPT ![j] = "done"]
          PROVE  \E c \in PartContents : Fits(c)
      <4>1. PartBecomes(j, d) /\ d \in PartContents
        BY <2>1, <3>3, PartSet
      <4> QED
        BY <2>4, <3>3, <4>1
    <3> QED
      BY <2>5, <3>1, <3>2, <3>3 DEF Replace!Prepare
  <2>6. CASE Replace!Get(j)
    <3>1. CASE Replace!SetPart(j, j) /\ replacePc' = [replacePc EXCEPT ![j] = "validate"]
      BY <2>1, <2>4, <3>1, PartSet
    <3>2. CASE replacePart' = replacePart /\ replacePc' = [replacePc EXCEPT ![j] = "validate"]
      <4>1. Replace!Part(j) = Sentinel
        BY <2>6 DEF Replace!Get, JobOwns
      <4> QED
        BY <2>2, <2>3, <2>4, <3>2, <4>1
    <3>3. ASSUME NEW d \in {Missing, Partial}, Replace!SetPart(j, d),
                 \/ replacePc' = [replacePc EXCEPT ![j] = "prepare"]
                 \/ replacePc' = [replacePc EXCEPT ![j] = "done"]
          PROVE  \E c \in PartContents : Fits(c)
      <4>1. PartBecomes(j, d) /\ d \in PartContents
        BY <2>1, <3>3, PartSet
      <4> QED
        BY <2>4, <3>3, <4>1
    <3> QED
      BY <2>6, <3>1, <3>2, <3>3 DEF Replace!Get
  <2>7. CASE Replace!ValidatePart(j) \/ Replace!Inspect(j)
    <3>1. CASE Replace!CleanPart(j) /\ replacePc' = [replacePc EXCEPT ![j] = "done"]
      BY <2>4, <3>1, PartCleaned
    <3>2. CASE /\ replacePart' = replacePart
               /\ \/ replacePc[j] = "validate" /\ Replace!Part(j) # Sentinel
                  \/ replacePc[j] = "inspect"
               /\ \/ replacePc' = [replacePc EXCEPT ![j] = "inspect"]
                  \/ replacePc' = [replacePc EXCEPT ![j] = "protect"]
                  \/ replacePc' = [replacePc EXCEPT ![j] = "hold"]
      <4>1. Replace!Part(j) = j
        BY <3>2 DEF JobOwns
      <4> QED
        BY <2>2, <2>3, <2>4, <3>2, <4>1
    <3> QED
      BY <2>7, <3>1, <3>2 DEF Replace!ValidatePart, Replace!Inspect
  <2> QED
    BY <2>5, <2>6, <2>7
<1> USE TransfersAssumption DEF ReplaceInv, Replace!TypeOK, Replace!Prepare,
      Replace!Get, Replace!ValidatePart, Replace!Inspect
<1>2. OnlyJob(j)
  <2>1. /\ replaceAttempt' \in [Downloads -> Replace!Attempts]
        /\ \A i \in Downloads \ {j} : replaceAttempt'[i] = replaceAttempt[i]
    BY DEF Replace!Attempts, Replace!DownloadAssumption
  <2>2. /\ replacePc' \in [Downloads -> Replace!Locations]
        /\ replaceResult' \in [Downloads -> {"none", "ok", "skipped", "failed", "activeButFailed",
              "killed"}]
        /\ \A i \in Downloads \ {j} :
              replacePc'[i] = replacePc[i] /\ replaceResult'[i] = replaceResult[i]
    BY DEF Replace!Locations
  <2> QED
    BY <1>1, <2>1, <2>2 DEF OnlyJob, PartBecomes
<1>3. JobOwns(j)'
  <2>1. Replace!Part(j)' = c \/ replacePc'[j] = "prepare"
    BY <1>1 DEF PartBecomes, Replace!Part
  <2>2. /\ replaceSaved'[j] = Missing
        /\ replaceResult[j] = "none" /\ replaceResult'[j] # "ok"
        /\ replacePc'[j] = "done" <=> replaceResult'[j] # "none"
        /\ replacePc'[j] \in {"prepare", "get", "validate", "inspect", "protect", "hold", "done"}
    BY DEF JobOwns
  <2> QED
    BY <1>1, <2>1, <2>2 DEF JobOwns
<1>4. UNCHANGED <<replaceBase, replaceSaved, Replace!history, replaceAppeared>>
        /\ replacePc'[j] \notin {"discard", "restore", "link", "rename"}
  OBVIOUS
<1> QED
  BY <1>2, <1>3, <1>4, AsideKeeps

\* Setting the target aside moves the copy from the target to the job.
LEMMA ProtectTargetKeeps ==
    ASSUME ReplaceInv, NEW j \in Downloads, Replace!Protect(j)
    PROVE  ReplaceKeeps(j)
<1>1. PICK c \in PartContents :
         PartBecomes(j, c) /\ (replacePc'[j] = "hold" => c = j)
  <2>1. /\ Replace!CleanPart(j) => \E c \in PartContents : PartBecomes(j, c)
        /\ replacePart' = replacePart => PartBecomes(j, Replace!Part(j))
        /\ Replace!Part(j) = j /\ j \in PartContents
    BY PartCleaned, PartAlone DEF ReplaceInv, JobOwns, Replace!Protect, PartContents
  <2> QED
    BY <2>1 DEF Replace!Protect, Replace!Goto, Replace!Finish, ReplaceInv, Replace!TypeOK
<1> USE DownloadFacts DEF ReplaceInv, Replace!TypeOK, Replace!Protect,
      Replace!Goto, Replace!Finish
<1>2. OnlyJob(j)
  <2>1. /\ replaceSaved' \in [Downloads -> Replace!Contents]
        /\ replaceExpected' \in [Downloads -> Replace!Contents]
        /\ \A i \in Downloads \ {j} : replaceSaved'[i] = replaceSaved[i]
    <3>1. CASE /\ replaceSaved' = [replaceSaved EXCEPT ![j] = replaceBase]
               /\ replaceExpected' = [replaceExpected EXCEPT ![j] = replaceBase]
      BY <3>1
    <3>2. CASE UNCHANGED <<replaceSaved, replaceExpected>>
      BY <3>2
    <3> QED
      BY <3>1, <3>2
  <2>2. /\ replacePc' \in [Downloads -> Replace!Locations]
        /\ replaceResult' \in [Downloads -> {"none", "ok", "skipped", "failed", "activeButFailed",
              "killed"}]
        /\ \A i \in Downloads \ {j} :
              replacePc'[i] = replacePc[i] /\ replaceResult'[i] = replaceResult[i]
    BY DEF Replace!Locations
  <2> QED
    BY <1>1, <2>1, <2>2 DEF OnlyJob, PartBecomes
<1>3. JobOwns(j)'
  <2>1. Replace!Part(j)' = c
    BY <1>1 DEF PartBecomes, Replace!Part
  <2> QED
    BY <1>1, <2>1 DEF JobOwns
<1>4. CopyIsSomewhere'
  <2>1. /\ replacePc[j] # "discard" /\ replacePc'[j] # "discard" /\ replaceSaved[j] = Missing
        /\ replaceReplaced' = replaceReplaced
        /\ UNCHANGED <<replaceBase, replaceSaved>> \/ replaceSaved'[j] = replaceBase
    BY DEF JobOwns, Replace!history
  <2>2. replaceBase \in Replace!Whole /\ ~(UNCHANGED <<replaceBase, replaceSaved>>)
          => SetAside(j)'
    BY <2>1 DEF SetAside
  <2>3. \A i \in Downloads : SetAside(i) => SetAside(i)'
    BY <1>2, <2>1 DEF SetAside, OnlyJob
  <2>4. CopyIsSomewhere
    OBVIOUS
  <2> QED
    BY <2>1, <2>2, <2>3, <2>4 DEF CopyIsSomewhere
<1>5. Replace!BackupKeepsOriginal'
  BY <1>2, <1>3 DEF OnlyJob, JobOwns, Replace!BackupKeepsOriginal, Replace!history
<1>6. replaceBase' \in Replace!Contents
        /\ (replacePc'[j] \in {"discard", "restore", "link", "rename"}
        => replaceSaved'[j] # Missing)
  BY <1>2 DEF OnlyJob, JobOwns
<1> QED
  BY <1>2, <1>3, <1>4, <1>5, <1>6 DEF ReplaceKeeps, Replace!history

\* The placeholder takes an empty name only.
LEMMA HoldKeeps ==
    ASSUME ReplaceInv, NEW j \in Downloads, Replace!Hold(j)
    PROVE  ReplaceKeeps(j)
<1>1. PICK c \in PartContents :
         PartBecomes(j, c) /\ (replacePc'[j] = "check" => c = j)
  <2>1. /\ Replace!CleanPart(j) => \E c \in PartContents : PartBecomes(j, c)
        /\ replacePart' = replacePart => PartBecomes(j, Replace!Part(j))
        /\ Replace!Part(j) = j /\ j \in PartContents
    BY PartCleaned, PartAlone DEF ReplaceInv, JobOwns, Replace!Hold, PartContents
  <2> QED
    BY <2>1 DEF Replace!Hold, Replace!Goto, Replace!Finish, ReplaceInv, Replace!TypeOK
<1> USE DownloadFacts DEF ReplaceInv, Replace!TypeOK, Replace!Hold, Replace!Goto, Replace!Finish
<1>2. OnlyJob(j)
  BY <1>1 DEF OnlyJob, Replace!Locations, PartBecomes
<1>3. JobOwns(j)'
  <2>1. Replace!Part(j)' = c
    BY <1>1 DEF PartBecomes, Replace!Part
  <2> QED
    BY <1>1, <2>1 DEF JobOwns
<1>4. CopyIsSomewhere'
  BY <1>2, <1>3 DEF OnlyJob, JobOwns, CopyIsSomewhere, SetAside, Replace!history
<1>5. Replace!BackupKeepsOriginal'
  BY <1>2, <1>3 DEF OnlyJob, JobOwns, Replace!BackupKeepsOriginal, Replace!history
<1>6. replaceBase' \in Replace!Contents
        /\ (replacePc'[j] \in {"discard", "restore", "link", "rename"}
        => replaceSaved'[j] # Missing)
  BY <1>2 DEF OnlyJob, JobOwns
<1> QED
  BY <1>2, <1>3, <1>4, <1>5, <1>6 DEF ReplaceKeeps, Replace!history

\* Checking the placeholder and undoing move nothing but the job; a removal takes what
\* is at the target, and is counted when that is somebody else's file.
LEMMA UndoKeeps ==
    ASSUME ReplaceInv, NEW j \in Downloads,
           Replace!Check(j) \/ Replace!Undo(j) \/ Replace!Remove(j)
    PROVE  ReplaceKeeps(j)
<1>1. PICK c \in PartContents :
         PartBecomes(j, c) /\ (replacePc'[j] = "activate" => c = j)
  <2>1. /\ Replace!CleanPart(j) => \E c \in PartContents : PartBecomes(j, c)
        /\ replacePart' = replacePart => PartBecomes(j, Replace!Part(j))
        /\ replacePc[j] = "check" => Replace!Part(j) = j
        /\ j \in PartContents /\ Replace!Part(j) \in PartContents
    BY PartCleaned, PartAlone DEF ReplaceInv, JobOwns, Replace!TypeOK, Replace!Part, PartContents
  <2>2. replacePc'[j] = "activate" => replacePc[j] = "check" /\ replacePart' = replacePart
    BY DEF Replace!Check, Replace!Undo, Replace!Remove, Replace!GiveUp, Replace!Goto,
       Replace!Finish, ReplaceInv, Replace!TypeOK
  <2>3. Replace!CleanPart(j) \/ replacePart' = replacePart
    BY DEF Replace!Check, Replace!Undo, Replace!Remove, Replace!GiveUp
  <2> QED
    BY <2>1, <2>2, <2>3
<1> USE DownloadFacts DEF ReplaceInv, Replace!TypeOK, Replace!Check, Replace!Undo,
      Replace!Remove, Replace!GiveUp, Replace!Goto, Replace!Finish
<1>2. OnlyJob(j)
  BY <1>1 DEF OnlyJob, Replace!Locations, PartBecomes
<1>3. JobOwns(j)'
  <2>1. Replace!Part(j)' = c
    BY <1>1 DEF PartBecomes, Replace!Part
  <2> QED
    BY <1>1, <2>1 DEF JobOwns
<1>4. /\ UNCHANGED <<replaceSaved, replaceOverrun, replaceAppeared>>
      /\ \/ UNCHANGED <<replaceBase, replaceReplaced>>
         \/ /\ replaceBase' = Missing
            /\ replaceReplaced' =
                  (replaceReplaced \/ replaceBase \notin {Replace!Placeholder(j), Missing})
      /\ replacePc[j] # "discard" /\ replacePc'[j] # "discard"
  BY DEF Replace!history
<1>5. replaceReplaced' \in BOOLEAN /\ (replaceReplaced => replaceReplaced')
        /\ (replaceBase' = replaceBase \/ replaceReplaced' \/ replaceBase \notin Replace!Whole)
  <2> DEFINE Other == replaceBase \notin {Replace!Placeholder(j), Missing}
  <2>1. Other \in BOOLEAN /\ (~Other => replaceBase \notin Replace!Whole)
    OBVIOUS
  <2>2. (UNCHANGED <<replaceBase, replaceReplaced>>) \/ replaceReplaced' = (replaceReplaced \/ Other)
    BY <1>4
  <2>3. replaceReplaced \in BOOLEAN
    OBVIOUS
  <2> HIDE DEF Other
  <2> QED
    BY ONLY <2>1, <2>2, <2>3
<1>6. CopyIsSomewhere'
  BY <1>2, <1>4, <1>5 DEF OnlyJob, CopyIsSomewhere, SetAside
<1>7. Replace!BackupKeepsOriginal'
  BY <1>2, <1>4, <1>5 DEF OnlyJob, Replace!BackupKeepsOriginal
<1>8. replaceBase' \in Replace!Contents
        /\ (replacePc'[j] \in {"discard", "restore", "link", "rename"}
        => replaceSaved'[j] # Missing)
  BY <1>2, <1>4 DEF OnlyJob
<1> QED
  BY <1>2, <1>3, <1>4, <1>5, <1>6, <1>7, <1>8 DEF ReplaceKeeps

\* The rename that activates puts a whole file at the target.
LEMMA ActivateKeeps ==
    ASSUME ReplaceInv, NEW j \in Downloads, Replace!Activate(j)
    PROVE  ReplaceKeeps(j)
<1>1. PICK c \in PartContents :
         PartBecomes(j, c) /\ (replacePc'[j] # "undo" => c = Missing)
  <2>1. /\ Missing \in PartContents /\ Replace!Part(j) \in PartContents
        /\ replacePart' = replacePart => PartBecomes(j, Replace!Part(j))
    BY PartAlone DEF ReplaceInv, Replace!TypeOK, Replace!Part, PartContents
  <2>2. CASE Replace!SetPart(j, Missing)
    BY <2>1, <2>2, PartSet
  <2>3. CASE replacePart' = replacePart /\ replacePc'[j] = "undo"
    BY <2>1, <2>3
  <2> QED
    BY <2>2, <2>3 DEF Replace!Activate, Replace!Goto, ReplaceInv, Replace!TypeOK
<1>2. Replace!Part(j) = j
  BY DEF ReplaceInv, JobOwns, Replace!Activate
<1> USE DownloadFacts, <1>2 DEF ReplaceInv, Replace!TypeOK, Replace!Activate,
      Replace!Goto, Replace!Finish
<1>3. OnlyJob(j)
  BY <1>1 DEF OnlyJob, Replace!Locations, PartBecomes
<1>4. JobOwns(j)'
  <2>1. Replace!Part(j)' = c
    BY <1>1 DEF PartBecomes, Replace!Part
  <2> QED
    BY <1>1, <2>1 DEF JobOwns
<1>5. CopyIsSomewhere'
  BY <1>3, <1>4 DEF OnlyJob, JobOwns, CopyIsSomewhere, SetAside
<1>6. Replace!BackupKeepsOriginal'
  <2>1. replaceSaved' = replaceSaved /\ replacePolicy' = replacePolicy
          /\ replaceReplaced' = replaceReplaced
    OBVIOUS
  <2>2. replaceBase' = replaceBase \/ replaceBase # Old \/ replaceOverrun'
    <3>1. CASE replaceBase' = replaceBase
      BY <3>1
    <3>2. CASE replaceOverrun' = (replaceOverrun \/ replaceBase # Replace!Placeholder(j))
      <4>1. Old # Replace!Placeholder(j)
        OBVIOUS
      <4>2. CASE replaceBase # Replace!Placeholder(j)
        BY ONLY <3>2, <4>2, Zenon
      <4> QED
        BY <4>1, <4>2
    <3> QED
      BY <3>1, <3>2
  <2>3. replaceOverrun => replaceOverrun'
    OBVIOUS
  <2>4. CASE replaceBase' = replaceBase
    BY <2>1, <2>3, <2>4 DEF Replace!BackupKeepsOriginal
  <2> QED
    BY <2>1, <2>2, <2>3, <2>4 DEF Replace!BackupKeepsOriginal
<1>7. replaceBase' \in Replace!Contents
        /\ (replacePc'[j] \in {"discard", "restore", "link", "rename"}
        => replaceSaved'[j] # Missing)
  BY <1>3 DEF OnlyJob, JobOwns
<1> QED
  BY <1>3, <1>4, <1>5, <1>6, <1>7 DEF ReplaceKeeps

\* Only a copy that nobody asked to keep is removed, after the file is in place.
LEMMA DiscardKeeps ==
    ASSUME ReplaceInv, NEW j \in Downloads, Replace!Discard(j)
    PROVE  ReplaceKeeps(j)
<1>1. PartBecomes(j, Replace!Part(j)) /\ Replace!Part(j)' = Replace!Part(j)
  BY PartAlone DEF Replace!Discard, Replace!Part, Replace!Finish
<1> USE DownloadFacts DEF ReplaceInv, Replace!TypeOK, Replace!Discard,
      Replace!Finish
<1>2. OnlyJob(j)
  <2>1. /\ replaceSaved' \in [Downloads -> Replace!Contents]
        /\ replaceExpected' \in [Downloads -> Replace!Contents]
        /\ \A i \in Downloads \ {j} : replaceSaved'[i] = replaceSaved[i]
    OBVIOUS
  <2>2. /\ replacePc' \in [Downloads -> Replace!Locations]
        /\ replaceResult' \in [Downloads -> {"none", "ok", "skipped", "failed", "activeButFailed",
              "killed"}]
        /\ \A i \in Downloads \ {j} :
              replacePc'[i] = replacePc[i] /\ replaceResult'[i] = replaceResult[i]
    BY DEF Replace!Locations
  <2> QED
    BY <1>1, <2>1, <2>2 DEF OnlyJob, PartBecomes
<1>3. JobOwns(j)'
  BY <1>1 DEF JobOwns
<1>4. CopyIsSomewhere'
  BY <1>2, <1>3 DEF OnlyJob, JobOwns, CopyIsSomewhere, SetAside, Replace!history
<1>5. Replace!BackupKeepsOriginal'
  BY <1>2, <1>3 DEF OnlyJob, JobOwns, Replace!BackupKeepsOriginal, Replace!history
<1>6. replaceBase' \in Replace!Contents
        /\ (replacePc'[j] \in {"discard", "restore", "link", "rename"}
        => replaceSaved'[j] # Missing)
  BY <1>2 DEF OnlyJob, JobOwns
<1> QED
  BY <1>2, <1>3, <1>4, <1>5, <1>6 DEF ReplaceKeeps, Replace!history

\* Undoing brings the copy back, or leaves it where it is set aside.
LEMMA RestoreKeeps ==
    ASSUME ReplaceInv, NEW j \in Downloads, Replace!RestoreCheck(j) \/ Replace!Link(j)
           \/ Replace!RenameBack(j)
    PROVE  ReplaceKeeps(j)
<1>1. PartBecomes(j, Replace!Part(j)) /\ Replace!Part(j)' = Replace!Part(j)
  BY PartAlone DEF Replace!RestoreCheck, Replace!Link, Replace!RenameBack, Replace!files,
     Replace!Part, Replace!Goto, Replace!Finish
<1> USE DownloadFacts DEF ReplaceInv, Replace!TypeOK, Replace!RestoreCheck, Replace!Link,
      Replace!RenameBack, Replace!files,
      Replace!Goto, Replace!Finish
<1>2. OnlyJob(j)
  <2>1. /\ replaceSaved' \in [Downloads -> Replace!Contents]
        /\ replaceExpected' \in [Downloads -> Replace!Contents]
        /\ \A i \in Downloads \ {j} : replaceSaved'[i] = replaceSaved[i]
    OBVIOUS
  <2>2. /\ replacePc' \in [Downloads -> Replace!Locations]
        /\ replaceResult' \in [Downloads -> {"none", "ok", "skipped", "failed", "activeButFailed",
              "killed"}]
        /\ \A i \in Downloads \ {j} :
              replacePc'[i] = replacePc[i] /\ replaceResult'[i] = replaceResult[i]
    BY DEF Replace!Locations
  <2> QED
    BY <1>1, <2>1, <2>2 DEF OnlyJob, PartBecomes
<1>3. JobOwns(j)'
  BY <1>1 DEF JobOwns
<1>4. \/ UNCHANGED <<replaceBase, replaceSaved, replaceReplaced>>
      \/ replaceReplaced'
      \/ replaceBase = Missing /\ replaceBase' = replaceSaved[j]
           /\ replaceReplaced' = replaceReplaced
  <2>1. CASE Replace!RestoreCheck(j) \/ Replace!Link(j)
    BY <2>1 DEF Replace!history
  <2>2. CASE Replace!RenameBack(j) /\ replaceReplaced' = (replaceReplaced
             \/ replaceBase # Missing)
    BY <2>2
  <2>3. CASE Replace!RenameBack(j) /\ UNCHANGED <<replaceBase, replaceSaved, replaceReplaced>>
    BY <2>3
  <2> QED
    BY <2>1, <2>2, <2>3
<1>5. replaceOverrun' = replaceOverrun /\ replacePc'[j] # "discard" /\ replacePc[j] # "discard"
  BY DEF Replace!history
<1>6. CopyIsSomewhere'
  BY <1>2, <1>4, <1>5 DEF OnlyJob, CopyIsSomewhere, SetAside
<1>7. Replace!BackupKeepsOriginal'
  BY <1>2, <1>4, <1>5 DEF OnlyJob, Replace!BackupKeepsOriginal
<1>8. replaceBase' \in Replace!Contents
        /\ (replacePc'[j] \in {"discard", "restore", "link", "rename"}
        => replaceSaved'[j] # Missing)
  BY <1>2 DEF OnlyJob, JobOwns
<1> QED
  BY <1>2, <1>3, <1>6, <1>7, <1>8 DEF ReplaceKeeps, Replace!history

\* Neither a file that appears nor the end of the process loses a copy.
LEMMA AppearAndKillKeep ==
    ASSUME ReplaceInv, Replace!Appear \/ Replace!Kill
    PROVE  ReplaceInv'
<1> USE DownloadFacts, TransfersAssumption DEF ReplaceInv, Replace!TypeOK, Replace!Appear,
      Replace!Kill, Replace!files, Replace!jobVars, Replace!history, Replace!DownloadAssumption
<1>1. \A j \in Downloads : JobOwns(j)'
  BY DEF JobOwns, Replace!Part
<1>2. CopyIsSomewhere' /\ Replace!BackupKeepsOriginal'
  BY DEF CopyIsSomewhere, SetAside, Replace!BackupKeepsOriginal
<1>3. Replace!TypeOK'
  BY DEF Replace!Locations
<1> QED
  BY <1>1, <1>2, <1>3

\* The original is at the target when the downloads begin.
LEMMA ReplaceStarts ==
    ASSUME Replace!Init
    PROVE  ReplaceInv
<1> USE DownloadFacts, TransfersAssumption DEF Replace!Init, Replace!DownloadAssumption
<1>1. Replace!TypeOK
  <2>1. replaceBase \in Replace!Contents /\ 1 \in 1..DownloadAttempts /\ 0 \in 0..MaxForeign
    OBVIOUS
  <2> QED
    BY <2>1 DEF Replace!TypeOK, Replace!Locations, Replace!Policies, Replace!Attempts
<1>2. \A j \in Downloads : JobOwns(j)
  BY DEF JobOwns
<1>3. CopyIsSomewhere /\ Replace!BackupKeepsOriginal
  BY DEF CopyIsSomewhere, Replace!BackupKeepsOriginal
<1> QED
  BY <1>1, <1>2, <1>3 DEF ReplaceInv

\* Every step of a download keeps the invariant.
LEMMA ReplaceSteps ==
    ASSUME ReplaceInv, [Replace!Next]_(Replace!vars)
    PROVE  ReplaceInv'
<1>1. ASSUME NEW j \in Downloads, Replace!Download(j)
      PROVE  ReplaceInv'
  BY <1>1, PrepareKeeps, ProtectTargetKeeps, HoldKeeps, UndoKeeps, ActivateKeeps, DiscardKeeps,
     RestoreKeeps, ReplaceKept DEF Replace!Download
<1>2. CASE Replace!Appear \/ Replace!Kill
  BY <1>2, AppearAndKillKeep
<1>3. CASE UNCHANGED Replace!vars
  BY <1>3 DEF ReplaceInv, Replace!vars, Replace!files, Replace!jobVars, Replace!history,
     Replace!TypeOK, JobOwns, Replace!Part, CopyIsSomewhere, SetAside, Replace!BackupKeepsOriginal
<1> QED
  BY <1>1, <1>2, <1>3 DEF Replace!Next

\* The invariant says what the suite checks of downloads (local_download_root.go).
LEMMA ReplaceImplies ==
    ASSUME ReplaceInv
    PROVE  Replace!CopySurvives /\ Replace!BackupKeepsOriginal /\ Replace!SuccessIsTrue
  BY DEF ReplaceInv, CopyIsSomewhere, SetAside, JobOwns, Replace!CopySurvives,
     Replace!SuccessIsTrue

(***************************************************************************)
(* Downloads that skip existing files                                      *)
(***************************************************************************)

\* All downloads skip what exists.
AllSkip == \A j \in Downloads : createPolicy[j] = "skip"

\* Nothing is moved out of the way, and only the job whose placeholder is at the target
\* may rename over it.
CreateInv ==
    /\ createPc \in [Downloads -> Create!Locations]
    /\ AllSkip => \A j \in Downloads :
          /\ createPc[j] \notin {"protect", "discard", "restore", "link", "rename"}
          /\ createSaved[j] = Missing
          /\ createPc[j] \in {"activate", "remove"} => createBase = Create!Placeholder(j)

\* A placeholder is no whole file, and each job has its own.
LEMMA PlaceholderFacts ==
    /\ Missing \notin Create!Whole
    /\ \A j \in Downloads :
          /\ Create!Placeholder(j) \notin Create!Whole \cup {Missing}
          /\ \A i \in Downloads : Create!Placeholder(i) = Create!Placeholder(j) => i = j
  BY TransfersAssumption DEF Create!DownloadAssumption, Create!Placeholder, Create!Whole

\* Nothing is at the target when the downloads begin.
LEMMA CreateStarts ==
    ASSUME Create!Init
    PROVE  CreateInv
  BY DEF Create!Init, CreateInv, Create!Locations

\* No step of a job replaces a whole file when all skip.
LEMMA CreateStepsKeep ==
    ASSUME CreateInv, NEW j \in Downloads, Create!Download(j)
    PROVE  CreateInv' /\ Create!SkipReplacesNothingStep
<1> USE DEF CreateInv, Create!Goto, Create!Finish, Create!Locations
<1>1. createPolicy' = createPolicy
  BY DEF Create!Download, Create!Prepare, Create!Get, Create!ValidatePart, Create!Inspect,
     Create!Protect, Create!Hold, Create!Check, Create!Activate, Create!Discard,
     Create!Undo, Create!Remove, Create!RestoreCheck, Create!Link, Create!RenameBack
<1>2. createPc' \in [Downloads -> Create!Locations]
      /\ \A i \in Downloads \ {j} : createPc'[i] = createPc[i]
  BY DEF Create!Download, Create!Prepare, Create!Get, Create!ValidatePart, Create!Inspect,
     Create!Protect, Create!Hold, Create!Check, Create!Activate, Create!Undo, Create!Remove,
     Create!GiveUp, Create!Discard,
     Create!RestoreCheck, Create!Link, Create!RenameBack
<1>3. CASE ~AllSkip
  BY <1>1, <1>2, <1>3 DEF AllSkip, Create!SkipReplacesNothingStep
<1>4. CASE AllSkip
  <2> USE PlaceholderFacts
  <2>1. /\ createSaved' = createSaved
        /\ createPc'[j] \notin {"protect", "discard", "restore", "link", "rename"}
        /\ createPc'[j] \in {"activate", "remove"} => createBase' = createBase
             /\ createBase = Create!Placeholder(j)
    BY <1>4 DEF AllSkip, Create!Download, Create!Prepare, Create!Get, Create!ValidatePart,
       Create!Inspect,
       Create!Protect, Create!Hold, Create!Check, Create!Activate, Create!Undo, Create!Remove,
     Create!GiveUp, Create!Discard,
       Create!RestoreCheck, Create!Link, Create!RenameBack
  <2>2. createBase' = createBase \/ createBase \in {Missing, Create!Placeholder(j)}
    BY <1>4 DEF AllSkip, Create!Download, Create!Prepare, Create!Get, Create!ValidatePart,
       Create!Inspect,
       Create!Protect, Create!Hold, Create!Check, Create!Activate, Create!Undo, Create!Remove,
     Create!GiveUp, Create!Discard,
       Create!RestoreCheck, Create!Link, Create!RenameBack
  <2>3. \A i \in Downloads : createPc'[i] \in {"activate", "remove"}
        => createBase' = Create!Placeholder(i)
    BY <1>2, <1>4, <2>1, <2>2
  <2>4. CreateInv'
    BY <1>1, <1>2, <1>4, <2>1, <2>3
  <2>5. Create!SkipReplacesNothingStep
    BY <2>2 DEF Create!SkipReplacesNothingStep
  <2> QED
    BY <2>4, <2>5
<1> QED
  BY <1>3, <1>4

\* Every step keeps the invariant and replaces nothing that a skip has to leave alone.
LEMMA CreateSteps ==
    ASSUME CreateInv, [Create!Next]_(Create!vars)
    PROVE  CreateInv' /\ Create!SkipReplacesNothingStep
<1>1. CASE Create!Appear \/ Create!Kill
  BY <1>1, PlaceholderFacts DEF CreateInv, AllSkip, Create!Appear, Create!Kill, Create!files,
     Create!jobVars,
     Create!Locations, Create!SkipReplacesNothingStep
<1>2. CASE UNCHANGED Create!vars
  BY <1>2 DEF Create!vars, Create!files, Create!jobVars, CreateInv, AllSkip,
     Create!SkipReplacesNothingStep
<1> QED
  BY <1>1, <1>2, CreateStepsKeep DEF Create!Next

(***************************************************************************)
(* Uploads: the snapshot that is sent                                      *)
(***************************************************************************)

\* Every write puts a new value into a block: the blocks of the file only grow.
FileGrows ==
    /\ sourceFile \in past
    /\ \A b \in Source!Block :
          sourceFile[b] <= writes /\ \A F \in past : F[b] <= sourceFile[b]

\* What has been copied and read again so far.
Copied(b) == copied[b] # Source!None
\* A block is read in order, and never newer than the file.
HasRead ==
    /\ sourcePc \in {"open", "stat"} => block = 1
    /\ \A b \in Source!Block :
          /\ Copied(b) => copied[b] <= sourceFile[b]
          /\ sourcePc = "copy" /\ b < block => Copied(b)
          /\ sourcePc = "again" /\ b < block => again[b] # Source!None
          /\ sourcePc \in {"stat", "again", "compare", "prepared", "verify", "commit"}
               => Copied(b)

\* A content of the past that is between the two reads of every block is what both have
\* read when they agree.
Between(F) ==
    \A b \in Source!Block :
        copied[b] <= F[b] /\ (sourcePc = "compare" \/ b < block => F[b] <= again[b])

\* What the tool has sent is the snapshot as it was copied, or the snapshot shows it.
SendsMoment ==
    /\ sourcePc \in {"again", "compare"} => \E F \in past : Between(F)
    /\ sourcePc \in {"prepared", "verify", "commit"} => copied \in past
    /\ sourcePc = "verify" =>
          \A b \in Source!Block : sent[b] # copied[b] => snapshot[b] # copied[b]
    /\ sourcePc = "commit" \/ committed => sent \in past /\ ~exists
    /\ committed => sourcePc = "done"

\* The inductive invariant of an upload's source.
SourceInv == Source!TypeOK /\ FileGrows /\ HasRead /\ SendsMoment

\* What the blocks and their values are.
LEMMA BlockFacts ==
    /\ Blocks \in Nat /\ 1 \in Source!Block /\ Source!Block \subseteq Nat \ {0}
    /\ Source!Values \subseteq Nat /\ Source!None \in Nat /\ Source!None \notin Source!Values
    /\ 0 \in Source!Values
  BY TransfersAssumption DEF Source!SourceAssumption, Source!Block, Source!Values, Source!None

\* Nothing has been read when an upload begins.
LEMMA SourceStarts ==
    ASSUME Source!Init
    PROVE  SourceInv
<1> USE BlockFacts DEF Source!Init, Source!Empty
<1>1. Source!TypeOK
  BY DEF Source!TypeOK, Source!Locations
<1>2. FileGrows
  BY DEF FileGrows
<1>3. HasRead /\ SendsMoment
  BY DEF HasRead, SendsMoment, Copied
<1> QED
  BY <1>1, <1>2, <1>3 DEF SourceInv

\* A write gives one block a newer value: what was between two reads still is.
LEMMA FileWriteKeeps ==
    ASSUME SourceInv, NEW b \in Source!Block, Source!Write(b)
    PROVE  SourceInv'
<1> USE BlockFacts DEF Source!Write, Source!snapVars
<1>1. /\ writes + 1 \in Source!Values /\ writes \in Nat
           /\ sourceFile \in [Source!Block -> Source!Values]
      /\ \A F \in past : F \in [Source!Block -> Source!Values]
      /\ copied \in [Source!Block -> Source!Values \cup {Source!None}]
  BY TransfersAssumption DEF SourceInv, Source!TypeOK, Source!Values, Source!SourceAssumption
<1>0. \A c \in Source!Block :
         sourceFile[c] \in Nat /\ sourceFile[c] <= writes /\ \A F \in past : F[c] \in Nat
           /\ F[c] <= sourceFile[c]
  BY <1>1 DEF SourceInv, FileGrows
<1>2. /\ sourceFile' \in [Source!Block -> Source!Values]
      /\ \A c \in Source!Block : sourceFile'[c] = IF c = b THEN writes + 1 ELSE sourceFile[c]
  BY <1>1
<1>3. Source!TypeOK'
  BY <1>1, <1>2 DEF SourceInv, Source!TypeOK
<1>4. \A c \in Source!Block : sourceFile[c] <= sourceFile'[c] /\ sourceFile'[c] <= writes'
  BY <1>0, <1>1, <1>2
<1>5. FileGrows'
  <2>1. ASSUME NEW c \in Source!Block, NEW F \in past' PROVE F[c] <= sourceFile'[c]
    <3>1. CASE F \in past
      BY <1>0, <1>1, <1>2, <1>4, <3>1
    <3>2. CASE F = sourceFile'
      <4>1. sourceFile'[c] \in Nat
        BY <1>2
      <4> QED
        BY <3>2, <4>1
    <3> QED
      BY <3>1, <3>2
  <2> QED
    BY <1>4, <2>1 DEF FileGrows
<1>6. HasRead'
  <2>1. ASSUME NEW c \in Source!Block, Copied(c) PROVE copied[c] <= sourceFile'[c]
    <3>1. copied[c] \in Nat /\ copied[c] <= sourceFile[c] /\ sourceFile'[c] \in Nat
      BY <1>1, <1>2, <2>1 DEF SourceInv, HasRead, Copied
    <3> QED
      BY <1>0, <1>4, <3>1
  <2> QED
    BY <2>1 DEF SourceInv, HasRead, Copied
<1>7. SendsMoment'
  BY DEF SourceInv, SendsMoment, Between
<1> QED
  BY <1>3, <1>5, <1>6, <1>7 DEF SourceInv

\* Who changes the snapshot gives it a value the copy does not have.
LEMMA TamperKeeps ==
    ASSUME SourceInv, NEW b \in Source!Block, Source!Tamper(b)
    PROVE  SourceInv'
<1> USE BlockFacts DEF Source!Tamper
<1>1. /\ writes + 1 \in Source!Values /\ writes \in Nat
           /\ sourceFile \in [Source!Block -> Source!Values]
      /\ snapshot \in [Source!Block -> Source!Values \cup {Source!None}]
  BY TransfersAssumption DEF SourceInv, Source!TypeOK, Source!Values, Source!SourceAssumption
<1>2. /\ snapshot' \in [Source!Block -> Source!Values \cup {Source!None}]
      /\ \A c \in Source!Block : snapshot'[c] = IF c = b THEN writes + 1 ELSE snapshot[c]
  BY <1>1
<1>3. Source!TypeOK'
  BY <1>1, <1>2 DEF SourceInv, Source!TypeOK
<1>4. FileGrows'
  <2>1. \A c \in Source!Block : sourceFile[c] \in Nat /\ sourceFile[c] <= writes
    BY <1>1 DEF SourceInv, FileGrows
  <2> QED
    BY <1>1, <2>1 DEF SourceInv, FileGrows
<1>5. HasRead'
  BY DEF SourceInv, HasRead, Copied
<1>6. ASSUME NEW c \in Source!Block, sourcePc = "verify", sent[c] # copied[c]
      PROVE  snapshot'[c] # copied[c]
  <2>1. copied[c] \in Source!Values /\ copied[c] <= sourceFile[c] /\ sourceFile[c] <= writes
    BY <1>6 DEF SourceInv, HasRead, Copied, FileGrows, Source!TypeOK
  <2>2. copied[c] # writes + 1
    <3>1. copied[c] \in Nat /\ sourceFile[c] \in Nat
      BY <1>1, <2>1
    <3> QED
      BY <1>1, <2>1, <3>1
  <2> QED
    BY <1>2, <1>6, <2>2 DEF SourceInv, SendsMoment
<1>7. SendsMoment'
  BY <1>6 DEF SourceInv, SendsMoment, Between
<1> QED
  BY <1>3, <1>4, <1>5, <1>7 DEF SourceInv

\* A step of the upload leaves the file alone.
LEMMA UploadLeavesFile ==
    ASSUME SourceInv, UNCHANGED Source!fileVars, Source!TypeOK', HasRead', SendsMoment'
    PROVE  SourceInv'
  BY DEF SourceInv, Source!fileVars, FileGrows

\* An upload that is given up sends nothing any more.
LEMMA SourceAbandons ==
    ASSUME SourceInv, sourcePc \notin {"commit", "done"}, Source!Abandon
    PROVE  SourceInv'
<1> USE DEF SourceInv, Source!Abandon
<1>1. Source!TypeOK'
  BY DEF Source!TypeOK, Source!fileVars, Source!Locations
<1>2. HasRead'
  BY DEF HasRead, Copied, Source!fileVars
<1>3. SendsMoment'
  BY DEF SendsMoment
<1> QED
  BY <1>1, <1>2, <1>3, UploadLeavesFile

\* Opening begins a copy with no block read.
LEMMA OpenKeeps ==
    ASSUME SourceInv, Source!Open
    PROVE  SourceInv'
<1>1. CASE Source!Abandon
  BY <1>1, SourceAbandons DEF Source!Open
<1>2. CASE sourcePc' = "copy"
  <2> USE <1>2, BlockFacts DEF Source!Open, Source!Abandon, Source!fileVars, SourceInv
  <2>1. Source!TypeOK'
    BY DEF Source!TypeOK, Source!Locations
  <2>2. HasRead'
    BY DEF HasRead, Copied, Source!TypeOK
  <2> QED
    BY <2>1, <2>2, UploadLeavesFile DEF SendsMoment
<1> QED
  BY <1>1, <1>2 DEF Source!Open

\* What a read of one block adds.
LEMMA OneBlock ==
    ASSUME NEW f, NEW S, f \in [Source!Block -> S], NEW g, NEW k \in Source!Block, NEW v \in S,
           g = [f EXCEPT ![k] = v]
    PROVE  g \in [Source!Block -> S] /\ \A c \in Source!Block : g[c] = IF c = k THEN v ELSE f[c]
  OBVIOUS

\* The blocks before the next one are those before this one, and this one.
LEMMA NextBlock ==
    ASSUME NEW b \in Source!Block, NEW k \in Source!Block
    PROVE  /\ k < Blocks => k + 1 \in Source!Block /\ (b < k + 1 => b < k \/ b = k)
           /\ ~(k < Blocks) => b < k \/ b = k
  BY TransfersAssumption DEF Source!SourceAssumption, Source!Block

\* Copying a block reads what is in the file now.
LEMMA CopyKeeps ==
    ASSUME SourceInv, Source!Copy
    PROVE  SourceInv'
<1>1. CASE Source!Abandon
  BY <1>1, SourceAbandons DEF Source!Copy
<1>2. CASE copied' = [copied EXCEPT ![block] = sourceFile[block]]
           /\ sourcePc' \in {"copy", "stat"} /\ ~Source!Abandon
  <2>1. /\ block \in Source!Block /\ sourceFile[block] \in Source!Values
        /\ copied \in [Source!Block -> Source!Values \cup {Source!None}]
        /\ snapshot \in [Source!Block -> Source!Values \cup {Source!None}]
        /\ sourceFile \in [Source!Block -> Source!Values]
    BY DEF SourceInv, Source!TypeOK
  <2>2. /\ copied' \in [Source!Block -> Source!Values \cup {Source!None}]
        /\ \A c \in Source!Block : copied'[c] = IF c = block THEN sourceFile[block] ELSE copied[c]
    BY <1>2, <2>1, OneBlock
  <2>3. snapshot' \in [Source!Block -> Source!Values \cup {Source!None}]
    BY <1>2, <2>1, OneBlock DEF Source!Copy
  <2>4. /\ IF block < Blocks THEN block' = block + 1 /\ sourcePc' = "copy" ELSE block' = 1
             /\ sourcePc' = "stat"
        /\ UNCHANGED Source!fileVars /\ UNCHANGED <<again, sent, opened, exists, committed,
             sourceResult>>
    BY <1>2 DEF Source!Copy
  <2>5. block' \in Source!Block
    BY <2>1, <2>4, NextBlock, BlockFacts
  <2>6. Source!TypeOK'
    BY <2>2, <2>3, <2>4, <2>5 DEF SourceInv, Source!TypeOK, Source!fileVars, Source!Locations
  <2>7. ASSUME NEW c \in Source!Block
        PROVE  /\ Copied(c)' => copied'[c] <= sourceFile[c]
               /\ sourcePc' = "stat" \/ c < block' => Copied(c)'
    <3>1. CASE c = block
      <4>1. copied'[c] = sourceFile[c] /\ sourceFile[c] \in Nat /\ sourceFile[c] # Source!None
        BY <2>1, <2>2, <3>1, BlockFacts
      <4> QED
        BY <4>1 DEF Copied
    <3>2. CASE c # block
      <4>1. copied'[c] = copied[c]
        BY <2>2, <3>2
      <4>2. sourcePc' = "stat" \/ c < block' => c < block
        BY <2>1, <2>4, <3>2, NextBlock
      <4> QED
        BY <4>1, <4>2, <1>2 DEF SourceInv, HasRead, Copied, Source!Copy
    <3> QED
      BY <3>1, <3>2
  <2>8. HasRead'
    BY <2>4, <2>7 DEF HasRead, Source!fileVars
  <2>9. SendsMoment'
    BY <1>2, <2>4 DEF SourceInv, SendsMoment, Source!fileVars, Source!Copy
  <2> QED
    BY <2>4, <2>6, <2>8, <2>9, UploadLeavesFile
<1> QED
  BY <1>1, <1>2 DEF Source!Copy

\* When the second reading begins, the file as it is now is what all that was copied
\* is at most as new as.
LEMMA CheckStampKeeps ==
    ASSUME SourceInv, Source!CheckStamp
    PROVE  SourceInv'
<1>1. CASE Source!Abandon
  BY <1>1, SourceAbandons DEF Source!CheckStamp
<1>2. CASE sourcePc' = "again"
  <2> USE <1>2 DEF Source!CheckStamp, Source!Abandon, Source!fileVars, Source!snapVars, SourceInv
  <2>1. Source!TypeOK'
    BY DEF Source!TypeOK, Source!Locations
  <2>2. HasRead'
    BY BlockFacts DEF HasRead, Copied
  <2>3. Between(sourceFile)'
    BY BlockFacts DEF Between, HasRead, Copied
  <2>4. SendsMoment'
    BY <2>3 DEF SendsMoment, FileGrows
  <2> QED
    BY <2>1, <2>2, <2>4, UploadLeavesFile
<1> QED
  BY <1>1, <1>2 DEF Source!CheckStamp

\* Reading a block again leaves a moment's content between both readings.
LEMMA ReadAgainKeeps ==
    ASSUME SourceInv, Source!ReadAgain
    PROVE  SourceInv'
<1>1. CASE Source!Abandon
  BY <1>1, SourceAbandons DEF Source!ReadAgain
<1>2. CASE sourcePc' \in {"again", "compare"}
  <2>1. /\ block \in Source!Block /\ sourceFile[block] \in Source!Values
        /\ again \in [Source!Block -> Source!Values \cup {Source!None}]
        /\ copied \in [Source!Block -> Source!Values \cup {Source!None}]
    BY DEF SourceInv, Source!TypeOK
  <2>2. /\ again' = [again EXCEPT ![block] = sourceFile[block]]
        /\ IF block < Blocks THEN block' = block + 1 /\ sourcePc' = "again" ELSE block' = 1
             /\ sourcePc' = "compare"
        /\ UNCHANGED Source!fileVars /\ UNCHANGED <<copied, snapshot, sent, opened, exists,
             committed, sourceResult>>
    BY <1>2 DEF Source!ReadAgain, Source!Abandon, Source!snapVars
  <2>3. /\ again' \in [Source!Block -> Source!Values \cup {Source!None}]
        /\ \A c \in Source!Block : again'[c] = IF c = block THEN sourceFile[block] ELSE again[c]
    BY <2>1, <2>2, OneBlock
  <2>4. block' \in Source!Block
    BY <2>1, <2>2, NextBlock, BlockFacts
  <2>5. \A c \in Source!Block : copied[c] # Source!None
    BY DEF Source!ReadAgain, SourceInv, HasRead, Copied
  <2>6. \A c \in Source!Block : sourcePc' = "compare" \/ c < block' => c < block \/ c = block
    BY <2>1, <2>2, NextBlock
  <2>7. \A c \in Source!Block : sourcePc' = "compare" \/ c < block' => again'[c] # Source!None
    BY <2>1, <2>3, <2>6, BlockFacts DEF Source!ReadAgain, SourceInv, HasRead
  <2>8. Source!TypeOK'
    BY <1>2, <2>2, <2>3, <2>4, <2>5, <2>7 DEF SourceInv, Source!TypeOK, Source!fileVars,
       Source!Locations
  <2>9. HasRead'
    BY <1>2, <2>2, <2>5, <2>7 DEF SourceInv, HasRead, Copied, Source!fileVars, Source!ReadAgain
  <2>10. PICK F \in past : Between(F)
    BY DEF SourceInv, SendsMoment, Source!ReadAgain
  <2>11. Between(F)'
    <3> SUFFICES ASSUME NEW c \in Source!Block
                 PROVE  copied[c] <= F[c] /\ (sourcePc' = "compare" \/ c < block'
                        => F[c] <= again'[c])
      BY <2>2 DEF Between
    <3>1. copied[c] <= F[c] /\ (c < block => F[c] <= again[c]) /\ F[c] <= sourceFile[c]
      BY <2>10 DEF Between, SourceInv, FileGrows
    <3> QED
      BY <2>3, <2>6, <3>1
  <2>12. SendsMoment'
    BY <1>2, <2>2, <2>11 DEF SourceInv, SendsMoment, Source!fileVars, Source!ReadAgain
  <2> QED
    BY <2>2, <2>8, <2>9, <2>12, UploadLeavesFile
<1> QED
  BY <1>1, <1>2 DEF Source!ReadAgain

\* What both reads agree on was the content of the file between them.
LEMMA CompareKeeps ==
    ASSUME SourceInv, Source!Compare
    PROVE  SourceInv'
<1>1. CASE Source!Abandon
  BY <1>1, SourceAbandons DEF Source!Compare
<1>2. CASE sourcePc' = "prepared"
  <2> USE <1>2 DEF Source!Compare, Source!Abandon, Source!fileVars, Source!snapVars, SourceInv
  <2>1. PICK F \in past : Between(F)
    BY DEF SendsMoment
  <2>2. F \in [Source!Block -> Source!Values]
          /\ copied \in [Source!Block -> Source!Values \cup {Source!None}]
    BY DEF Source!TypeOK
  <2>3. ASSUME NEW b \in Source!Block PROVE F[b] = copied[b]
    <3>1. F[b] \in Nat /\ copied[b] \in Nat
      BY <2>2, BlockFacts
    <3>2. copied[b] <= F[b] /\ F[b] <= copied[b]
      BY <2>1 DEF Between
    <3> QED
      BY <3>1, <3>2
  <2>4. copied = F
    BY <2>2, <2>3
  <2>5. SendsMoment'
    BY <2>4 DEF SendsMoment
  <2>6. Source!TypeOK'
    BY DEF Source!TypeOK, Source!Locations
  <2>7. HasRead'
    BY DEF HasRead, Copied
  <2> QED
    BY <2>5, <2>6, <2>7, UploadLeavesFile
<1> QED
  BY <1>1, <1>2 DEF Source!Compare

\* What is committed is the copy, or the comparison after sending has refused it.
LEMMA SendVerifyKeep ==
    ASSUME SourceInv, Source!Send \/ Source!Verify \/ Source!Commit
    PROVE  SourceInv'
<1>1. CASE Source!Abandon /\ sourcePc \in {"prepared", "verify"}
  BY <1>1, SourceAbandons
<1>2. CASE \/ Source!Send /\ sourcePc' = "verify"
           \/ Source!Verify /\ sourcePc' = "commit"
           \/ Source!Commit
  <2> USE <1>2 DEF Source!Send, Source!Verify, Source!Commit, Source!Abandon, Source!fileVars,
        Source!snapVars, SourceInv
  <2>1. Source!TypeOK'
    BY DEF Source!TypeOK, Source!Locations
  <2>2. HasRead'
    BY DEF HasRead, Copied
  <2>3. Source!Verify => sent = copied
    BY DEF SendsMoment, Source!TypeOK
  <2>4. SendsMoment'
    <3>1. CASE Source!Send /\ sourcePc' = "verify"
      BY <3>1 DEF SendsMoment
    <3>2. CASE Source!Verify /\ sourcePc' = "commit"
      BY <2>3, <3>2 DEF SendsMoment
    <3>3. CASE Source!Commit
      BY <3>3 DEF SendsMoment
    <3> QED
      BY <3>1, <3>2, <3>3
  <2> QED
    BY <2>1, <2>2, <2>4, UploadLeavesFile
<1>3. CASE Source!Send
  BY <1>1, <1>2, <1>3 DEF Source!Send
<1>4. CASE Source!Verify
  BY <1>1, <1>2, <1>4 DEF Source!Verify
<1> QED
  BY <1>2, <1>3, <1>4

\* Every step of the upload and of who writes to its file keeps the invariant.
LEMMA SourceSteps ==
    ASSUME SourceInv, [Source!Next]_(Source!vars)
    PROVE  SourceInv'
<1>1. CASE UNCHANGED Source!vars
  BY <1>1 DEF Source!vars, Source!fileVars, Source!snapVars, SourceInv, Source!TypeOK, FileGrows,
     HasRead, Copied, SendsMoment, Between
<1>2. CASE Source!Next
  BY <1>2, FileWriteKeeps, TamperKeeps, OpenKeeps, CopyKeeps, CheckStampKeeps, ReadAgainKeeps,
     CompareKeeps, SendVerifyKeep DEF Source!Next
<1> QED
  BY <1>1, <1>2

\* The invariant says what the suite checks of a source (upload_source_snapshot.go).
LEMMA SourceImplies ==
    ASSUME SourceInv
    PROVE  Source!SentIsOneMoment /\ Source!SnapshotIsRemoved
  BY DEF SourceInv, SendsMoment, Source!SentIsOneMoment, Source!SnapshotIsRemoved

(***************************************************************************)
(* Deleting a tree                                                         *)
(***************************************************************************)

\* A directory being deleted, and what of it is still to do.
Frames == [node : Nodes, todo : SUBSET Nodes]

\* Every node but the two roots is in a directory.
TreeShape ==
    /\ kind \in [Nodes -> {"file", "dir", "link"}] /\ parent \in [Nodes -> Nodes]
    /\ parent[top] = top /\ parent[outside] = outside
    /\ \A n \in Nodes \ {top, outside} : kind[parent[n]] = "dir"

\* What exists is in a directory that exists.
AliveUp == alive \subseteq Nodes /\ \A n \in alive \ {top, outside} : parent[n] \in alive

\* The directories being deleted are inside, and only their own entries are to go.
StackInside(st) ==
    /\ st \in Seq(Frames)
    /\ st # <<>> => st[1].node = top
    /\ \A i \in 1..Len(st) :
          /\ st[i].node # outside /\ parent[st[i].node] # outside
          /\ \A c \in st[i].todo : c \notin {top, outside} /\ parent[c] = st[i].node

\* The inductive invariant of a deletion.
DeleteInv == TreeShape /\ AliveUp /\ StackInside(stack) /\ Delete!NothingOutside

\* What is picked is not what lies outside.
LEMMA DeleteFacts == top \in Nodes /\ outside \in Nodes /\ top # outside
  BY TransfersAssumption DEF Delete!DeleteAssumption

\* Nothing is deleted yet when a deletion begins.
LEMMA DeleteStarts ==
    ASSUME Delete!Init
    PROVE  DeleteInv
<1> USE DeleteFacts DEF Delete!Init
<1>1. TreeShape
  BY DEF TreeShape
<1> QED
  BY <1>1 DEF DeleteInv, AliveUp, StackInside, Delete!NothingOutside

\* A node inside that is no directory, or an empty one, may go.
LEMMA RemovalKeeps ==
    ASSUME DeleteInv, NEW n \in Nodes, n # outside, parent[n] # outside,
           UNCHANGED Delete!tree, alive' = alive \ {n},
           kind[n] # "dir" \/ Delete!Children(n, alive) = {}
    PROVE  TreeShape' /\ AliveUp' /\ Delete!NothingOutside'
  BY DeleteFacts DEF DeleteInv, TreeShape, AliveUp, Delete!tree, Delete!Children,
     Delete!NothingOutside

\* What is left of a stack that is inside is inside.
LEMMA PopIsInside ==
    ASSUME NEW st, StackInside(st), st # <<>>
    PROVE  StackInside(SubSeq(st, 1, Len(st) - 1))
<1>1. Len(st) \in Nat \ {0} /\ st \in Seq(Frames)
  BY DEF StackInside
<1>2. SubSeq(st, 1, Len(st) - 1) \in Seq(Frames) /\ Len(SubSeq(st, 1, Len(st) - 1)) = Len(st) - 1
  <2>1. \A i \in 1..(Len(st) - 1) : st[i] \in Frames
    BY <1>1
  <2>2. /\ SubSeq(st, 1, Len(st) - 1) \in Seq(Frames)
        /\ Len(SubSeq(st, 1, Len(st) - 1)) =
              IF 1 <= Len(st) - 1 THEN Len(st) - 1 - 1 + 1 ELSE 0
    BY ONLY <1>1, <2>1, SubSeqProperties
  <2>3. \A k \in Nat \ {0} : (IF 1 <= k - 1 THEN k - 1 - 1 + 1 ELSE 0) = k - 1
    OBVIOUS
  <2> QED
    BY <1>1, <2>2, <2>3
<1>3. \A i \in 1..(Len(st) - 1) : SubSeq(st, 1, Len(st) - 1)[i] = st[i]
  BY <1>1
<1>4. SubSeq(st, 1, Len(st) - 1) # <<>> => SubSeq(st, 1, Len(st) - 1)[1] = st[1]
  BY <1>1, <1>2, <1>3
<1> QED
  BY <1>1, <1>2, <1>3, <1>4 DEF StackInside

\* Taking the next entry leaves fewer of them.
LEMMA TakeIsInside ==
    ASSUME NEW st, StackInside(st), st # <<>>, NEW c, c \in st[Len(st)].todo
    PROVE  StackInside([st EXCEPT ![Len(st)].todo = @ \ {c}])
<1> DEFINE rest == [st EXCEPT ![Len(st)].todo = @ \ {c}]
<1>1. Len(st) \in Nat \ {0} /\ st[Len(st)] \in Frames /\ st \in Seq(Frames)
  BY DEF StackInside
<1>2. [st[Len(st)] EXCEPT !.todo = @ \ {c}] \in Frames
  BY <1>1 DEF Frames
<1>3. rest = [st EXCEPT ![Len(st)] = [st[Len(st)] EXCEPT !.todo = @ \ {c}]]
  OBVIOUS
<1>4. rest \in Seq(Frames) /\ Len(rest) = Len(st)
  BY <1>1, <1>2, <1>3
<1>5. \A i \in 1..Len(st) : rest[i].node = st[i].node /\ rest[i].todo \subseteq st[i].todo
  BY <1>1, <1>3 DEF Frames
<1> HIDE DEF rest
<1>6. StackInside(rest)
  BY <1>1, <1>4, <1>5 DEF StackInside
<1> QED
  BY <1>6 DEF rest

\* A directory found inside is inside, and so are its entries.
LEMMA PushIsInside ==
    ASSUME NEW st, StackInside(st), NEW n \in Nodes, n # outside, parent[n] # outside,
           st = <<>> => n = top, alive \subseteq Nodes, NEW S \in SUBSET Delete!Children(n, alive)
    PROVE  StackInside(Append(st, [node |-> n, todo |-> S]))
<1> DEFINE new == Append(st, [node |-> n, todo |-> S])
<1>1. S \subseteq Nodes /\ \A c \in S : c \notin {top, outside} /\ parent[c] = n
  BY DEF Delete!Children
<1>2. [node |-> n, todo |-> S] \in Frames
  BY <1>1 DEF Frames
<1>3. new \in Seq(Frames) /\ Len(new) = Len(st) + 1 /\ new # <<>> /\ Len(st) \in Nat
      /\ new[Len(st) + 1] = [node |-> n, todo |-> S] /\ \A i \in 1..Len(st) : new[i] = st[i]
  BY <1>2 DEF StackInside
<1> HIDE DEF new
<1>4. new[1].node = top
  BY <1>3 DEF StackInside
<1>5. \A i \in 1..Len(new) : i \in 1..Len(st) \/ i = Len(st) + 1
  BY <1>3
<1>6. StackInside(new)
  BY <1>1, <1>3, <1>4, <1>5 DEF StackInside
<1> QED
  BY <1>6 DEF new

\* What a step has to keep when it leaves the shape of the tree alone.
LEMMA InsideStays ==
    ASSUME NEW st, StackInside(st), UNCHANGED parent, stack' = st
    PROVE  StackInside(stack)'
  BY DEF StackInside

\* Deleting an entry that is inside keeps the deletion inside.
LEMMA DeleteKeeps ==
    ASSUME DeleteInv, NEW st, StackInside(st), NEW n \in Nodes, n # outside, parent[n] # outside,
           st = <<>> => n = top, Delete!Delete(n, st), UNCHANGED Delete!tree
    PROVE  DeleteInv'
<1> USE DEF DeleteInv, Delete!Delete, Delete!tree
<1>1. CASE UNCHANGED <<alive, stack>>
  BY <1>1 DEF TreeShape, AliveUp, StackInside, Delete!NothingOutside
<1>2. CASE alive' = alive \ {n} /\ ~Delete!Enters(n) /\ stack' = st
  BY <1>2, RemovalKeeps, InsideStays DEF Delete!Enters
<1>3. ASSUME NEW how, Delete!Enters(n), UNCHANGED alive,
             stack' = Append(st, [node |-> n, todo |-> Delete!Shown(n, how)])
      PROVE  DeleteInv'
  <2>1. Delete!Shown(n, how) \subseteq Delete!Children(n, alive)
    BY <1>3 DEF Delete!Enters, Delete!Shown
  <2>2. StackInside(stack')
    BY <1>3, <2>1, PushIsInside DEF AliveUp
  <2>3. StackInside(stack)'
    BY <2>2 DEF StackInside
  <2> QED
    BY <1>3, <2>3 DEF TreeShape, AliveUp, Delete!NothingOutside
<1> QED
  BY <1>1, <1>2, <1>3 DEF Delete!Fail

\* Every step keeps the invariant, and the one that reports success has left nothing.
LEMMA DeleteSteps ==
    ASSUME DeleteInv, [Delete!Next]_(Delete!vars)
    PROVE  DeleteInv' /\ Delete!SuccessMeansGoneStep
<1> USE DeleteFacts DEF DeleteInv
<1>1. CASE Delete!Begin
  <2>1. parent[top] # outside /\ StackInside(<<>>)
    BY DEF TreeShape, StackInside
  <2>2. DeleteInv'
    BY <1>1, <2>1, DeleteKeeps DEF Delete!Begin
  <2>3. ASSUME deleteResult = "none", deleteResult' = "ok", NEW n \in Nodes,
               top \in {n, parent[n], parent[parent[n]]}
        PROVE  n \notin alive'
    <3>1. kind[top] # "dir" /\ alive' = alive \ {top} /\ UNCHANGED parent
      BY <1>1, <2>3 DEF Delete!Begin, Delete!Delete, Delete!Enters, Delete!Fail, Delete!tree
    <3>2. n = top
      BY <2>3, <3>1 DEF TreeShape
    <3> QED
      BY <3>1, <3>2
  <2> QED
    BY <2>2, <2>3 DEF Delete!SuccessMeansGoneStep
<1>2. ASSUME NEW c \in Nodes, Delete!NextChild(c)
      PROVE  DeleteInv' /\ Delete!SuccessMeansGoneStep
  <2> DEFINE st == [stack EXCEPT ![Len(stack)].todo = @ \ {c}]
  <2>1. stack # <<>> /\ c \in stack[Len(stack)].todo /\ Delete!Delete(c, st)
          /\ UNCHANGED Delete!tree
        /\ deleteResult = "none"
    BY <1>2 DEF Delete!NextChild, Delete!Last, Delete!Depth
  <2>2. StackInside(st) /\ c # outside /\ parent[c] # outside /\ Len(stack) \in Nat \ {0}
    <3>1. StackInside(st)
      BY ONLY <2>1, DeleteInv, TakeIsInside DEF DeleteInv
    <3>2. Len(stack) \in Nat \ {0} /\ Len(stack) \in 1..Len(stack)
      BY ONLY <2>1, DeleteInv DEF DeleteInv, StackInside
    <3>3. c # outside /\ parent[c] = stack[Len(stack)].node /\ stack[Len(stack)].node # outside
      BY ONLY <2>1, <3>2, DeleteInv DEF DeleteInv, StackInside
    <3> QED
      BY ONLY <3>1, <3>2, <3>3
  <2>3. st # <<>>
    BY <2>1, <2>2 DEF StackInside
  <2> HIDE DEF st
  <2>4. DeleteInv'
    BY <2>1, <2>2, <2>3, DeleteKeeps
  <2>5. deleteResult' # "ok"
    BY <2>1, <2>3 DEF Delete!Delete, Delete!Fail
  <2> QED
    BY <2>4, <2>5 DEF Delete!SuccessMeansGoneStep
<1>3. CASE Delete!RemoveDirectory
  <2> DEFINE n == stack[Len(stack)].node
  <2>1. stack # <<>> /\ n \in Nodes /\ n # outside /\ parent[n] # outside
    <3>1. stack # <<>> /\ stack \in Seq(Frames)
      BY <1>3 DEF Delete!RemoveDirectory, StackInside
    <3>2. Len(stack) \in 1..Len(stack) /\ stack[Len(stack)] \in Frames
      BY ONLY <3>1
    <3>3. n \in Nodes
      BY ONLY <3>2 DEF Frames
    <3>4. n # outside /\ parent[n] # outside
      BY <3>2 DEF StackInside
    <3> QED
      BY <3>1, <3>3, <3>4
  <2>2. CASE Delete!Fail
    BY <1>3, <2>2 DEF Delete!RemoveDirectory, Delete!Fail, Delete!tree, TreeShape, AliveUp,
       StackInside,
       Delete!NothingOutside, Delete!SuccessMeansGoneStep
  <2>3. CASE ~Delete!Fail
    <3>1. Delete!Children(n, alive) = {} /\ alive' = alive \ {n} /\ UNCHANGED Delete!tree
          /\ stack' = SubSeq(stack, 1, Len(stack) - 1)
          /\ (deleteResult' = "ok" => Len(stack) = 1)
      BY <1>3, <2>3 DEF Delete!RemoveDirectory, Delete!Return, Delete!Last, Delete!Depth
    <3>2. StackInside(stack)'
      BY <2>1, <3>1, PopIsInside, InsideStays DEF Delete!tree
    <3>3. DeleteInv'
      BY <2>1, <3>1, <3>2, RemovalKeeps
    <3>4. ASSUME deleteResult' = "ok", NEW m \in Nodes, top \in {m, parent[m], parent[parent[m]]}
          PROVE  m \notin alive'
      <4>1. n = top
        BY <2>1, <3>1, <3>4 DEF StackInside
      <4> QED
        BY <3>1, <3>4, <4>1 DEF Delete!Children, AliveUp, TreeShape
    <3> QED
      BY <3>3, <3>4 DEF Delete!SuccessMeansGoneStep
  <2> QED
    BY <2>2, <2>3
<1>4. ASSUME NEW n \in Nodes, Delete!Other(n)
      PROVE  DeleteInv' /\ Delete!SuccessMeansGoneStep
  <2>1. UNCHANGED <<kind, parent, stack, deleteResult>> /\ n # outside /\ parent[n] # outside
    BY <1>4 DEF Delete!Other, Delete!tree
  <2>2. AliveUp' /\ Delete!NothingOutside'
    BY <1>4, <2>1 DEF Delete!Other, AliveUp, TreeShape, Delete!NothingOutside
  <2> QED
    BY <2>1, <2>2 DEF TreeShape, StackInside, Delete!SuccessMeansGoneStep
<1>5. CASE UNCHANGED Delete!vars
  BY <1>5 DEF Delete!vars, Delete!tree, TreeShape, AliveUp, StackInside, Delete!NothingOutside,
     Delete!SuccessMeansGoneStep
<1> QED
  BY <1>1, <1>2, <1>3, <1>4, <1>5 DEF Delete!Next

(***************************************************************************)
(* Trees: folders, queue places and links                                  *)
(***************************************************************************)

\* An instance's view of the standard module is the module's own.
LEMMA SameCardinality == \A S : Tree!Cardinality(S) = Cardinality(S)
  BY DEF Tree!Cardinality, Cardinality

\* So is its view of finiteness.
LEMMA SameFinite == \A S : Tree!IsFiniteSet(S) = IsFiniteSet(S)
  BY DEF Tree!IsFiniteSet, IsFiniteSet

\* The constants of a tree.
LEMMA TreeFacts ==
    /\ IsFiniteSet(TreeNodes) /\ TreeRoot \in TreeNodes
    /\ TreeParent \in [TreeNodes \ {TreeRoot} -> TreeNodes]
    /\ TreeDepth \in Nat /\ TreeItems \in Nat /\ Capacity \in Nat /\ TreeOthers \in Nat
<1>1. Tree!TreeAssumption
  BY TransfersAssumption
<1> QED
  BY <1>1, SameFinite DEF Tree!TreeAssumption

\* The directories of the local disk are numbers, and the one outside is none of them.
LEMMA ObjectFacts ==
    /\ Cardinality(TreeNodes) \in Nat /\ 0 \in Tree!Objects /\ Tree!Objects \subseteq Nat
    /\ Tree!Outside \in Nat /\ Tree!Outside \notin Tree!Objects
    /\ Tree!Objects \cup {Tree!Outside} \subseteq 0..Tree!Outside
<1>1. Cardinality(TreeNodes) \in Nat /\ TreeOthers \in Nat
  BY TreeFacts, FS_CardinalityType
<1> QED
  BY <1>1, SameCardinality DEF Tree!Objects, Tree!Outside

\* The walk comes below a directory it has come to, and to nothing else but Root.
LEMMA WalkComesUp ==
    ASSUME NEW src, NEW n \in Tree!Within(src), n # TreeRoot
    PROVE  TreeParent[n] \in Tree!Within(src) /\ src[TreeParent[n]] = "dir"
<1> DEFINE Closed(S) == TreeRoot \in S /\ \A m \in TreeNodes \ {TreeRoot} :
                           TreeParent[m] \in S /\ src[TreeParent[m]] = "dir" => m \in S
           W == Tree!Within(src)
           Rest == {m \in W : m = TreeRoot \/ (TreeParent[m] \in W /\ src[TreeParent[m]] = "dir")}
<1>1. W = {m \in TreeNodes : \A S \in SUBSET TreeNodes : Closed(S) => m \in S}
  BY DEF Tree!Within
<1>2. TreeRoot \in W
  BY <1>1, TreeFacts
<1>3. \A m \in TreeNodes \ {TreeRoot} : TreeParent[m] \in W /\ src[TreeParent[m]] = "dir"
        => m \in W
  BY <1>1
<1>4. Closed(Rest) /\ Rest \in SUBSET TreeNodes
  BY <1>1, <1>2, <1>3
<1>5. n \in Rest
  BY <1>1, <1>4
<1> QED
  BY <1>5

\* The places for the files are held.
HasPlaces == treePc \in {"check", "mkdir", "verify", "open"}

\* The plan is what the walk found, and dirs has all its directories.
PlanInv ==
    /\ source[TreeRoot] = "dir" /\ dirs \in Seq(TreeNodes)
    /\ files \subseteq TreeNodes /\ IsFiniteSet(files)
    /\ files = {} \/ treePc \in {"reserve", "done"} \/ HasPlaces
    /\ files # {} =>
          /\ files = Tree!FilesFound
          /\ \A n \in Tree!DirsFound : \E i \in 1..Len(dirs) : dirs[i] = n

\* Every directory before the one being prepared is known.
KnownInv ==
    /\ at \in Nat \ {0} /\ Len(dirs) \in Nat
    /\ HasPlaces => \A i \in 1..Len(dirs) : i < at => dirs[i] \in treeKnown

\* Places are held from the reservation on, one for each file.
QueueInv ==
    /\ held \in Nat /\ free \in Nat /\ plain \in Nat
    /\ picked \in Nat /\ queued \subseteq files /\ (treePc = "files" => plain = 0)
    /\ HasPlaces => held = Cardinality(files)
    /\ ~HasPlaces => held = 0
    /\ treePc \in {"files", "plan", "reserve", "done"} \/ HasPlaces
    /\ queued # {} => treePc = "done" /\ queued = files
         /\ \A i \in 1..Len(dirs) : dirs[i] \in treeKnown
    /\ free + held + plain + Cardinality(queued) = Capacity

\* Directories made or opened here are none that a link leads to.
ObjectsInv ==
    /\ entries \in [Tree!Objects \cup {Tree!Outside} -> [TreeNodes -> Tree!Entry]]
    /\ \A o \in Tree!Objects, n \in TreeNodes :
          entries[o][n].kind = "dir" => entries[o][n].object \in Tree!Objects
    /\ handle \in [TreeNodes -> Tree!Objects]
    /\ Tree!OutsideUntouched

\* The inductive invariant of a tree's transfer.
TreeInv == PlanInv /\ KnownInv /\ QueueInv /\ ObjectsInv

\* Nothing is planned, held or made when a transfer begins.
LEMMA TreeStarts ==
    ASSUME Tree!Init
    PROVE  TreeInv
<1> USE DEF Tree!Init, HasPlaces
<1>1. PlanInv
  BY FS_EmptySet DEF PlanInv
<1>2. KnownInv
  BY DEF KnownInv
<1>3. QueueInv
  <2>1. Cardinality({}) = 0
    BY FS_EmptySet
  <2> QED
    BY <2>1, TreeFacts DEF QueueInv
<1>4. ObjectsInv
  BY ObjectFacts DEF ObjectsInv, Tree!Nothing, Tree!Entry, Tree!Kinds, Tree!OutsideUntouched
<1> QED
  BY <1>1, <1>2, <1>3, <1>4 DEF TreeInv

\* The invariant says what the suite checks of trees (tree_transfer.go).
LEMMA TreeImplies ==
    ASSUME TreeInv
    PROVE  Tree!PlacesKept /\ Tree!FoldersFirst /\ Tree!AllOrNothing /\ Tree!OutsideUntouched
<1>1. Tree!PlacesKept
  <2>1. QueueInv
    BY DEF TreeInv
  <2>2. free + held + plain + Cardinality(queued) = Capacity
    BY <2>1 DEF QueueInv
  <2>3. treePc = "done" => held = 0
    BY <2>1 DEF QueueInv, HasPlaces
  <2> QED
    BY <2>2, <2>3, SameCardinality DEF Tree!PlacesKept
<1>2. Tree!AllOrNothing
  BY DEF TreeInv, PlanInv, QueueInv, Tree!AllOrNothing, Tree!FilesFound, Tree!Found
<1>3. Tree!FoldersFirst
  <2> SUFFICES ASSUME NEW n \in queued
               PROVE  n # TreeRoot /\ TreeParent[n] \in treeKnown
    BY DEF Tree!FoldersFirst
  <2>1. n \in Tree!FilesFound /\ source[TreeRoot] = "dir"
    BY DEF TreeInv, PlanInv, QueueInv
  <2>2. n \in Tree!Within(source) /\ n # TreeRoot
    BY <2>1 DEF Tree!FilesFound, Tree!Found
  <2>3. TreeParent[n] \in Tree!DirsFound
    BY <2>2, WalkComesUp DEF Tree!DirsFound, Tree!Found
  <2> QED
    BY <2>2, <2>3 DEF TreeInv, PlanInv, QueueInv
<1> QED
  BY <1>1, <1>2, <1>3 DEF TreeInv, ObjectsInv

\* A step that is about the remote or the local side only leaves the queue alone.
LEMMA QueueStays ==
    ASSUME TreeInv, UNCHANGED <<source, picked, dirs, files, held, queued, free, plain>>,
           HasPlaces, HasPlaces'
    PROVE  PlanInv' /\ QueueInv'
<1>1. queued = {}
  BY DEF TreeInv, QueueInv, HasPlaces
<1>2. PlanInv'
  BY DEF TreeInv, PlanInv, Tree!FilesFound, Tree!DirsFound, Tree!Found
<1>3. QueueInv'
  BY <1>1 DEF TreeInv, QueueInv, HasPlaces
<1> QED
  BY <1>2, <1>3

\* A step that makes and opens no directory leaves them.
LEMMA ObjectsStay ==
    ASSUME TreeInv, UNCHANGED <<entries, handle>>
    PROVE  ObjectsInv'
  BY DEF TreeInv, ObjectsInv, Tree!OutsideUntouched

\* A transfer that fails gives its places back.
LEMMA TreeFailKeeps ==
    ASSUME TreeInv, Tree!Fail, treePc # "done"
    PROVE  TreeInv' /\ queued' = queued
<1> USE DEF Tree!Fail, Tree!Leave, Tree!plan, Tree!target
<1>1. queued = {} /\ ~HasPlaces' /\ queued' = queued /\ treePc' = "done"
  BY DEF TreeInv, QueueInv, HasPlaces
<1>2. PlanInv'
  BY <1>1 DEF TreeInv, PlanInv, Tree!FilesFound, Tree!DirsFound, Tree!Found
<1>3. QueueInv'
  <2>1. /\ held \in Nat /\ free \in Nat /\ plain \in Nat /\ Cardinality(queued) \in Nat
        /\ free + held + plain + Cardinality(queued) = Capacity
    BY <1>1, FS_EmptySet DEF TreeInv, QueueInv
  <2>2. free' + held' + plain' + Cardinality(queued') = Capacity /\ free' \in Nat
    BY <1>1, <2>1
  <2> QED
    BY <1>1, <2>2 DEF TreeInv, QueueInv
<1>4. KnownInv'
  BY <1>1 DEF TreeInv, KnownInv
<1> QED
  BY <1>1, <1>2, <1>3, <1>4, ObjectsStay DEF TreeInv

\* The plan is made before any place is held.
LEMMA TreePlanKeeps ==
    ASSUME TreeInv, Tree!Plan
    PROVE  TreeInv'
<1>1. /\ treePc = "plan" /\ treePc' = "reserve" /\ dirs' \in Tree!Walks
           /\ files' = Tree!FilesFound
      /\ UNCHANGED <<source, picked, at, treeKnown, held, queued, free, plain, entries, handle>>
  BY DEF Tree!Plan, Tree!plan, Tree!queue, Tree!target
<1>2. files = {} /\ queued = {} /\ ~HasPlaces /\ ~HasPlaces'
  BY <1>1 DEF TreeInv, PlanInv, QueueInv, HasPlaces
<1>3. /\ Tree!DirsFound' = Tree!DirsFound /\ Tree!FilesFound' = Tree!FilesFound
      /\ Tree!DirsFound \subseteq TreeNodes /\ Tree!FilesFound \subseteq TreeNodes
  BY <1>1 DEF Tree!DirsFound, Tree!FilesFound, Tree!Found, Tree!Within
<1>4. IsFiniteSet(Tree!FilesFound) /\ Cardinality(Tree!DirsFound) \in Nat
  BY <1>3, TreeFacts, FS_Subset, FS_CardinalityType
<1>5. /\ dirs' \in Seq(Tree!DirsFound) /\ Len(dirs') = Cardinality(Tree!DirsFound)
      /\ \A n \in Tree!DirsFound : \E i \in 1..Len(dirs') : dirs'[i] = n
  <2>1. /\ dirs' \in [1..Cardinality(Tree!DirsFound) -> Tree!DirsFound]
        /\ \A n \in Tree!DirsFound : \E i \in DOMAIN dirs' : dirs'[i] = n
    BY <1>1, SameCardinality DEF Tree!Walks
  <2>2. Len(dirs') = Cardinality(Tree!DirsFound) /\ dirs' \in Seq(Tree!DirsFound)
    BY <1>4, <2>1
  <2> QED
    BY <2>1, <2>2
<1>6. PlanInv'
  BY <1>1, <1>3, <1>4, <1>5 DEF TreeInv, PlanInv
<1>7. KnownInv'
  BY <1>1, <1>2, <1>4, <1>5 DEF TreeInv, KnownInv
<1>8. QueueInv'
  BY <1>1, <1>2 DEF TreeInv, QueueInv
<1> QED
  BY <1>1, <1>6, <1>7, <1>8, ObjectsStay DEF TreeInv

\* Reserving takes a place for every file, or none.
LEMMA TreeReserveKeeps ==
    ASSUME TreeInv, Tree!Reserve
    PROVE  TreeInv'
<1>1. /\ treePc = "reserve" /\ treePc' = "check" /\ at' = 1
      /\ held' = Cardinality(files) /\ free' = free - Cardinality(files)
      /\ files # {} => Cardinality(files) <= free
      /\ UNCHANGED <<source, picked, dirs, files, treeKnown, queued, plain, entries, handle>>
  BY SameCardinality DEF Tree!Reserve, Tree!plan, Tree!target
<1>2. queued = {} /\ ~HasPlaces /\ HasPlaces'
  BY <1>1 DEF TreeInv, QueueInv, HasPlaces
<1>3. PlanInv'
  BY <1>1, <1>2 DEF TreeInv, PlanInv, Tree!FilesFound, Tree!DirsFound, Tree!Found
<1>4. KnownInv'
  BY <1>1 DEF TreeInv, KnownInv
<1>5. QueueInv'
  <2>1. Cardinality(files) \in Nat /\ Cardinality(queued) = 0 /\ Cardinality({}) = 0
    BY <1>2, FS_CardinalityType, FS_EmptySet DEF TreeInv, PlanInv
  <2>2. held = 0 /\ free \in Nat /\ plain \in Nat
          /\ free + held + plain + Cardinality(queued) = Capacity
    BY <1>2 DEF TreeInv, QueueInv
  <2>3. Cardinality(files) <= free
    BY <1>1, <2>1, <2>2
  <2>4. free' \in Nat /\ held' \in Nat /\ free' + held' + plain' + Cardinality(queued') = Capacity
    BY <1>1, <2>1, <2>2, <2>3
  <2> QED
    BY <1>1, <1>2, <2>4 DEF TreeInv, QueueInv
<1> QED
  BY <1>1, <1>3, <1>4, <1>5, ObjectsStay DEF TreeInv

\* The files are queued as a whole, on the connection the walk was begun with.
LEMMA TreeCommitKeeps ==
    ASSUME TreeInv, Tree!Commit
    PROVE  TreeInv' /\ Tree!SameConnectionStep
<1>1. /\ treePc = "check" /\ treePc' = "done" /\ at > Len(dirs) /\ queued' = files /\ held' = 0
      /\ files # {} => begun = gen
      /\ UNCHANGED <<source, picked, dirs, files, at, treeKnown, free, plain, entries, handle>>
  BY DEF Tree!Commit, Tree!Commits, Tree!plan, Tree!target
<1>2. queued = {} /\ HasPlaces /\ ~HasPlaces'
  BY <1>1 DEF TreeInv, QueueInv, HasPlaces
<1>3. PlanInv'
  BY <1>1, <1>2 DEF TreeInv, PlanInv, Tree!FilesFound, Tree!DirsFound, Tree!Found
<1>4. KnownInv'
  BY <1>1, <1>2 DEF TreeInv, KnownInv
<1>5. QueueInv'
  <2>1. Cardinality(files) \in Nat /\ Cardinality(queued) = 0
    BY <1>2, FS_CardinalityType, FS_EmptySet DEF TreeInv, PlanInv
  <2>2. /\ held = Cardinality(files) /\ free \in Nat /\ plain \in Nat
        /\ free + held + plain + Cardinality(queued) = Capacity
    BY <1>2 DEF TreeInv, QueueInv
  <2>3. free' + held' + plain' + Cardinality(queued') = Capacity
    BY <1>1, <2>1, <2>2
  <2>4. \A i \in 1..Len(dirs) : dirs[i] \in treeKnown
    BY <1>1, <1>2 DEF TreeInv, KnownInv
  <2> QED
    BY <1>1, <1>2, <2>2, <2>3, <2>4 DEF TreeInv, QueueInv
<1> QED
  BY <1>1, <1>2, <1>3, <1>4, <1>5, ObjectsStay DEF TreeInv, Tree!SameConnectionStep

\* The directory being prepared is known before the next one is.
LEMMA AdvanceKeeps ==
    ASSUME TreeInv, Tree!Advance, HasPlaces, UNCHANGED dirs
    PROVE  KnownInv' /\ HasPlaces'
  BY DEF TreeInv, KnownInv, HasPlaces, Tree!Advance, Tree!Dir

\* A step that prepares no directory leaves what is known.
LEMMA KnownStays ==
    ASSUME TreeInv, UNCHANGED <<dirs, at, treeKnown>>, HasPlaces
    PROVE  KnownInv'
  BY DEF TreeInv, KnownInv

\* A directory of its own object in the folder of an object that is not outside.
LEMMA EntryKeeps ==
    ASSUME TreeInv, NEW o \in Tree!Objects, NEW n \in TreeNodes, NEW e \in Tree!Entry,
           e.kind = "dir" => e.object \in Tree!Objects,
           entries' = [entries EXCEPT ![o][n] = e], UNCHANGED handle
    PROVE  ObjectsInv'
<1>1. entries' \in [Tree!Objects \cup {Tree!Outside} -> [TreeNodes -> Tree!Entry]]
  BY DEF TreeInv, ObjectsInv
<1>2. Tree!OutsideUntouched'
  BY ObjectFacts DEF TreeInv, ObjectsInv, Tree!OutsideUntouched
<1>3. \A p \in Tree!Objects, m \in TreeNodes :
          entries'[p][m].kind = "dir" => entries'[p][m].object \in Tree!Objects
  BY DEF TreeInv, ObjectsInv
<1> QED
  BY <1>1, <1>2, <1>3 DEF TreeInv, ObjectsInv

\* A new directory is one of the disk's.
LEMMA FreshIsObject ==
    ASSUME Tree!Unused # {}
    PROVE  Tree!Fresh \in Tree!Objects
  BY DEF Tree!Fresh, Tree!Unused

\* A directory is made in the one that was opened above it.
LEMMA LocalMkdirKeeps ==
    ASSUME TreeInv, Tree!LocalMkdir
    PROVE  TreeInv'
<1>1. /\ treePc = "check" /\ treePc' = "open" /\ at <= Len(dirs) /\ Tree!Unused # {}
      /\ entries' = Tree!MadeAt(Tree!Above)
      /\ UNCHANGED <<source, picked, dirs, files, at, treeKnown, held, queued, free, plain,
           handle>>
  BY DEF Tree!LocalMkdir, Tree!Local, Tree!Working, Tree!plan, Tree!queue
<1>2. HasPlaces /\ HasPlaces'
  BY <1>1 DEF HasPlaces
<1>3. Tree!Dir \in TreeNodes
  BY <1>1 DEF TreeInv, PlanInv, KnownInv, Tree!Dir
<1>4. Tree!Above \in Tree!Objects
  BY <1>3, TreeFacts, ObjectFacts DEF TreeInv, ObjectsInv, Tree!Above
<1>5. [kind |-> "dir", object |-> Tree!Fresh] \in Tree!Entry
  <2>1. Tree!Fresh \in 0..Tree!Outside
    BY <1>1, FreshIsObject, ObjectFacts
  <2> QED
    BY <2>1 DEF Tree!Entry, Tree!Kinds
<1>6. ObjectsInv'
  BY <1>1, <1>3, <1>4, <1>5, FreshIsObject, EntryKeeps DEF Tree!MadeAt
<1> QED
  BY <1>1, <1>2, <1>6, QueueStays, KnownStays DEF TreeInv

\* A directory is opened under the one above it, and no link is.
LEMMA LocalOpenKeeps ==
    ASSUME TreeInv, Tree!LocalOpen
    PROVE  TreeInv'
<1>1. /\ treePc = "open" /\ at <= Len(dirs) /\ Tree!Named.kind = "dir" /\ Tree!Advance
      /\ handle' = [handle EXCEPT ![Tree!Dir] = Tree!Named.object]
      /\ UNCHANGED <<source, picked, dirs, files, held, queued, free, plain, entries>>
  BY DEF Tree!LocalOpen, Tree!Local, Tree!Working, Tree!plan, Tree!queue
<1>2. HasPlaces
  BY <1>1 DEF HasPlaces
<1>3. Tree!Dir \in TreeNodes
  BY <1>1 DEF TreeInv, PlanInv, KnownInv, Tree!Dir
<1>4. Tree!Above \in Tree!Objects
  BY <1>3, TreeFacts, ObjectFacts DEF TreeInv, ObjectsInv, Tree!Above
<1>5. Tree!Named.object \in Tree!Objects
  BY <1>1, <1>3, <1>4 DEF TreeInv, ObjectsInv, Tree!Named
<1>6. ObjectsInv'
  BY <1>1, <1>3, <1>5 DEF TreeInv, ObjectsInv, Tree!OutsideUntouched
<1> QED
  BY <1>1, <1>2, <1>6, QueueStays, AdvanceKeeps DEF TreeInv

\* Somebody else puts links, files and new directories where names are.
LEMMA OthersLocalKeeps ==
    ASSUME TreeInv, Tree!OthersLocal
    PROVE  TreeInv'
<1>1. /\ Tree!Unused # {}
      /\ UNCHANGED <<source, picked, dirs, files, treePc, at, treeKnown, held, queued, free,
           plain, handle>>
  BY DEF Tree!OthersLocal, Tree!plan, Tree!queue
<1>2. PICK o \in Tree!Objects, n \in TreeNodes, k \in Tree!Kinds :
          entries' = [entries EXCEPT ![o][n] = Tree!New(k)]
  BY DEF Tree!OthersLocal
<1>3. Tree!New(k) \in Tree!Entry /\ (Tree!New(k).kind = "dir"
        => Tree!New(k).object \in Tree!Objects)
  <2>1. Tree!Fresh \in Tree!Objects /\ {Tree!Fresh, Tree!Outside, 0} \subseteq 0..Tree!Outside
    BY <1>1, FreshIsObject, ObjectFacts
  <2> QED
    BY <2>1 DEF Tree!New, Tree!Entry
<1>4. ObjectsInv'
  BY <1>1, <1>2, <1>3, EntryKeeps
<1> QED
  BY <1>1, <1>4 DEF TreeInv, PlanInv, KnownInv, QueueInv, HasPlaces, Tree!FilesFound,
     Tree!DirsFound, Tree!Found

\* Files picked one by one take free places, or none.
LEMMA AddFilesKeeps ==
    ASSUME TreeInv, Tree!AddFiles
    PROVE  TreeInv'
<1>1. /\ treePc = "files" /\ treePc' = "plan"
      /\ \/ picked <= free /\ free' = free - picked /\ plain' = picked
         \/ UNCHANGED <<free, plain>>
      /\ UNCHANGED <<source, picked, dirs, files, at, treeKnown, held, queued, entries, handle>>
  BY DEF Tree!AddFiles, Tree!plan, Tree!target
<1>2. ~HasPlaces /\ ~HasPlaces' /\ files = {} /\ queued = {} /\ held = 0
  BY <1>1 DEF TreeInv, PlanInv, QueueInv, HasPlaces
<1>3. PlanInv' /\ KnownInv'
  BY <1>1, <1>2 DEF TreeInv, PlanInv, KnownInv
<1>4. QueueInv'
  <2>1. Cardinality(queued) = 0
    BY <1>2, FS_EmptySet
  <2>2. free' \in Nat /\ plain' \in Nat /\ free' + held + plain' + Cardinality(queued) = Capacity
    <3>1. /\ free \in Nat /\ plain \in Nat /\ picked \in Nat
          /\ free + held + plain + Cardinality(queued) = Capacity
      BY DEF TreeInv, QueueInv
    <3>2. plain = 0
      BY <1>1 DEF TreeInv, QueueInv
    <3> QED
      BY <1>1, <1>2, <2>1, <3>1, <3>2
  <2> QED
    BY <1>1, <1>2, <2>1, <2>2 DEF TreeInv, QueueInv
<1> QED
  BY <1>1, <1>3, <1>4, ObjectsStay DEF TreeInv

\* Every step keeps the invariant; a folder becomes known as a directory, and files are
\* queued on the connection of their walk.
LEMMA TreeSteps ==
    ASSUME TreeInv, [Tree!Next]_(Tree!vars)
    PROVE  TreeInv' /\ Tree!KnownWhenDirectoryStep /\ Tree!SameConnectionStep
<1> USE DEF Tree!KnownWhenDirectoryStep, Tree!SameConnectionStep
<1> DEFINE Quiet == UNCHANGED <<source, picked, dirs, files, held, queued, free, plain,
      entries, handle>>
<1>0. ASSUME Quiet, HasPlaces, HasPlaces', KnownInv'
      PROVE  TreeInv'
  BY <1>0, QueueStays, ObjectsStay DEF TreeInv
<1>1. CASE Tree!AddFiles
  BY <1>1, AddFilesKeeps DEF Tree!AddFiles
<1>2. CASE Tree!Plan
  BY <1>2, TreePlanKeeps DEF Tree!Plan, Tree!queue
<1>3. CASE Tree!PlanFails \/ Tree!ReserveFails \/ Tree!RemoteFails \/ Tree!LocalFails
           \/ Tree!CommitFails
  <2>1. Tree!Fail /\ treePc # "done" /\ UNCHANGED treeKnown
    BY <1>3 DEF Tree!PlanFails, Tree!ReserveFails, Tree!RemoteFails, Tree!LocalFails,
       Tree!CommitFails, Tree!Fail
  <2> QED
    BY <2>1, TreeFailKeeps
<1>4. CASE Tree!Reserve
  BY <1>4, TreeReserveKeeps DEF Tree!Reserve
<1>5. CASE Tree!RemoteFound
  <2>1. Quiet /\ HasPlaces /\ Tree!Advance /\ dest[Tree!Dir] = "dir"
    BY <1>5 DEF Tree!RemoteFound, Tree!Remote, Tree!Working, HasPlaces, Tree!plan, Tree!queue,
       Tree!target
  <2>2. TreeInv'
    BY <1>0, <2>1, AdvanceKeeps
  <2> QED
    BY <2>1, <2>2 DEF Tree!Advance
<1>6. CASE Tree!RemoteAbsent \/ Tree!RemoteMkdir \/ Tree!LocalStat
  <2>1. Quiet /\ HasPlaces /\ HasPlaces' /\ UNCHANGED <<at, treeKnown>>
    BY <1>6 DEF Tree!RemoteAbsent, Tree!RemoteMkdir, Tree!LocalStat, Tree!Remote, Tree!Local,
       Tree!Working, HasPlaces,
       Tree!plan, Tree!queue, Tree!target
  <2> QED
    BY <1>0, <2>1, KnownStays
<1>7. CASE Tree!LocalMkdir
  BY <1>7, LocalMkdirKeeps DEF Tree!LocalMkdir, Tree!queue
<1>8. CASE Tree!LocalOpen
  BY <1>8, LocalOpenKeeps DEF Tree!LocalOpen, Tree!Local, Tree!queue
<1>9. CASE Tree!Commit
  BY <1>9, TreeCommitKeeps DEF Tree!Commit
<1>10. CASE Tree!OthersRemote \/ Tree!Lose \/ UNCHANGED Tree!vars
  <2>1. Quiet /\ UNCHANGED <<treePc, at, treeKnown>>
    BY <1>10 DEF Tree!OthersRemote, Tree!Lose, Tree!vars, Tree!plan, Tree!queue, Tree!target
  <2> QED
    BY <2>1, ObjectsStay DEF TreeInv, PlanInv, KnownInv, QueueInv, HasPlaces, Tree!FilesFound,
       Tree!DirsFound, Tree!Found
<1>11. CASE Tree!OthersLocal
  BY <1>11, OthersLocalKeeps DEF Tree!OthersLocal, Tree!queue
<1> QED
  BY <1>1, <1>2, <1>3, <1>4, <1>5, <1>6, <1>7, <1>8, <1>9, <1>10, <1>11 DEF Tree!Next, Tree!Step

(***************************************************************************)
(* The editors                                                             *)
(***************************************************************************)

\* A call under way.
EditCalls ==
    [op : {"open", "save", "reload"},
     at : {"list", "get", "chmod", "put", "rechmod", "relist", "reget", "end"},
     rev : Nat, put : Nat, mode : Nat, read : Nat, raced : BOOLEAN, ok : BOOLEAN]

\* The types of the editor's state.
EditTypes ==
    /\ editorFile \in Nat /\ mode \in Nat /\ editorOthers \in Nat /\ workspaces \in Nat
    /\ doc \in Nat /\ buffer \in Nat /\ text \in Nat /\ fresh \in Nat
    /\ ui \in {"idle", "waits", "edits", "asks"}
    /\ stuck \in BOOLEAN
    /\ IF ui = "waits" THEN editorCall \in EditCalls ELSE editorCall = Editor!None

\* What a call under way has on disk and at the server.
CallKeeps ==
    /\ workspaces >= Editor!Held /\ (~stuck => workspaces = Editor!Held)
    /\ ui = "waits" =>
          /\ editorCall.at \in {"chmod", "put", "rechmod", "relist", "reget"}
               => editorCall.op = "save"
          /\ editorCall.ok => editorCall.at = "end"
          /\ editorCall.at \in {"chmod", "put"} => editorFile = editorCall.rev \/ editorCall.raced
          /\ (editorCall.at \in {"relist", "reget"} \/ (editorCall.op = "save" /\ editorCall.ok))
                /\ editorOthers = 0 => mode = editorCall.mode

\* What the user has typed is the text of a document, and what a save sends is the text.
TextKeeps ==
    /\ ui = "idle" => ~typed
    /\ ui = "waits" =>
          /\ editorCall.op = "open" => ~typed
          /\ editorCall.op = "save" => editorCall.put = text

\* The inductive invariant of an editor.
EditInv == EditTypes /\ CallKeeps /\ TextKeeps

\* No document is open at the start.
LEMMA EditorStarts ==
    ASSUME Editor!Init
    PROVE  EditInv
<1>1. EditTypes
  BY DEF Editor!Init, EditTypes
<1>2. ui = "idle" /\ editorCall = Editor!None /\ workspaces = 0 /\ ~typed
  BY DEF Editor!Init
<1>3. Editor!Held = 0
  BY <1>2 DEF Editor!Init, Editor!Held, Editor!None
<1>4. CallKeeps
  BY <1>2, <1>3 DEF CallKeeps
<1>5. TextKeeps
  BY <1>2 DEF TextKeeps
<1> QED
  BY <1>1, <1>4, <1>5 DEF EditInv

\* A clean-up removes all of n private directories, or is remembered.
LEMMA CleanupRemoves ==
    ASSUME NEW n \in Nat, workspaces \in Nat, workspaces >= n, stuck \in BOOLEAN,
           Editor!Cleanup(n)
    PROVE  /\ workspaces' \in Nat /\ workspaces' >= workspaces - n /\ stuck' \in BOOLEAN
           /\ ~stuck' => ~stuck /\ workspaces' = workspaces - n
<1>1. PICK k \in 0..n : workspaces' = workspaces - k /\ stuck' = (stuck \/ k < n)
  BY DEF Editor!Cleanup
<1>2. k \in Nat /\ k <= n
  BY <1>1
<1>3. (k < n) \in BOOLEAN /\ (~(k < n) => k = n)
  BY <1>2
<1>4. stuck' \in BOOLEAN /\ (~stuck' => ~stuck /\ ~(k < n))
  BY <1>1, <1>3
<1> QED
  BY <1>1, <1>2, <1>3, <1>4

\* Every request of a call keeps the invariant.
LEMMA RequestKeeps ==
    ASSUME EditInv, Editor!Engine
    PROVE  EditInv'
<1> USE DEF EditInv, EditTypes, CallKeeps, TextKeeps, Editor!server, Editor!editor, Editor!disk, Editor!counts,
      Editor!Held
<1>1. /\ ui = "waits" /\ editorCall \in EditCalls /\ workspaces \in Nat
      /\ editorFile \in Nat /\ mode \in Nat /\ stuck \in BOOLEAN
  BY DEF EditCalls, Editor!Engine, Editor!List, Editor!Get, Editor!ProveMode, Editor!Put,
     Editor!RestoreMode, Editor!Verify, Editor!RequestFails, Editor!None
<1>2. CASE Editor!List
  <2>1. editorCall' \in EditCalls
    BY <1>1, <1>2 DEF EditCalls, Editor!List, Editor!To
  <2> QED
    BY <1>1, <1>2, <2>1 DEF EditCalls, Editor!List, Editor!To
<1>3. CASE Editor!Get
  <2>1. editorCall' \in EditCalls
    BY <1>1, <1>3 DEF EditCalls, Editor!Get, Editor!To
  <2>2. /\ workspaces' \in Nat /\ workspaces' >= 0 /\ stuck' \in BOOLEAN
        /\ ~stuck' => workspaces' = 0
    BY <1>1, <1>3, CleanupRemoves DEF Editor!Get
  <2> QED
    BY <1>1, <1>3, <2>1, <2>2 DEF EditCalls, Editor!Get, Editor!To
<1>4. CASE Editor!ProveMode
  <2>1. editorCall' \in EditCalls
    BY <1>1, <1>4 DEF EditCalls, Editor!ProveMode, Editor!To
  <2> QED
    BY <1>1, <1>4, <2>1 DEF EditCalls, Editor!ProveMode, Editor!To
<1>5. CASE Editor!Put
  <2>1. editorCall' \in EditCalls
    BY <1>1, <1>5 DEF EditCalls, Editor!Put, Editor!To
  <2> QED
    BY <1>1, <1>5, <2>1 DEF EditCalls, Editor!Put, Editor!To
<1>6. CASE Editor!RestoreMode
  <2>1. editorCall' \in EditCalls
    BY <1>1, <1>6 DEF EditCalls, Editor!RestoreMode, Editor!To
  <2> QED
    BY <1>1, <1>6, <2>1 DEF EditCalls, Editor!RestoreMode, Editor!To
<1>7. CASE Editor!Verify
  <2>1. editorCall' \in EditCalls
    BY <1>1, <1>7 DEF EditCalls, Editor!Verify, Editor!To
  <2>0. /\ workspaces' \in Nat /\ workspaces' >= 0 /\ stuck' \in BOOLEAN
        /\ ~stuck' => workspaces' = 0
    BY <1>1, <1>7, CleanupRemoves DEF Editor!Verify
  <2>2. editorCall'.at = "end" /\ editorCall.op = "save"
    BY <1>1, <1>7 DEF EditCalls, Editor!Verify, Editor!To
  <2>3. editorCall'.op = "save" /\ editorCall'.put = editorCall.put
          /\ editorCall'.mode = editorCall.mode
    BY <1>1, <1>7 DEF EditCalls, Editor!Verify, Editor!To
  <2>4. /\ UNCHANGED <<editorFile, mode, editorOthers, ui, doc, buffer, text, typed, fresh>>
        /\ editorCall.at = "reget"
    BY <1>7 DEF Editor!Verify
  <2>5. EditTypes'
    BY <1>1, <2>0, <2>1, <2>2, <2>4
  <2>6. CallKeeps'
    <3>1. workspaces' >= Editor!Held' /\ (~stuck' => workspaces' = Editor!Held')
      BY <2>0, <2>2
    <3>2. editorOthers' = 0 => mode' = editorCall'.mode
      BY <1>1, <2>3, <2>4
    <3> QED
      BY <2>2, <3>1, <3>2
  <2> QED
    BY <1>1, <2>2, <2>3, <2>4, <2>5, <2>6
<1>8. CASE Editor!RequestFails
  <2>1. editorCall' \in EditCalls
    BY <1>1, <1>8 DEF EditCalls, Editor!RequestFails, Editor!To
  <2>2. /\ workspaces' \in Nat /\ workspaces' >= 0 /\ stuck' \in BOOLEAN
        /\ ~stuck' => workspaces' = 0
    <3>1. Editor!Held \in Nat
      OBVIOUS
    <3> QED
      BY <1>1, <1>8, <3>1, CleanupRemoves DEF Editor!RequestFails
  <2> QED
    BY <1>1, <1>8, <2>1, <2>2 DEF EditCalls, Editor!RequestFails, Editor!To
<1> QED
  BY <1>2, <1>3, <1>4, <1>5, <1>6, <1>7, <1>8 DEF Editor!Engine

\* So does what the user and other clients do.
LEMMA EditorActs ==
    ASSUME EditInv, ~Editor!Engine, [Editor!Next]_(Editor!vars)
    PROVE  EditInv'
<1> USE DEF EditInv, EditTypes, EditCalls, CallKeeps, TextKeeps,
      Editor!server, Editor!editor, Editor!disk, Editor!counts, Editor!Begin, Editor!Held, Editor!Waits,
      Editor!Idle, Editor!None
<1>1. CASE Editor!Loaded
  BY <1>1 DEF Editor!Loaded, Editor!Load, Editor!Ended
<1>2. CASE Editor!Failed
  BY <1>2 DEF Editor!Failed, Editor!Ended
<1>3. CASE Editor!ConnectionChanged
  BY <1>3 DEF Editor!ConnectionChanged, Editor!Ended
<1>4. CASE Editor!Open
  BY <1>4 DEF Editor!Open
<1>5. CASE Editor!Type
  BY <1>5 DEF Editor!Type
<1>6. CASE Editor!Save
  BY <1>6 DEF Editor!Save, Editor!Read, Editor!Cut
<1>7. CASE Editor!AskFirst
  BY <1>7 DEF Editor!AskFirst, Editor!Dirty, Editor!Asked, Editor!Read, Editor!Cut
<1>8. CASE Editor!KeepEditing
  BY <1>8 DEF Editor!KeepEditing
<1>9. CASE Editor!Expire
  BY <1>9 DEF Editor!Expire
<1>10. CASE Editor!Reload
  BY <1>10 DEF Editor!Reload, Editor!May, Editor!Dirty, Editor!Asked
<1>11. CASE Editor!Close
  BY <1>11 DEF Editor!Close, Editor!May, Editor!Dirty, Editor!Asked
<1>12. CASE Editor!Others
  <2>1. editorFile' \in Nat /\ mode' \in Nat /\ fresh' \in Nat /\ editorOthers' \in Nat
        /\ editorOthers' # 0 /\ ui' = ui /\ workspaces' = workspaces
    BY <1>12 DEF Editor!Others
  <2>2. CASE ui = "waits"
    <3>1. editorCall' \in EditCalls /\ editorCall'.at = editorCall.at
            /\ editorCall'.op = editorCall.op
          /\ editorCall'.ok = editorCall.ok /\ editorCall'.put = editorCall.put
          /\ (editorCall.op = "save" /\ editorCall.at \notin {"list", "get"} => editorCall'.raced)
      BY <1>12, <2>2 DEF Editor!Others
    <3> QED
      BY <1>12, <2>1, <2>2, <3>1 DEF Editor!Others
  <2>3. CASE ui # "waits"
    BY <1>12, <2>1, <2>3 DEF Editor!Others
  <2> QED
    BY <2>2, <2>3
<1>13. CASE Editor!Lose
  BY <1>13 DEF Editor!Lose
<1>14. CASE UNCHANGED Editor!vars
  BY <1>14 DEF Editor!vars
<1> QED
  BY <1>1, <1>2, <1>3, <1>4, <1>5, <1>6, <1>7, <1>8, <1>9, <1>10, <1>11, <1>12, <1>13,
     <1>14 DEF Editor!Next, Editor!Engine

\* What the steps of the editors never do.
LEMMA EditorNeverDrops ==
    ASSUME EditInv, [Editor!Next]_(Editor!vars)
    PROVE  /\ Editor!NoBlindOverwriteStep /\ Editor!FailureKeepsTextStep
           /\ Editor!ReadIsTrueStep
<1> USE DEF EditInv, EditTypes, EditCalls, CallKeeps, TextKeeps, Editor!server, Editor!editor,
      Editor!disk, Editor!counts, Editor!None
<1>1. Editor!FailureKeepsTextStep
  BY DEF Editor!FailureKeepsTextStep, Editor!Failed
<1>2. Editor!NoBlindOverwriteStep
  <2> SUFFICES ASSUME editorFile' # editorFile, editorOthers' = editorOthers
               PROVE  editorFile = editorCall.rev \/ editorCall.raced
    BY DEF Editor!NoBlindOverwriteStep
  <2>1. Editor!Put
    BY DEF Editor!Next, Editor!vars, Editor!List, Editor!Get, Editor!ProveMode, Editor!Put,
       Editor!RestoreMode, Editor!Verify, Editor!RequestFails, Editor!Loaded, Editor!Failed,
       Editor!ConnectionChanged, Editor!Open, Editor!Type, Editor!Save, Editor!AskFirst,
       Editor!KeepEditing, Editor!Expire, Editor!Reload, Editor!Close, Editor!Others, Editor!Lose
  <2> QED
    BY <2>1 DEF Editor!Put
<1>3. Editor!ReadIsTrueStep
  <2> SUFFICES ASSUME editorCall'.op # "none", editorCall'.ok, ~editorCall.ok
               PROVE  editorCall'.read = editorFile
    BY DEF Editor!ReadIsTrueStep
  <2>1. CASE Editor!Get \/ Editor!Verify
    <3>1. ui = "waits" /\ editorCall \in EditCalls
      BY <2>1 DEF Editor!Get, Editor!Verify
    <3>2. editorCall' = [editorCall EXCEPT !.at = "end", !.read = editorFile, !.ok = TRUE]
          \/ editorCall'.ok = editorCall.ok
      BY <2>1, <3>1 DEF Editor!Get, Editor!Verify, Editor!To
    <3> QED
      BY <3>1, <3>2
  <2>2. CASE UNCHANGED Editor!vars
    BY <2>2 DEF Editor!vars
  <2>3. CASE Editor!List \/ Editor!ProveMode \/ Editor!Put \/ Editor!RestoreMode
             \/ Editor!RequestFails
    <3>1. ui = "waits" /\ editorCall \in EditCalls
      BY <2>3 DEF Editor!List, Editor!ProveMode, Editor!Put, Editor!RestoreMode,
         Editor!RequestFails
    <3> QED
      BY <2>3, <3>1 DEF Editor!List, Editor!ProveMode, Editor!Put, Editor!RestoreMode,
         Editor!RequestFails, Editor!To
  <2>4. CASE Editor!Open \/ Editor!Save \/ Editor!Reload
    BY <2>4 DEF Editor!Open, Editor!Save, Editor!Reload, Editor!Waits, Editor!Begin
  <2>5. CASE Editor!Loaded \/ Editor!Failed \/ Editor!ConnectionChanged \/ Editor!Type
             \/ Editor!AskFirst
             \/ Editor!KeepEditing \/ Editor!Expire \/ Editor!Close \/ Editor!Lose
    BY <2>5 DEF Editor!Loaded, Editor!Failed, Editor!ConnectionChanged, Editor!Type,
       Editor!AskFirst, Editor!KeepEditing, Editor!Expire, Editor!Close, Editor!Lose
  <2>6. CASE Editor!Others
    BY <2>6 DEF Editor!Others
  <2> QED
    BY <2>1, <2>2, <2>3, <2>4, <2>5, <2>6 DEF Editor!Next
<1> QED
  BY <1>1, <1>2, <1>3

\* Where a text too long for the control is refused, none is dropped unasked.
LEMMA EditorAsksFirst ==
    ASSUME ~Long, EditInv, [Editor!Next]_(Editor!vars)
    PROVE  Editor!DropsOnlyAskedStep
<1> USE DEF EditInv, EditTypes, EditCalls, CallKeeps, TextKeeps, Editor!server, Editor!editor,
      Editor!disk, Editor!counts, Editor!None
<1>1. Editor!Read = text
  BY DEF Editor!Read
<1>2. ASSUME typed, ~typed', text # buffer
      PROVE  \/ ~editorLive \/ closeOk \/ (ui = "asks" /\ asks = "close")
             \/ editorCall.op = "reload" \/ (editorCall.op = "save" /\ editorCall.put = text)
  <2>1. Editor!Loaded \/ Editor!Failed \/ Editor!ConnectionChanged \/ Editor!Close
    BY <1>2 DEF Editor!Next, Editor!vars, Editor!List, Editor!Get, Editor!ProveMode, Editor!Put,
       Editor!RestoreMode, Editor!Verify, Editor!RequestFails, Editor!Open, Editor!Type,
       Editor!Save, Editor!AskFirst, Editor!KeepEditing, Editor!Expire, Editor!Reload,
       Editor!Others, Editor!Lose
  <2>2. CASE Editor!Loaded \/ Editor!Failed
    BY <1>2, <2>2 DEF Editor!Loaded, Editor!Failed, Editor!Ended, Editor!Idle
  <2>3. CASE Editor!ConnectionChanged \/ Editor!Close
    BY <1>1, <1>2, <2>3 DEF Editor!ConnectionChanged, Editor!Close, Editor!May, Editor!Dirty,
       Editor!Asked
  <2> QED
    BY <2>1, <2>2, <2>3
<1>3. ASSUME editorCall.op = "none", editorCall'.op = "reload", text # buffer
      PROVE  reloadOk \/ (ui = "asks" /\ asks = "reload")
  <2>1. Editor!Reload
    BY <1>3 DEF Editor!Next, Editor!vars, Editor!List, Editor!Get, Editor!ProveMode, Editor!Put,
       Editor!RestoreMode, Editor!Verify, Editor!RequestFails, Editor!Loaded, Editor!Failed,
       Editor!ConnectionChanged, Editor!Open, Editor!Type, Editor!Save, Editor!AskFirst,
       Editor!KeepEditing, Editor!Expire, Editor!Close, Editor!Others, Editor!Lose,
       Editor!Waits, Editor!Begin, Editor!To
  <2> QED
    BY <1>1, <1>3, <2>1 DEF Editor!Reload, Editor!May, Editor!Dirty, Editor!Asked
<1> QED
  BY <1>2, <1>3 DEF Editor!DropsOnlyAskedStep

\* Every step keeps the invariant.
LEMMA EditorSteps ==
    ASSUME EditInv, [Editor!Next]_(Editor!vars)
    PROVE  EditInv'
  BY RequestKeeps, EditorActs

\* The invariant says what the suite checks of the editors (remote_edit.go).
LEMMA EditorImplies ==
    ASSUME EditInv
    PROVE  Editor!ModeKept /\ Editor!NothingLeft
  BY DEF EditInv, EditTypes, EditCalls, CallKeeps, Editor!ModeKept, Editor!NothingLeft,
     Editor!Held, Editor!None

(***************************************************************************)
(* The files of an SFTP session                                            *)
(***************************************************************************)

\* A connection is writing the files of its session.
WritesFiles == sftpPc \in {"known", "key", "config", "probe"}

\* One connection is made at a time, and none while a session is attached or closing.
OneAtATime ==
    /\ sftpPc \in {"idle", "scan"} \/ WritesFiles
    /\ sftpPc = "idle" <=> now = Missing
    /\ {now, sftpLive, sftpClosing} \subseteq used \cup {Missing} /\ used \subseteq Tries
    /\ now # Missing => sftpLive = Missing /\ sftpClosing = Missing
    /\ sftpLive # Missing => sftpClosing = Missing

\* Sessions are new when a connection begins; what lies around is of earlier ones.
FilesOfUsed ==
    /\ \A f \in disk : \E k \in SSH!Kinds, s \in used : f = <<k, s>>
    /\ sftpPc = "scan" \/ sftpPc = "known" => \A k \in SSH!Kinds : <<k, now>> \notin disk

\* The key of every file that is in use is the one the user has accepted, and that one
\* does not change any more.
KeyIsPinned ==
    /\ sftpKnown \in [Tries -> HostKeys \cup {NoKey}] /\ pinned \in HostKeys \cup {NoKey}
    /\ WritesFiles => scanned = pinned /\ pinned # NoKey
    /\ \A s \in {now, sftpLive, sftpClosing} \cap Tries :
          <<"known", s>> \in disk => sftpKnown[s] = pinned /\ pinned # NoKey
    /\ reached # {} => pinned # NoKey

\* The inductive invariant of the sessions' files.
SSHInv ==
    /\ OneAtATime /\ FilesOfUsed /\ KeyIsPinned
    /\ SSH!FilesAreOwned /\ SSH!LiveHasItsFiles /\ SSH!OnlyAcceptedServer

\* No session and no key are none of them.
LEMMA SSHFacts == Missing \notin Tries /\ NoKey \notin HostKeys
  BY TransfersAssumption DEF SSH!SftpAssumption

\* There are no files at the start.
LEMMA SSHStarts ==
    ASSUME SSH!Init
    PROVE  SSHInv
  BY SSHFacts DEF SSH!Init, SSHInv, OneAtATime, WritesFiles, FilesOfUsed, KeyIsPinned,
     SSH!FilesAreOwned,
     SSH!LiveHasItsFiles, SSH!OnlyAcceptedServer

\* The invariant says what the suite checks of SFTP (openssh_session.go).
LEMMA SSHImplies ==
    ASSUME SSHInv
    PROVE  SSH!FilesAreOwned /\ SSH!LiveHasItsFiles /\ SSH!OnlyAcceptedServer
  BY DEF SSHInv

\* Removing files of no session but s leaves the others theirs.
LEMMA RemoveFacts ==
    ASSUME NEW S, SSH!Remove(S)
    PROVE  disk' \subseteq disk /\ disk' \ stale' \subseteq (disk \ stale) \ S
           /\ \A f \in disk : f \notin S => f \in disk'
  BY DEF SSH!Remove

\* A file is one session's.
LEMMA OwnFacts ==
    /\ \A s, k : k \in SSH!Kinds => <<k, s>> \in SSH!Own(s)
    /\ \A s, f : f \in SSH!Own(s) => \E k \in SSH!Kinds : f = <<k, s>>
    /\ \A s, t, f : f \in SSH!Own(s) /\ f \in SSH!Own(t) => s = t
  BY DEF SSH!Own

\* A connection that ends takes the files of its session along.
LEMMA GiveUpKeeps ==
    ASSUME SSHInv, now # Missing, SSH!GiveUp \/ (SSH!ConnectEnds /\ sftpPc = "scan"
           /\ UNCHANGED <<disk, stale>>),
           UNCHANGED <<sftpKnown, sftpLive, sftpClosing, used, reached>>,
           UNCHANGED pinned \/ (pinned = NoKey /\ sftpPc = "scan"
             /\ pinned' \in HostKeys \cup {NoKey})
    PROVE  SSHInv'
<1> USE SSHFacts DEF SSH!GiveUp, SSH!ConnectEnds
<1>1. now' = Missing /\ sftpPc' = "idle" /\ sftpLive = Missing /\ sftpClosing = Missing
        /\ ~WritesFiles'
      /\ now \in Tries
  BY DEF SSHInv, OneAtATime, WritesFiles
<1>2. OneAtATime'
  BY <1>1 DEF SSHInv, OneAtATime
<1>3. disk' \subseteq disk /\ disk' \ stale' \subseteq (disk \ stale) \ SSH!Own(now)
  <2>1. CASE SSH!GiveUp
    BY <2>1, RemoveFacts
  <2>2. CASE sftpPc = "scan" /\ UNCHANGED <<disk, stale>>
    BY <2>2, OwnFacts DEF SSHInv, FilesOfUsed
  <2> QED
    BY <2>1, <2>2
<1>4. FilesOfUsed'
  BY <1>1, <1>3 DEF SSHInv, FilesOfUsed
<1>5. SSH!FilesAreOwned'
  BY <1>1, <1>3 DEF SSHInv, SSH!FilesAreOwned
<1>6. KeyIsPinned'
  BY <1>1, <1>3 DEF SSHInv, KeyIsPinned
<1>7. SSH!LiveHasItsFiles' /\ SSH!OnlyAcceptedServer'
  BY <1>1 DEF SSHInv, SSH!LiveHasItsFiles, SSH!OnlyAcceptedServer, KeyIsPinned
<1> QED
  BY <1>2, <1>4, <1>5, <1>6, <1>7 DEF SSHInv

\* A file written belongs to the connection being made.
LEMMA WriteFileKeeps ==
    ASSUME SSHInv, NEW file \in {"key", "config"}, NEW next \in {"config", "probe"},
           sftpPc \in {"key", "config"}, SSH!WriteFile(file, next),
           UNCHANGED <<sftpKnown, pinned, sftpLive, sftpClosing, used, reached>>
    PROVE  SSHInv'
<1>1. now \in Tries /\ now \in used /\ WritesFiles /\ WritesFiles'
        /\ disk' = disk \cup {<<file, now>>}
      /\ sftpLive = Missing /\ sftpClosing = Missing /\ file \in SSH!Kinds /\ file # "known"
      /\ sftpPc' = next /\ UNCHANGED <<now, scanned, stale>>
  BY DEF SSH!WriteFile, SSHInv, OneAtATime, WritesFiles, SSH!Kinds
<1>2. OneAtATime' /\ FilesOfUsed'
  BY <1>1 DEF SSHInv, OneAtATime, FilesOfUsed, WritesFiles
<1>3. KeyIsPinned'
  BY <1>1 DEF SSHInv, KeyIsPinned
<1>4. SSH!FilesAreOwned'
  BY <1>1, OwnFacts DEF SSHInv, SSH!FilesAreOwned
<1>5. SSH!LiveHasItsFiles' /\ SSH!OnlyAcceptedServer'
  BY <1>1 DEF SSHInv, SSH!LiveHasItsFiles, SSH!OnlyAcceptedServer
<1> QED
  BY <1>2, <1>3, <1>4, <1>5 DEF SSHInv

\* A connection begins with a session that was not used before.
LEMMA SSHConnectKeeps ==
    ASSUME SSHInv, NEW s \in Tries, SSH!Connect(s)
    PROVE  SSHInv'
<1>1. /\ now = Missing /\ sftpLive = Missing /\ sftpClosing = Missing /\ sftpPc = "idle"
           /\ s \notin used
      /\ sftpPc' = "scan" /\ now' = s /\ used' = used \cup {s} /\ ~WritesFiles /\ ~WritesFiles'
      /\ UNCHANGED <<sftpKnown, pinned, scanned, sftpLive, sftpClosing, reached>>
  BY DEF SSH!Connect, SSHInv, OneAtATime, WritesFiles
<1>2. disk' \subseteq disk /\ disk' \ stale' = {}
  <2>1. disk \ stale = {}
    BY <1>1, SSHFacts DEF SSHInv, SSH!FilesAreOwned
  <2>2. CASE SSH!Remove(disk)
    BY <2>2, RemoveFacts
  <2>3. CASE UNCHANGED <<disk, stale>>
    BY <2>1, <2>3
  <2> QED
    BY <2>2, <2>3 DEF SSH!Connect
<1>3. OneAtATime'
  BY <1>1, SSHFacts DEF SSHInv, OneAtATime, WritesFiles
<1>4. FilesOfUsed'
  BY <1>1, <1>2 DEF SSHInv, FilesOfUsed
<1>5. KeyIsPinned'
  BY <1>1, <1>2, <1>4, SSHFacts DEF SSHInv, KeyIsPinned, FilesOfUsed, SSH!Kinds
<1>6. SSH!FilesAreOwned' /\ SSH!LiveHasItsFiles' /\ SSH!OnlyAcceptedServer'
  BY <1>1, <1>2, SSHFacts DEF SSHInv, SSH!FilesAreOwned, SSH!LiveHasItsFiles,
     SSH!OnlyAcceptedServer
<1> QED
  BY <1>3, <1>4, <1>5, <1>6 DEF SSHInv

\* A scanned key is the accepted one, or is asked about, or ends the connection.
LEMMA ScanKeeps ==
    ASSUME SSHInv, NEW shown \in SUBSET HostKeys, SSH!Scan(shown)
    PROVE  SSHInv'
<1>1. /\ sftpPc = "scan" /\ now # Missing /\ now \in Tries
      /\ UNCHANGED <<disk, sftpKnown, sftpLive, sftpClosing, used, stale, reached>>
  BY DEF SSH!Scan, SSHInv, OneAtATime, WritesFiles
<1>2. ASSUME NEW k \in shown, pinned = k, scanned' = k, sftpPc' = "known", UNCHANGED <<pinned,
             now>>
      PROVE  SSHInv'
  <2>1. pinned # NoKey
    BY <1>2, SSHFacts
  <2>2. OneAtATime' /\ FilesOfUsed'
    BY <1>1, <1>2 DEF SSHInv, OneAtATime, WritesFiles, FilesOfUsed
  <2>3. KeyIsPinned'
    BY <1>1, <1>2, <2>1 DEF SSHInv, KeyIsPinned
  <2> QED
    BY <1>1, <1>2, <2>2, <2>3 DEF SSHInv, SSH!FilesAreOwned, SSH!LiveHasItsFiles,
       SSH!OnlyAcceptedServer
<1>3. CASE SSH!ConnectEnds /\ (UNCHANGED pinned \/ (pinned = NoKey
           /\ pinned' \in HostKeys \cup {NoKey}))
  BY <1>1, <1>3, GiveUpKeeps
<1> QED
  BY <1>2, <1>3 DEF SSH!Scan, SSH!Selected

\* known_hosts is written with the key that was accepted.
LEMMA WriteKnownKeeps ==
    ASSUME SSHInv, SSH!WriteKnown
    PROVE  SSHInv'
<1>1. sftpPc = "known" /\ now \in Tries /\ now \in used /\ now # Missing /\ WritesFiles
      /\ sftpLive = Missing /\ sftpClosing = Missing
      /\ UNCHANGED <<pinned, sftpLive, sftpClosing, used, reached>>
  BY SSHFacts DEF SSH!WriteKnown, SSHInv, OneAtATime, WritesFiles
<1>2. CASE SSH!WriteFile("known", "key") /\ sftpKnown' = [sftpKnown EXCEPT ![now] = scanned]
  <2>1. disk' = disk \cup {<<"known", now>>} /\ sftpPc' = "key" /\ UNCHANGED <<now, scanned,
          stale>> /\ WritesFiles'
    BY <1>2 DEF SSH!WriteFile, WritesFiles
  <2>2. OneAtATime' /\ FilesOfUsed'
    BY <1>1, <2>1 DEF SSHInv, OneAtATime, FilesOfUsed, WritesFiles, SSH!Kinds
  <2>3. KeyIsPinned'
    BY <1>1, <1>2, <2>1, SSHFacts DEF SSHInv, KeyIsPinned
  <2>4. SSH!FilesAreOwned'
    BY <1>1, <2>1, OwnFacts DEF SSHInv, SSH!FilesAreOwned, SSH!Kinds
  <2>5. SSH!LiveHasItsFiles' /\ SSH!OnlyAcceptedServer'
    BY <1>1, <2>1, SSHFacts DEF SSHInv, SSH!LiveHasItsFiles, SSH!OnlyAcceptedServer
  <2> QED
    BY <2>2, <2>3, <2>4, <2>5 DEF SSHInv
<1>3. CASE SSH!GiveUp /\ UNCHANGED sftpKnown
  BY <1>1, <1>3, GiveUpKeeps
<1> QED
  BY <1>2, <1>3 DEF SSH!WriteKnown

\* The key's copy and the configuration are files of the session.
LEMMA CopyAndConfigKeep ==
    ASSUME SSHInv, SSH!CopyKey \/ SSH!WriteConfig
    PROVE  SSHInv'
<1>1. sftpPc \in {"key", "config"} /\ now # Missing
      /\ UNCHANGED <<sftpKnown, pinned, sftpLive, sftpClosing, used, reached>>
  BY DEF SSH!CopyKey, SSH!WriteConfig, SSHInv, OneAtATime, WritesFiles
<1>2. CASE SSH!WriteFile("key", "config") \/ SSH!WriteFile("config", "probe")
  BY <1>1, <1>2, WriteFileKeeps
<1>3. CASE SSH!GiveUp
  BY <1>1, <1>3, GiveUpKeeps
<1>4. CASE sftpPc' = "config" /\ UNCHANGED <<disk, stale, now, scanned>>
  BY <1>1, <1>4 DEF SSHInv, OneAtATime, WritesFiles, FilesOfUsed, KeyIsPinned, SSH!FilesAreOwned,
     SSH!LiveHasItsFiles, SSH!OnlyAcceptedServer
<1> QED
  BY <1>2, <1>3, <1>4 DEF SSH!CopyKey, SSH!WriteConfig

\* A session is attached after the server has shown the key of its known_hosts.
LEMMA ProbeKeeps ==
    ASSUME SSHInv, NEW k \in HostKeys, SSH!Probe(k)
    PROVE  SSHInv'
<1>1. sftpPc = "probe" /\ now \in Tries /\ now # Missing /\ sftpLive = Missing
        /\ sftpClosing = Missing
      /\ UNCHANGED <<sftpKnown, pinned, sftpClosing, used>>
  BY SSHFacts DEF SSH!Probe, SSHInv, OneAtATime, WritesFiles
<1>2. CASE SSH!Reaches(now, k) /\ reached' = reached \cup {<<now, k>>} /\ sftpLive' = now
           /\ SSH!ConnectEnds /\ UNCHANGED <<disk, stale>>
  <2>1. <<"known", now>> \in disk /\ <<"config", now>> \in disk /\ k = pinned /\ pinned # NoKey
    BY <1>1, <1>2 DEF SSH!Reaches, SSHInv, KeyIsPinned
  <2>2. now' = Missing /\ sftpPc' = "idle" /\ ~WritesFiles'
    BY <1>2 DEF SSH!ConnectEnds, WritesFiles
  <2>3. OneAtATime' /\ FilesOfUsed' /\ KeyIsPinned'
    BY <1>1, <1>2, <2>1, <2>2, SSHFacts DEF SSHInv, OneAtATime, FilesOfUsed, KeyIsPinned
  <2>4. SSH!FilesAreOwned' /\ SSH!LiveHasItsFiles'
    BY <1>1, <1>2, <2>1, <2>2, SSHFacts DEF SSHInv, SSH!FilesAreOwned, SSH!LiveHasItsFiles
  <2>5. SSH!OnlyAcceptedServer'
    BY <1>1, <1>2, <2>1 DEF SSHInv, SSH!OnlyAcceptedServer
  <2> QED
    BY <2>3, <2>4, <2>5 DEF SSHInv
<1>3. CASE SSH!GiveUp /\ UNCHANGED <<sftpLive, reached>>
  BY <1>1, <1>3, GiveUpKeeps
<1> QED
  BY <1>2, <1>3 DEF SSH!Probe

\* Every step of a connection, a session and a sweep keeps the invariant.
LEMMA SSHSteps ==
    ASSUME SSHInv, [SSH!Next]_(SSH!vars)
    PROVE  SSHInv'
<1> USE SSHFacts
<1>1. CASE SSH!Detach
  <2>1. /\ sftpPc = "idle" /\ now = Missing /\ sftpLive # Missing /\ sftpClosing = Missing
        /\ sftpClosing' = sftpLive /\ sftpLive' = Missing
        /\ UNCHANGED <<disk, sftpKnown, pinned, sftpPc, now, scanned, used, stale, reached>>
    BY <1>1 DEF SSH!Detach, SSHInv, OneAtATime
  <2>2. OneAtATime' /\ FilesOfUsed' /\ KeyIsPinned'
    BY <2>1 DEF SSHInv, OneAtATime, FilesOfUsed, KeyIsPinned, WritesFiles
  <2> QED
    BY <2>1, <2>2 DEF SSHInv, SSH!FilesAreOwned, SSH!LiveHasItsFiles, SSH!OnlyAcceptedServer
<1>2. CASE SSH!Close
  <2>1. /\ sftpClosing # Missing /\ sftpLive = Missing /\ now = Missing
             /\ SSH!Remove(SSH!Own(sftpClosing))
        /\ sftpClosing' = Missing
        /\ UNCHANGED <<sftpKnown, pinned, sftpPc, now, scanned, sftpLive, used, reached>>
    BY <1>2 DEF SSH!Close, SSHInv, OneAtATime
  <2>2. disk' \subseteq disk /\ disk' \ stale' \subseteq (disk \ stale) \ SSH!Own(sftpClosing)
    BY <2>1, RemoveFacts
  <2>3. OneAtATime' /\ FilesOfUsed' /\ KeyIsPinned'
    BY <2>1, <2>2 DEF SSHInv, OneAtATime, FilesOfUsed, KeyIsPinned, WritesFiles
  <2> QED
    BY <2>1, <2>2, <2>3 DEF SSHInv, SSH!FilesAreOwned, SSH!LiveHasItsFiles, SSH!OnlyAcceptedServer
<1>3. CASE SSH!Kill
  <2>1. /\ stale' = disk /\ sftpLive' = Missing /\ sftpClosing' = Missing /\ now' = Missing
        /\ sftpPc' = "idle" /\ ~WritesFiles' /\ UNCHANGED <<disk, sftpKnown, pinned, used,
             reached>>
    BY <1>3 DEF SSH!Kill, SSH!ConnectEnds, WritesFiles
  <2> QED
    BY <2>1 DEF SSHInv, OneAtATime, FilesOfUsed, KeyIsPinned, SSH!FilesAreOwned,
       SSH!LiveHasItsFiles,
       SSH!OnlyAcceptedServer
<1>4. ASSUME NEW k \in HostKeys, NEW s \in Tries, SSH!Command(s, k)
      PROVE  SSHInv'
  <2>1. /\ s \in {sftpLive, sftpClosing} \ {Missing} /\ SSH!Reaches(s, k)
             /\ reached' = reached \cup {<<s, k>>}
        /\ UNCHANGED <<disk, sftpKnown, pinned, sftpPc, now, scanned, sftpLive, sftpClosing,
             used, stale>>
    BY <1>4 DEF SSH!Command
  <2>2. k = pinned /\ pinned # NoKey
    BY <2>1 DEF SSH!Reaches, SSHInv, KeyIsPinned
  <2> QED
    BY <2>1, <2>2 DEF SSHInv, OneAtATime, FilesOfUsed, KeyIsPinned, WritesFiles,
       SSH!FilesAreOwned,
       SSH!LiveHasItsFiles, SSH!OnlyAcceptedServer
<1>5. CASE UNCHANGED SSH!vars
  BY <1>5 DEF SSH!vars, SSHInv, OneAtATime, FilesOfUsed, KeyIsPinned, WritesFiles,
     SSH!FilesAreOwned,
     SSH!LiveHasItsFiles, SSH!OnlyAcceptedServer
<1> QED
  BY <1>1, <1>2, <1>3, <1>4, <1>5, SSHConnectKeeps, ScanKeeps, WriteKnownKeeps,
     CopyAndConfigKeep, ProbeKeeps DEF SSH!Next

(***************************************************************************)
(* The secrets of running sessions                                         *)
(***************************************************************************)

\* An instance's view of cardinality is the module's own.
LEMMA BrokerCardinality == \A S : Broker!Cardinality(S) = Cardinality(S)
  BY DEF Broker!Cardinality, Cardinality

\* The constants of the broker.
LEMMA BrokerFacts ==
    TTL \in Nat \ {0} /\ Limit \in Nat \ {0} /\ NoToken \notin Tokens
      /\ SftpSessions \cap FtpSessions = {}
  BY TransfersAssumption DEF Broker!BrokerAssumption

\* What a helper process remembers.
HelperType ==
    [at : {"idle", "password", "passphrase", "files", "done", "failed"},
     for : Broker!Sessions \cup {CHOOSE s \in Broker!Sessions : TRUE},
       words : SUBSET Broker!Words,
     blob : [Broker!Kinds -> Tokens \cup {NoToken}], got : SUBSET Broker!Kinds,
     answer : {"none", "password", "passphrase"}, age : Nat]

\* The entry of token t outlasts the ticks from n to the time to live.
Lasts(l, t, n) == n <= TTL => t \in DOMAIN l /\ l[t] + n >= TTL + 1

\* The entries are finitely many tokens that were drawn, within the limit.
StoresInv ==
    /\ drawn \subseteq Tokens
    /\ brokerLeft \in [DOMAIN brokerLeft -> Nat] /\ DOMAIN brokerLeft \subseteq drawn
    /\ values \subseteq drawn
    /\ IsFiniteSet(DOMAIN brokerLeft) /\ IsFiniteSet(values)
    /\ Cardinality(DOMAIN brokerLeft) <= Limit /\ Cardinality(values) <= Limit

\* A token was drawn for one secret of one session.
OwnersInv ==
    /\ blob \in [Broker!Sessions -> [Broker!Kinds -> Tokens \cup {NoToken}]]
    /\ \A s \in Broker!Sessions, k \in Broker!Kinds : blob[s][k] \in drawn \cup {NoToken}
    /\ \A s, t \in Broker!Sessions, k, l \in Broker!Kinds :
          blob[s][k] = blob[t][l] /\ blob[s][k] # NoToken => s = t /\ k = l

\* The broker has secrets of SFTP sessions, the values are those of FTP sessions.
StoredInv ==
    /\ \A t \in DOMAIN brokerLeft : \E s \in SftpSessions, k \in Broker!Kinds : blob[s][k] = t
    /\ \A t \in values : \E s \in FtpSessions, k \in Broker!Kinds : blob[s][k] = t
    /\ \A s \in FtpSessions, k \in Broker!Kinds : blob[s][k] # NoToken => blob[s][k] \in values

\* A secret lasts from when its session began, or had a prompt answered.
LastsInv ==
    /\ since \in [Broker!Sessions -> Nat]
    /\ \A s \in SftpSessions, k \in Broker!Kinds :
          blob[s][k] # NoToken => Lasts(brokerLeft, blob[s][k], since[s])

\* Sessions that have ended or not begun own nothing, and none is given its two secrets
\* in another order.
OwnNothingInv ==
    /\ brokerPc \in [Broker!Sessions -> {"none", "password", "passphrase", "files", "open",
         "closed", "refused"}]
    /\ \A s \in Broker!Sessions, k \in Broker!Kinds :
          brokerPc[s] \in {"none", "password", "closed", "refused"} => blob[s][k] = NoToken
    /\ \A s \in SftpSessions : brokerPc[s] = "passphrase" => blob[s]["passphrase"] = NoToken

\* What a helper has asked for already.
AskedFor(place) ==
    IF place = "files" THEN Broker!Kinds ELSE IF place = "passphrase" THEN {"password"} ELSE {}

\* A helper asks for the secrets of its session, and those it has got last from when its
\* prompt came up, unless the session was closed meanwhile.
HelpersInv ==
    /\ helper \in [Helpers -> HelperType]
    /\ \A h \in Helpers : helper[h].at \in {"password", "passphrase", "files"} =>
          /\ helper[h].for \in SftpSessions
          /\ brokerPc[helper[h].for] \in {"open", "closed"}
          /\ brokerPc[helper[h].for] = "open" =>
                /\ helper[h].blob = blob[helper[h].for]
                /\ \A k \in AskedFor(helper[h].at) : helper[h].blob[k] # NoToken =>
                      Lasts(brokerLeft, helper[h].blob[k], helper[h].age)

\* The inductive invariant of the broker and the helpers.
BrokerInv ==
    /\ StoresInv /\ OwnersInv /\ StoredInv /\ LastsInv /\ OwnNothingInv /\ HelpersInv
    /\ Broker!AnswersThePrompt

\* A helper that does nothing is of this type.
LEMMA IdleType == Broker!Idle \in HelperType /\ Broker!Idle.at = "idle"
  BY DEF Broker!Idle, HelperType, Broker!Kinds, Broker!Words

\* No secret is stored at the start.
LEMMA BrokerStarts ==
    ASSUME Broker!Init
    PROVE  BrokerInv
<1> USE BrokerFacts DEF Broker!Init
<1>1. StoresInv
  <2>1. DOMAIN brokerLeft = {} /\ values = {} /\ drawn = {}
          /\ brokerLeft \in [DOMAIN brokerLeft -> Nat]
    OBVIOUS
  <2> QED
    BY <2>1, FS_EmptySet DEF StoresInv
<1>2. OwnersInv /\ StoredInv /\ OwnNothingInv
  BY DEF OwnersInv, StoredInv, OwnNothingInv, Broker!Sessions
<1>3. LastsInv
  BY DEF LastsInv, Broker!Sessions
<1>4. HelpersInv /\ Broker!AnswersThePrompt
  BY IdleType DEF HelpersInv, Broker!AnswersThePrompt
<1> QED
  BY <1>1, <1>2, <1>3, <1>4 DEF BrokerInv

\* The invariant says what the suite checks of secrets (secret_broker_linux.go).
LEMMA BrokerImplies ==
    ASSUME BrokerInv
    PROVE  Broker!NoLeak /\ Broker!UsedIsKept /\ Broker!WithinLimit /\ Broker!AnswersThePrompt
<1> USE BrokerFacts DEF BrokerInv
<1>1. Broker!NoLeak
  BY DEF StoredInv, StoresInv, Broker!NoLeak, Broker!OwnedBy, Broker!Sessions
<1>2. Broker!WithinLimit
  BY BrokerCardinality DEF StoresInv, Broker!WithinLimit
<1>3. ASSUME NEW s \in SftpSessions, since[s] <= TTL, NEW t \in Broker!OwnedBy(s)
      PROVE  t \in DOMAIN Broker!Purged
  <2>1. PICK k \in Broker!Kinds : t = blob[s][k] /\ t # NoToken
    BY <1>3 DEF Broker!OwnedBy
  <2>2. t \in DOMAIN brokerLeft /\ brokerLeft[t] + since[s] >= TTL + 1
          /\ brokerLeft[t] \in Nat /\ since[s] \in Nat
    BY <1>3, <2>1 DEF LastsInv, Lasts, StoresInv, Broker!Sessions
  <2> QED
    BY <1>3, <2>2 DEF Broker!Purged
<1>4. Broker!UsedIsKept
  BY <1>3 DEF StoredInv, Broker!UsedIsKept, Broker!OwnedBy
<1> QED
  BY <1>1, <1>2, <1>4

\* Entries that go away leave the others within the limit.
LEMMA LeftShrinks ==
    ASSUME StoresInv, NEW D \in SUBSET DOMAIN brokerLeft,
           brokerLeft' = [t \in D |-> brokerLeft[t]],
           UNCHANGED <<drawn, values>>
    PROVE  StoresInv'
<1>1. DOMAIN brokerLeft' = D /\ brokerLeft' \in [D -> Nat]
  BY DEF StoresInv
<1>2. IsFiniteSet(D) /\ Cardinality(D) <= Cardinality(DOMAIN brokerLeft)
  BY FS_Subset DEF StoresInv
<1>3. Cardinality(D) \in Nat /\ Cardinality(DOMAIN brokerLeft) \in Nat
  BY <1>2, FS_CardinalityType DEF StoresInv
<1>4. Cardinality(D) <= Limit
  BY <1>2, <1>3, BrokerFacts DEF StoresInv
<1> QED
  BY <1>1, <1>2, <1>4 DEF StoresInv

\* Entries that are expired may go.
LEMMA LastsKept ==
    ASSUME NEW t, NEW n \in Nat, Lasts(brokerLeft, t, n), StoresInv,
           t \in DOMAIN brokerLeft /\ brokerLeft[t] > 0 =>
              t \in DOMAIN brokerLeft' /\ brokerLeft'[t] \in Nat
              /\ (brokerLeft'[t] >= brokerLeft[t] \/ brokerLeft'[t] = TTL + 1)
    PROVE  Lasts(brokerLeft', t, n)
<1>1. ASSUME n <= TTL
      PROVE  t \in DOMAIN brokerLeft' /\ brokerLeft'[t] + n >= TTL + 1
  <2>1. t \in DOMAIN brokerLeft /\ brokerLeft[t] + n >= TTL + 1 /\ brokerLeft[t] \in Nat
    BY <1>1 DEF Lasts, StoresInv
  <2>2. brokerLeft[t] > 0
    BY <1>1, <2>1, BrokerFacts
  <2>3. t \in DOMAIN brokerLeft' /\ brokerLeft'[t] \in Nat
        /\ (brokerLeft'[t] >= brokerLeft[t] \/ brokerLeft'[t] = TTL + 1)
    BY <2>1, <2>2
  <2> QED
    BY <2>1, <2>3, BrokerFacts
<1> QED
  BY <1>1 DEF Lasts

\* A session that ends, or is not built, takes its own secrets along and no others.
LEMMA SessionEnds ==
    ASSUME BrokerInv, NEW s \in SftpSessions, NEW next \in {"closed", "refused"},
           NEW D \in SUBSET (DOMAIN brokerLeft \ Broker!OwnedBy(s)),
           \A t \in DOMAIN brokerLeft \ Broker!OwnedBy(s) : brokerLeft[t] > 0 => t \in D,
           brokerLeft' = [t \in D |-> brokerLeft[t]],
           brokerPc[s] \in {"password", "passphrase", "files", "open"},
           next = "closed" \/ brokerPc[s] # "open",
           brokerPc' = [brokerPc EXCEPT ![s] = next],
           blob' = [blob EXCEPT ![s] = [k \in Broker!Kinds |-> NoToken]],
           UNCHANGED <<values, drawn, since, helper>>
    PROVE  BrokerInv'
<1> USE BrokerFacts DEF BrokerInv
<1>0. s \in Broker!Sessions /\ SftpSessions \subseteq Broker!Sessions
        /\ FtpSessions \subseteq Broker!Sessions
  BY DEF Broker!Sessions
<1>1. StoresInv'
  BY LeftShrinks
<1>2. \A t \in Broker!Sessions, k \in Broker!Kinds :
         blob'[t][k] = (IF t = s THEN NoToken ELSE blob[t][k])
  BY <1>0 DEF OwnersInv
<1>3. OwnersInv'
  <2>1. blob' \in [Broker!Sessions -> [Broker!Kinds -> Tokens \cup {NoToken}]]
    BY <1>0 DEF OwnersInv
  <2> QED
    BY <1>2, <2>1 DEF OwnersInv
<1>4. StoredInv'
  <2>1. ASSUME NEW t \in DOMAIN brokerLeft'
        PROVE  \E u \in SftpSessions, k \in Broker!Kinds : blob'[u][k] = t
    <3>1. t \in DOMAIN brokerLeft /\ t \notin Broker!OwnedBy(s) /\ t # NoToken
      BY DEF StoresInv
    <3>2. PICK u \in SftpSessions, k \in Broker!Kinds : blob[u][k] = t
      BY <3>1 DEF StoredInv
    <3>3. u # s
      BY <3>1, <3>2 DEF Broker!OwnedBy
    <3> QED
      BY <1>0, <1>2, <3>2, <3>3
  <2>2. \A u \in FtpSessions : u # s
    OBVIOUS
  <2> QED
    BY <1>0, <1>2, <2>1, <2>2 DEF StoredInv
<1>5. ASSUME NEW u \in SftpSessions, u # s, NEW k \in Broker!Kinds, blob[u][k] # NoToken,
             NEW n \in Nat,
             Lasts(brokerLeft, blob[u][k], n)
      PROVE  Lasts(brokerLeft', blob[u][k], n)
  <2>1. blob[u][k] \notin Broker!OwnedBy(s)
    BY <1>0, <1>5 DEF OwnersInv, Broker!OwnedBy
  <2> QED
    BY <1>5, <2>1, LastsKept DEF StoresInv
<1>6. LastsInv'
  BY <1>0, <1>2, <1>5 DEF LastsInv
<1>7. OwnNothingInv'
  BY <1>0, <1>2 DEF OwnNothingInv
<1>8. HelpersInv'
  <2> SUFFICES ASSUME NEW h \in Helpers, helper[h].at \in {"password", "passphrase", "files"}
               PROVE  LET u == helper[h].for IN
                      /\ u \in SftpSessions /\ brokerPc'[u] \in {"open", "closed"}
                      /\ brokerPc'[u] = "open" =>
                            /\ helper[h].blob = blob'[u]
                            /\ \A k \in AskedFor(helper[h].at) : helper[h].blob[k] # NoToken =>
                                  Lasts(brokerLeft', helper[h].blob[k], helper[h].age)
    BY DEF HelpersInv
  <2> DEFINE u == helper[h].for
  <2>1. u \in SftpSessions /\ brokerPc[u] \in {"open", "closed"} /\ helper[h].age \in Nat
    BY DEF HelpersInv, HelperType
  <2>2. CASE u = s
    BY <1>0, <2>1, <2>2 DEF OwnNothingInv
  <2>3. CASE u # s
    <3>1. brokerPc'[u] = brokerPc[u] /\ blob'[u] = blob[u]
      BY <1>0, <2>1, <2>3 DEF OwnNothingInv, OwnersInv
    <3>2. \A k \in AskedFor(helper[h].at) : k \in Broker!Kinds
      BY DEF AskedFor, Broker!Kinds
    <3> QED
      BY <1>5, <2>1, <2>3, <3>1, <3>2 DEF HelpersInv
  <2> QED
    BY <2>2, <2>3
<1> QED
  BY <1>1, <1>3, <1>4, <1>6, <1>7, <1>8 DEF Broker!AnswersThePrompt

\* A session that ends takes its secrets along.
LEMMA EndsKeep ==
    ASSUME BrokerInv, NEW s \in Broker!Sessions,
           Broker!BuildFails(s) \/ Broker!BuildRefused(s) \/ Broker!CloseSftp(s)
    PROVE  BrokerInv'
<1>1. CASE Broker!BuildFails(s) \/ Broker!CloseSftp(s)
  <2> DEFINE D == DOMAIN brokerLeft \ Broker!OwnedBy(s)
  <2>1. /\ s \in SftpSessions /\ brokerPc[s] \in {"password", "passphrase", "files", "open"}
        /\ brokerPc' = [brokerPc EXCEPT ![s] = "closed"]
             /\ brokerLeft' = [t \in D |-> brokerLeft[t]]
        /\ blob' = [blob EXCEPT ![s] = [k \in Broker!Kinds |-> NoToken]]
        /\ UNCHANGED <<values, drawn, since, helper>>
    BY <1>1 DEF Broker!BuildFails, Broker!CloseSftp, Broker!ForgetProtected, Broker!Kinds
  <2> QED
    BY <2>1, SessionEnds
<1>2. CASE Broker!BuildRefused(s)
  <2> DEFINE D == DOMAIN Broker!Purged \ Broker!OwnedBy(s)
  <2>1. /\ s \in SftpSessions /\ brokerPc[s] \in {"password", "passphrase"}
        /\ brokerPc' = [brokerPc EXCEPT ![s] = "refused"]
             /\ brokerLeft' = [t \in D |-> brokerLeft[t]]
        /\ blob' = [blob EXCEPT ![s] = [k \in Broker!Kinds |-> NoToken]]
        /\ UNCHANGED <<values, drawn, since, helper>>
    BY <1>2 DEF Broker!BuildRefused, Broker!Kinds
  <2>2. /\ D \in SUBSET (DOMAIN brokerLeft \ Broker!OwnedBy(s))
        /\ \A t \in DOMAIN brokerLeft \ Broker!OwnedBy(s) : brokerLeft[t] > 0 => t \in D
    BY DEF Broker!Purged
  <2> QED
    BY <2>1, <2>2, SessionEnds
<1> QED
  BY <1>1, <1>2

\* A session goes on without touching the stores.
LEMMA SessionGoesOn ==
    ASSUME BrokerInv, NEW s \in Broker!Sessions, NEW next \in {"password", "passphrase",
           "files", "open", "refused"},
           brokerPc' = [brokerPc EXCEPT ![s] = next],
           brokerPc[s] \notin {"open", "closed"},
           next \in {"password", "refused"} => \A k \in Broker!Kinds : blob[s][k] = NoToken,
           next = "passphrase" => blob[s]["passphrase"] = NoToken,
           UNCHANGED <<brokerLeft, values, blob, since, helper>>,
           drawn' \subseteq Tokens, drawn \subseteq drawn'
    PROVE  BrokerInv'
<1>1. StoresInv' /\ OwnersInv' /\ StoredInv' /\ LastsInv' /\ Broker!AnswersThePrompt'
  BY DEF BrokerInv, StoresInv, OwnersInv, StoredInv, LastsInv, Broker!AnswersThePrompt
<1>2. OwnNothingInv'
  BY DEF BrokerInv, OwnNothingInv, OwnersInv, Broker!Sessions
<1>3. \A u \in Broker!Sessions : brokerPc[u] \in {"open", "closed"} => brokerPc'[u] = brokerPc[u]
  BY DEF BrokerInv, OwnNothingInv
<1>4. HelpersInv'
  BY <1>3 DEF BrokerInv, HelpersInv, Broker!Sessions
<1> QED
  BY <1>1, <1>2, <1>4 DEF BrokerInv

\* The entry made is a new one and takes a place that was free.
LEMMA ProtectFacts ==
    ASSUME BrokerInv, Broker!Protect
    PROVE  /\ Broker!Fresh \in Tokens \ drawn /\ drawn' = drawn \cup {Broker!Fresh}
           /\ DOMAIN brokerLeft' = DOMAIN Broker!Purged \cup {Broker!Fresh}
           /\ DOMAIN Broker!Purged \subseteq DOMAIN brokerLeft
           /\ brokerLeft'[Broker!Fresh] = TTL + 1
           /\ \A t \in DOMAIN brokerLeft : brokerLeft[t] > 0 => t \in DOMAIN brokerLeft'
                /\ brokerLeft'[t] = brokerLeft[t]
           /\ values' = values => StoresInv'
<1> USE BrokerFacts DEF BrokerInv
<1>1. Broker!Fresh \in Tokens \ drawn /\ drawn' = drawn \cup {Broker!Fresh}
  BY DEF Broker!Protect, Broker!Fresh, StoresInv
<1>2. /\ DOMAIN brokerLeft' = DOMAIN Broker!Purged \cup {Broker!Fresh}
      /\ brokerLeft' = [u \in DOMAIN Broker!Purged \cup {Broker!Fresh} |->
                           IF u = Broker!Fresh THEN TTL + 1 ELSE brokerLeft[u]]
  BY DEF Broker!Protect
<1>3. DOMAIN Broker!Purged \subseteq DOMAIN brokerLeft
      /\ \A t \in DOMAIN brokerLeft : brokerLeft[t] > 0 => t \in DOMAIN Broker!Purged
  BY DEF Broker!Purged
<1>4. Broker!Fresh \notin DOMAIN brokerLeft
  BY <1>1 DEF StoresInv
<1>5. \A t \in DOMAIN brokerLeft : brokerLeft[t] > 0 => t \in DOMAIN brokerLeft'
        /\ brokerLeft'[t] = brokerLeft[t]
  BY <1>2, <1>3, <1>4
<1>6. ASSUME values' = values
      PROVE  StoresInv'
  <2>1. brokerLeft' \in [DOMAIN brokerLeft' -> Nat]
    BY <1>2, <1>3 DEF StoresInv
  <2>2. IsFiniteSet(DOMAIN Broker!Purged) /\ Cardinality(DOMAIN Broker!Purged) \in Nat
    BY <1>3, FS_Subset, FS_CardinalityType DEF StoresInv
  <2>3. Cardinality(DOMAIN Broker!Purged) < Limit
    BY BrokerCardinality DEF Broker!Protect, Broker!HasRoom
  <2>4. IsFiniteSet(DOMAIN brokerLeft')
          /\ Cardinality(DOMAIN brokerLeft') = Cardinality(DOMAIN Broker!Purged) + 1
    BY <1>2, <1>3, <1>4, <2>2, FS_AddElement
  <2>5. Cardinality(DOMAIN brokerLeft') <= Limit
    BY <2>2, <2>3, <2>4
  <2> QED
    BY <1>1, <1>2, <1>3, <1>6, <2>1, <2>4, <2>5 DEF StoresInv
<1> QED
  BY <1>1, <1>2, <1>3, <1>5, <1>6

\* A secret is protected under a token of its own.
LEMMA ProtectSecretKeeps ==
    ASSUME BrokerInv, NEW s \in Broker!Sessions, NEW k \in Broker!Kinds, Broker!ProtectFor(s, k)
    PROVE  BrokerInv'
<1> USE BrokerFacts
<1>0. /\ s \in SftpSessions /\ brokerPc[s] = k
           /\ brokerPc' = [brokerPc EXCEPT ![s] = Broker!NextKind[k]]
      /\ UNCHANGED <<values, since, helper>> /\ blob[s][k] = NoToken
      /\ Broker!NextKind[k] = (IF k = "password" THEN "passphrase" ELSE "files")
  BY DEF Broker!ProtectFor, Broker!NextKind, Broker!Kinds, BrokerInv, OwnNothingInv
<1>1. CASE UNCHANGED <<brokerLeft, drawn, blob>>
  <2>1. Broker!NextKind[k] = "passphrase" => blob[s]["passphrase"] = NoToken
    BY <1>0 DEF BrokerInv, OwnNothingInv, Broker!Kinds
  <2>2. brokerPc[s] \in {"password", "passphrase"}
          /\ Broker!NextKind[k] \in {"passphrase", "files"}
    BY <1>0 DEF Broker!Kinds
  <2> QED
    BY <1>0, <1>1, <2>1, <2>2, SessionGoesOn DEF BrokerInv, StoresInv
<1>2. CASE Broker!Protect /\ blob' = [blob EXCEPT ![s][k] = Broker!Fresh]
  <2> DEFINE f == Broker!Fresh
  <2>1. /\ f \in Tokens \ drawn /\ drawn' = drawn \cup {f} /\ StoresInv'
        /\ DOMAIN brokerLeft' = DOMAIN Broker!Purged \cup {f}
             /\ DOMAIN Broker!Purged \subseteq DOMAIN brokerLeft
        /\ brokerLeft'[f] = TTL + 1
        /\ \A t \in DOMAIN brokerLeft : brokerLeft[t] > 0 => t \in DOMAIN brokerLeft'
             /\ brokerLeft'[t] = brokerLeft[t]
    BY <1>0, <1>2, ProtectFacts
  <2>2. \A t \in Broker!Sessions, l \in Broker!Kinds :
           blob'[t][l] = (IF t = s /\ l = k THEN f ELSE blob[t][l])
    BY <1>2 DEF BrokerInv, OwnersInv
  <2> HIDE DEF f
  <2>3. OwnersInv'
    <3>1. blob' \in [Broker!Sessions -> [Broker!Kinds -> Tokens \cup {NoToken}]]
      BY <1>2, <2>1 DEF BrokerInv, OwnersInv, f
    <3> QED
      BY <2>1, <2>2, <3>1 DEF BrokerInv, OwnersInv
  <2>4. StoredInv'
    <3>1. ASSUME NEW t \in DOMAIN brokerLeft'
          PROVE  \E u \in SftpSessions, l \in Broker!Kinds : blob'[u][l] = t
      <4>1. CASE t = f
        BY <1>0, <2>2, <4>1
      <4>2. CASE t \in DOMAIN brokerLeft
        <5>1. PICK u \in SftpSessions, l \in Broker!Kinds : blob[u][l] = t
          BY <4>2 DEF BrokerInv, StoredInv
        <5>2. t # NoToken
          BY <4>2 DEF BrokerInv, StoresInv
        <5>3. ~(u = s /\ l = k)
          BY <1>0, <5>1, <5>2
        <5> QED
          BY <2>2, <5>1, <5>3 DEF Broker!Sessions
      <4> QED
        BY <2>1, <4>1, <4>2
    <3> QED
      BY <1>0, <2>2, <3>1 DEF BrokerInv, StoredInv, Broker!Sessions
  <2>5. ASSUME NEW t, NEW n \in Nat, Lasts(brokerLeft, t, n)
        PROVE  Lasts(brokerLeft', t, n)
    BY <2>1, <2>5, LastsKept DEF BrokerInv, StoresInv
  <2>6. LastsInv'
    <3>1. Lasts(brokerLeft', f, since[s])
      BY <2>1 DEF Lasts, BrokerInv, LastsInv
    <3> QED
      BY <1>0, <2>2, <2>5, <3>1 DEF BrokerInv, LastsInv, Broker!Sessions
  <2>7. OwnNothingInv'
    BY <1>0, <2>2 DEF BrokerInv, OwnNothingInv, Broker!Kinds, Broker!Sessions
  <2>8. HelpersInv'
    <3>1. \A u \in Broker!Sessions : brokerPc'[u] \in {"open", "closed"}
            \/ brokerPc[u] \in {"open", "closed"}
                => u # s /\ brokerPc'[u] = brokerPc[u] /\ blob'[u] = blob[u]
      BY <1>0, <1>2 DEF BrokerInv, OwnNothingInv, OwnersInv, Broker!Kinds
    <3>2. \A h \in Helpers : helper[h].age \in Nat
      BY DEF BrokerInv, HelpersInv, HelperType
    <3> QED
      BY <1>0, <2>5, <3>1, <3>2 DEF BrokerInv, HelpersInv, Broker!Sessions
  <2> QED
    BY <1>0, <2>1, <2>3, <2>4, <2>6, <2>7, <2>8 DEF BrokerInv, Broker!AnswersThePrompt
<1> QED
  BY <1>1, <1>2 DEF Broker!ProtectFor

\* A session that goes on building owns what it has protected.
LEMMA BuildKeeps ==
    ASSUME BrokerInv, NEW s \in Broker!Sessions,
           (\E K \in SUBSET Broker!Kinds : Broker!Build(s, K)) \/ Broker!Opened(s)
    PROVE  BrokerInv'
<1>1. CASE \E K \in SUBSET Broker!Kinds : Broker!Build(s, K)
  <2>1. /\ brokerPc[s] = "none" /\ brokerPc' = [brokerPc EXCEPT ![s] = "password"]
        /\ UNCHANGED <<brokerLeft, values, blob, since, helper, drawn>>
    BY <1>1 DEF Broker!Build
  <2>2. \A k \in Broker!Kinds : blob[s][k] = NoToken
    BY <2>1 DEF BrokerInv, OwnNothingInv
  <2> QED
    BY <2>1, <2>2, SessionGoesOn DEF BrokerInv, StoresInv
<1>2. CASE Broker!Opened(s)
  <2>1. /\ brokerPc[s] = "files" /\ brokerPc' = [brokerPc EXCEPT ![s] = "open"]
        /\ UNCHANGED <<brokerLeft, values, blob, since, helper, drawn>>
    BY <1>2 DEF Broker!Opened
  <2> QED
    BY <2>1, SessionGoesOn DEF BrokerInv, StoresInv
<1> QED
  BY <1>1, <1>2

\* An FTP session stores its password's value, within the limit.
LEMMA OpenFtpKeeps ==
    ASSUME BrokerInv, NEW s \in Broker!Sessions, Broker!OpenFtp(s)
    PROVE  BrokerInv'
<1> USE BrokerFacts
<1> DEFINE f == Broker!Fresh
<1>0. /\ s \in FtpSessions /\ s \notin SftpSessions /\ brokerPc[s] = "password"
      /\ f \in Tokens \ drawn /\ drawn' = drawn \cup {f} /\ UNCHANGED <<brokerLeft, since,
           helper>>
      /\ \A k \in Broker!Kinds : blob[s][k] = NoToken
  BY DEF Broker!OpenFtp, Broker!Fresh, BrokerInv, StoresInv, OwnNothingInv
<1>1. CASE brokerPc' = [brokerPc EXCEPT ![s] = "refused"] /\ UNCHANGED <<values, blob>>
  <2>1. drawn' \subseteq Tokens /\ drawn \subseteq drawn'
    BY <1>0 DEF BrokerInv, StoresInv
  <2> QED
    BY <1>0, <1>1, <2>1, SessionGoesOn
<1>2. CASE /\ Cardinality(values) < Limit /\ values' = values \cup {f}
           /\ blob' = [blob EXCEPT ![s]["password"] = f]
           /\ brokerPc' = [brokerPc EXCEPT ![s] = "open"]
  <2>1. StoresInv'
    <3>1. f \notin values
      BY <1>0 DEF BrokerInv, StoresInv
    <3>2. IsFiniteSet(values') /\ Cardinality(values') = Cardinality(values) + 1
            /\ Cardinality(values) \in Nat
      BY <1>2, <3>1, FS_AddElement, FS_CardinalityType DEF BrokerInv, StoresInv
    <3>3. Cardinality(values') <= Limit
      BY <1>2, <3>2
    <3> QED
      BY <1>0, <1>2, <3>2, <3>3 DEF BrokerInv, StoresInv
  <2>2. \A t \in Broker!Sessions, l \in Broker!Kinds :
           blob'[t][l] = (IF t = s /\ l = "password" THEN f ELSE blob[t][l])
    BY <1>2 DEF BrokerInv, OwnersInv
  <2>3. blob' \in [Broker!Sessions -> [Broker!Kinds -> Tokens \cup {NoToken}]]
    BY <1>0, <1>2 DEF BrokerInv, OwnersInv
  <2> HIDE DEF f
  <2>4. OwnersInv'
    BY <1>0, <2>2, <2>3 DEF BrokerInv, OwnersInv
  <2>5. "password" \in Broker!Kinds /\ SftpSessions \subseteq Broker!Sessions
          /\ FtpSessions \subseteq Broker!Sessions
    BY DEF Broker!Kinds, Broker!Sessions
  <2>6. StoredInv'
    <3>1. ASSUME NEW t \in values'
          PROVE  \E u \in FtpSessions, l \in Broker!Kinds : blob'[u][l] = t
      <4>1. CASE t = f
        BY <1>0, <2>2, <2>5, <4>1
      <4>2. CASE t \in values
        <5>1. PICK u \in FtpSessions, l \in Broker!Kinds : blob[u][l] = t
          BY <4>2 DEF BrokerInv, StoredInv
        <5>2. t # NoToken
          BY <4>2 DEF BrokerInv, StoresInv
        <5> QED
          BY <1>0, <2>2, <2>5, <5>1, <5>2
      <4> QED
        BY <1>2, <4>1, <4>2
    <3>2. \A u \in SftpSessions, l \in Broker!Kinds : blob'[u][l] = blob[u][l]
      BY <1>0, <2>2, <2>5
    <3> QED
      BY <1>0, <1>2, <2>2, <2>5, <3>1, <3>2 DEF BrokerInv, StoredInv
  <2>7. \A u \in SftpSessions : blob'[u] = blob[u] /\ brokerPc'[u] = brokerPc[u]
    BY <1>0, <1>2, <2>5 DEF BrokerInv, OwnersInv, OwnNothingInv
  <2>8. LastsInv' /\ OwnNothingInv'
    BY <1>0, <1>2, <2>2, <2>5, <2>7 DEF BrokerInv, LastsInv, OwnNothingInv
  <2>9. HelpersInv'
    BY <1>0, <2>7 DEF BrokerInv, HelpersInv
  <2> QED
    BY <1>0, <2>1, <2>4, <2>6, <2>8, <2>9 DEF BrokerInv, Broker!AnswersThePrompt
<1> QED
  BY <1>0, <1>1, <1>2, BrokerCardinality DEF Broker!OpenFtp

\* Closing an FTP session drops its values and nobody else's.
LEMMA CloseFtpKeeps ==
    ASSUME BrokerInv, NEW s \in Broker!Sessions, Broker!CloseFtp(s)
    PROVE  BrokerInv'
<1> USE BrokerFacts
<1>0. /\ s \in FtpSessions /\ s \notin SftpSessions /\ brokerPc[s] = "open"
      /\ brokerPc' = [brokerPc EXCEPT ![s] = "closed"] /\ values' = values \ Broker!OwnedBy(s)
      /\ blob' = [blob EXCEPT ![s] = [k \in Broker!Kinds |-> NoToken]]
      /\ UNCHANGED <<brokerLeft, drawn, since, helper>>
      /\ SftpSessions \subseteq Broker!Sessions /\ FtpSessions \subseteq Broker!Sessions
  BY DEF Broker!CloseFtp, Broker!Sessions
<1>1. StoresInv'
  <2>1. IsFiniteSet(values') /\ Cardinality(values') <= Cardinality(values)
        /\ Cardinality(values') \in Nat /\ Cardinality(values) \in Nat
    BY <1>0, FS_Subset, FS_CardinalityType DEF BrokerInv, StoresInv
  <2>2. Cardinality(values') <= Limit
    BY <2>1 DEF BrokerInv, StoresInv
  <2> QED
    BY <1>0, <2>1, <2>2 DEF BrokerInv, StoresInv
<1>2. \A t \in Broker!Sessions,
        k \in Broker!Kinds : blob'[t][k] = (IF t = s THEN NoToken ELSE blob[t][k])
  BY <1>0 DEF BrokerInv, OwnersInv
<1>3. blob' \in [Broker!Sessions -> [Broker!Kinds -> Tokens \cup {NoToken}]]
  BY <1>0 DEF BrokerInv, OwnersInv
<1>4. OwnersInv'
  BY <1>0, <1>2, <1>3 DEF BrokerInv, OwnersInv
<1>5. StoredInv'
  <2>1. ASSUME NEW t \in values'
        PROVE  \E u \in FtpSessions, l \in Broker!Kinds : blob'[u][l] = t
    <3>1. PICK u \in FtpSessions, l \in Broker!Kinds : blob[u][l] = t
      BY <1>0 DEF BrokerInv, StoredInv
    <3>2. t # NoToken /\ t \notin Broker!OwnedBy(s)
      BY <1>0 DEF BrokerInv, StoresInv
    <3>3. u # s
      BY <3>1, <3>2 DEF Broker!OwnedBy
    <3> QED
      BY <1>0, <1>2, <3>1, <3>3
  <2>2. ASSUME NEW u \in FtpSessions, NEW l \in Broker!Kinds, blob'[u][l] # NoToken
        PROVE  blob'[u][l] \in values'
    <3>1. u # s /\ blob'[u][l] = blob[u][l]
      BY <1>0, <1>2, <2>2
    <3>2. blob[u][l] \notin Broker!OwnedBy(s)
      BY <1>0, <2>2, <3>1 DEF BrokerInv, OwnersInv, Broker!OwnedBy
    <3> QED
      BY <1>0, <2>2, <3>1, <3>2 DEF BrokerInv, StoredInv
  <2>3. \A u \in SftpSessions, l \in Broker!Kinds : blob'[u][l] = blob[u][l]
    BY <1>0, <1>2
  <2> QED
    BY <1>0, <2>1, <2>2, <2>3 DEF BrokerInv, StoredInv
<1>6. \A u \in SftpSessions : blob'[u] = blob[u] /\ brokerPc'[u] = brokerPc[u]
  BY <1>0 DEF BrokerInv, OwnersInv, OwnNothingInv
<1>7. LastsInv' /\ OwnNothingInv'
  BY <1>0, <1>2, <1>6 DEF BrokerInv, LastsInv, OwnNothingInv
<1>8. HelpersInv'
  BY <1>0, <1>6 DEF BrokerInv, HelpersInv
<1> QED
  BY <1>0, <1>1, <1>4, <1>5, <1>7, <1>8 DEF BrokerInv, Broker!AnswersThePrompt

\* A helper whose prompt is over knows nothing.
LEMMA HelperStops ==
    ASSUME BrokerInv, NEW h \in Helpers, NEW r \in HelperType, r.at \in {"idle", "failed"},
           helper' = [helper EXCEPT ![h] = r],
           UNCHANGED <<brokerLeft, values, drawn, brokerPc, blob, since>>
    PROVE  BrokerInv'
<1>1. helper' \in [Helpers -> HelperType]
  BY DEF BrokerInv, HelpersInv
<1>2. StoresInv' /\ OwnersInv' /\ StoredInv' /\ LastsInv' /\ OwnNothingInv'
  BY DEF BrokerInv, StoresInv, OwnersInv, StoredInv, LastsInv, OwnNothingInv
<1>3. \A g \in Helpers : g # h => helper'[g] = helper[g]
  BY DEF BrokerInv, HelpersInv
<1>4. helper'[h] = r
  BY DEF BrokerInv, HelpersInv
<1>5. HelpersInv'
  BY <1>1, <1>3, <1>4 DEF BrokerInv, HelpersInv
<1>6. Broker!AnswersThePrompt'
  BY <1>3, <1>4 DEF BrokerInv, Broker!AnswersThePrompt
<1> QED
  BY <1>2, <1>5, <1>6 DEF BrokerInv

\* So is one that has failed.
LEMMA FailedType == [Broker!Idle EXCEPT !.at = "failed"] \in HelperType
  /\ [Broker!Idle EXCEPT !.at = "failed"].at = "failed"
  BY DEF Broker!Idle, HelperType, Broker!Kinds, Broker!Words

\* A helper that ends holds nothing.
LEMMA HelperEnds ==
    ASSUME BrokerInv, NEW h \in Helpers, Broker!TimesOut(h) \/ Broker!Exits(h)
    PROVE  BrokerInv'
  BY IdleType, FailedType, HelperStops DEF Broker!TimesOut, Broker!Exits

\* A helper begins with the tokens of the open session it works for.
LEMMA AsksKeeps ==
    ASSUME BrokerInv, NEW h \in Helpers, NEW s \in SftpSessions, Broker!Asks(h, s)
    PROVE  BrokerInv'
<1> DEFINE r == [Broker!Idle EXCEPT !.at = "password", !.for = s, !.blob = blob[s]]
<1>1. /\ brokerPc[s] = "open" /\ helper' = [helper EXCEPT ![h] = r]
      /\ UNCHANGED <<brokerLeft, values, drawn, brokerPc, blob, since>>
  BY DEF Broker!Asks
<1>2. r \in HelperType /\ r.at = "password" /\ r.for = s /\ r.blob = blob[s]
  BY DEF BrokerInv, OwnersInv, Broker!Idle, HelperType, Broker!Kinds, Broker!Words,
     Broker!Sessions
<1> HIDE DEF r
<1>3. StoresInv' /\ OwnersInv' /\ StoredInv' /\ LastsInv' /\ OwnNothingInv'
  BY <1>1 DEF BrokerInv, StoresInv, OwnersInv, StoredInv, LastsInv, OwnNothingInv
<1>4. helper' \in [Helpers -> HelperType] /\ helper'[h] = r /\ \A g \in Helpers : g # h
        => helper'[g] = helper[g]
  BY <1>1, <1>2 DEF BrokerInv, HelpersInv
<1>5. HelpersInv'
  BY <1>1, <1>2, <1>4 DEF BrokerInv, HelpersInv, AskedFor
<1>6. Broker!AnswersThePrompt'
  BY <1>2, <1>4 DEF BrokerInv, Broker!AnswersThePrompt
<1> QED
  BY <1>3, <1>5, <1>6 DEF BrokerInv

\* A secret that is asked for is there and lasts anew, or there was none.
LEMMA AskedKeeps ==
    ASSUME BrokerInv, NEW h \in Helpers, NEW k \in Broker!Kinds, Broker!Served(h, k)
           \/ Broker!NotAsked(h, k)
    PROVE  BrokerInv'
<1> USE BrokerFacts
<1> DEFINE t == helper[h].blob[k]
<1>0. /\ helper[h].at = k /\ UNCHANGED <<values, drawn, brokerPc, blob, since>>
      /\ Broker!NextKind[k] = (IF k = "password" THEN "passphrase" ELSE "files")
      /\ k \in {"password", "passphrase"} /\ helper[h] \in HelperType
  BY DEF Broker!Served, Broker!NotAsked, Broker!NextKind, Broker!Kinds, BrokerInv, HelpersInv
<1>1. /\ helper' \in [Helpers -> HelperType] /\ \A g \in Helpers : g # h => helper'[g] = helper[g]
      /\ helper'[h].at = Broker!NextKind[k] /\ helper'[h].for = helper[h].for
      /\ helper'[h].blob = helper[h].blob /\ helper'[h].age = helper[h].age
  <2>1. CASE helper' = [helper EXCEPT ![h].at = Broker!NextKind[k], ![h].got = @ \cup {k}]
    BY <1>0, <2>1 DEF BrokerInv, HelpersInv, HelperType
  <2>2. CASE helper' = [helper EXCEPT ![h].at = Broker!NextKind[k]]
    BY <1>0, <2>2 DEF BrokerInv, HelpersInv, HelperType
  <2> QED
    BY <2>1, <2>2 DEF Broker!Served, Broker!NotAsked
<1>2. /\ \A u \in DOMAIN brokerLeft : brokerLeft[u] > 0 =>
            u \in DOMAIN brokerLeft' /\ brokerLeft'[u] \in Nat
            /\ (brokerLeft'[u] >= brokerLeft[u] \/ brokerLeft'[u] = TTL + 1)
      /\ t # NoToken => t \in DOMAIN brokerLeft' /\ brokerLeft'[t] = TTL + 1
      /\ StoresInv' /\ DOMAIN brokerLeft' \subseteq DOMAIN brokerLeft
  <2>1. CASE Broker!NotAsked(h, k)
    BY <2>1 DEF Broker!NotAsked, BrokerInv, StoresInv
  <2>2. CASE Broker!Served(h, k)
    <3>1. t \in DOMAIN Broker!Purged /\ brokerLeft' = [Broker!Purged EXCEPT ![t] = TTL + 1]
      BY <2>2 DEF Broker!Served
    <3>2. /\ DOMAIN Broker!Purged \subseteq DOMAIN brokerLeft
          /\ \A u \in DOMAIN Broker!Purged : Broker!Purged[u] = brokerLeft[u]
          /\ \A u \in DOMAIN brokerLeft : brokerLeft[u] > 0 => u \in DOMAIN Broker!Purged
      BY DEF Broker!Purged
    <3>3. DOMAIN brokerLeft' = DOMAIN Broker!Purged /\ brokerLeft'[t] = TTL + 1
          /\ \A u \in DOMAIN Broker!Purged : u # t => brokerLeft'[u] = brokerLeft[u]
      BY <3>1, <3>2 DEF Broker!Purged
    <3>4. \A u \in DOMAIN brokerLeft' : brokerLeft'[u] \in Nat
      BY <3>2, <3>3 DEF BrokerInv, StoresInv
    <3>5. StoresInv'
      <4>1. IsFiniteSet(DOMAIN brokerLeft') /\ Cardinality(DOMAIN brokerLeft') \in Nat
            /\ Cardinality(DOMAIN brokerLeft') <= Cardinality(DOMAIN brokerLeft)
                 /\ Cardinality(DOMAIN brokerLeft) \in Nat
        BY <3>2, <3>3, FS_Subset, FS_CardinalityType DEF BrokerInv, StoresInv
      <4>2. Cardinality(DOMAIN brokerLeft') <= Limit
        BY <4>1 DEF BrokerInv, StoresInv
      <4>3. brokerLeft' \in [DOMAIN brokerLeft' -> Nat]
        BY <3>1, <3>4 DEF Broker!Purged
      <4> QED
        BY <1>0, <3>2, <3>3, <4>1, <4>2, <4>3 DEF BrokerInv, StoresInv
    <3>6. ASSUME NEW u \in DOMAIN brokerLeft, brokerLeft[u] > 0
          PROVE  u \in DOMAIN brokerLeft' /\ brokerLeft'[u] \in Nat
                 /\ (brokerLeft'[u] >= brokerLeft[u] \/ brokerLeft'[u] = TTL + 1)
      <4>1. u \in DOMAIN brokerLeft' /\ brokerLeft[u] \in Nat
        BY <3>2, <3>3, <3>6 DEF BrokerInv, StoresInv
      <4>2. brokerLeft'[u] = brokerLeft[u] \/ brokerLeft'[u] = TTL + 1
        BY <3>3, <4>1
      <4> QED
        BY <3>4, <4>1, <4>2
    <3> QED
      BY <3>1, <3>2, <3>3, <3>5, <3>6
  <2> QED
    BY <2>1, <2>2
<1>3. ASSUME NEW u, NEW n \in Nat, Lasts(brokerLeft, u, n)
      PROVE  Lasts(brokerLeft', u, n)
  BY <1>2, <1>3, LastsKept DEF BrokerInv
<1>4. ASSUME NEW n \in Nat, t # NoToken
      PROVE  Lasts(brokerLeft', t, n)
  BY <1>2, <1>4 DEF Lasts
<1>5. OwnersInv' /\ StoredInv' /\ OwnNothingInv'
  <2>1. OwnersInv'
    BY <1>0 DEF BrokerInv, OwnersInv
  <2>2. StoredInv'
    <3>1. StoredInv /\ blob' = blob /\ values' = values
            /\ DOMAIN brokerLeft' \subseteq DOMAIN brokerLeft
      BY <1>0, <1>2 DEF BrokerInv
    <3> QED
      BY ONLY <3>1 DEF StoredInv
  <2>3. OwnNothingInv'
    BY <1>0 DEF BrokerInv, OwnNothingInv
  <2> QED
    BY <2>1, <2>2, <2>3
<1>6. LastsInv'
  BY <1>0, <1>3 DEF BrokerInv, LastsInv, Broker!Sessions
<1>7. HelpersInv'
  <2>1. AskedFor(helper'[h].at) \subseteq AskedFor(helper[h].at) \cup {k}
    BY <1>0, <1>1 DEF AskedFor, Broker!Kinds
  <2>2. \A g \in Helpers : helper[g].age \in Nat
    BY DEF BrokerInv, HelpersInv, HelperType
  <2>3. ASSUME brokerPc[helper[h].for] = "open"
        PROVE  \A l \in AskedFor(helper'[h].at) : helper[h].blob[l] # NoToken
               => Lasts(brokerLeft', helper[h].blob[l], helper[h].age)
    BY <1>0, <1>3, <1>4, <2>1, <2>2, <2>3 DEF BrokerInv, HelpersInv
  <2>4. \A g \in Helpers : helper[g].at \in {"password", "passphrase", "files"}
          /\ brokerPc[helper[g].for] = "open" =>
           \A l \in AskedFor(helper[g].at) : helper[g].blob[l] # NoToken
             => Lasts(brokerLeft', helper[g].blob[l], helper[g].age)
    BY <1>3, <2>2 DEF BrokerInv, HelpersInv
  <2> QED
    BY <1>0, <1>1, <2>3, <2>4 DEF BrokerInv, HelpersInv
<1>8. Broker!AnswersThePrompt'
  BY <1>0, <1>1 DEF BrokerInv, Broker!AnswersThePrompt
<1> QED
  BY <1>2, <1>5, <1>6, <1>7, <1>8 DEF BrokerInv

\* An answer that there is no such secret purges what is out of date.
LEMMA UnknownKeeps ==
    ASSUME BrokerInv, NEW h \in Helpers, NEW k \in Broker!Kinds, Broker!Unknown(h, k)
    PROVE  BrokerInv'
<1> DEFINE r == [Broker!Idle EXCEPT !.at = "failed"]
           D == DOMAIN Broker!Purged
<1>1. /\ helper' = [helper EXCEPT ![h] = r] /\ UNCHANGED <<values, drawn, brokerPc, blob, since>>
      /\ brokerLeft' = [t \in D |-> brokerLeft[t]] /\ D \subseteq DOMAIN brokerLeft
      /\ \A t \in DOMAIN brokerLeft : brokerLeft[t] > 0 => t \in D
  BY DEF Broker!Unknown, Broker!Purged
<1>2. StoresInv'
  BY <1>1, LeftShrinks DEF BrokerInv
<1>3. ASSUME NEW u, NEW n \in Nat, Lasts(brokerLeft, u, n)
      PROVE  Lasts(brokerLeft', u, n)
  <2>1. u \in DOMAIN brokerLeft /\ brokerLeft[u] > 0 =>
           u \in DOMAIN brokerLeft' /\ brokerLeft'[u] = brokerLeft[u] /\ brokerLeft[u] \in Nat
    BY <1>1 DEF BrokerInv, StoresInv
  <2> QED
    BY <1>3, <2>1, LastsKept DEF BrokerInv
<1>4. OwnersInv' /\ StoredInv' /\ OwnNothingInv'
  <2>1. OwnersInv'
    BY <1>1 DEF BrokerInv, OwnersInv
  <2>2. StoredInv'
    BY <1>1 DEF BrokerInv, StoredInv
  <2>3. OwnNothingInv'
    BY <1>1 DEF BrokerInv, OwnNothingInv
  <2> QED
    BY <2>1, <2>2, <2>3
<1>5. LastsInv'
  BY <1>1, <1>3 DEF BrokerInv, LastsInv, Broker!Sessions
<1>6. /\ helper' \in [Helpers -> HelperType] /\ helper'[h].at = "failed"
      /\ \A g \in Helpers : g # h => helper'[g] = helper[g]
  BY <1>1, FailedType DEF BrokerInv, HelpersInv
<1>7. HelpersInv'
  <2>1. \A g \in Helpers : helper[g].age \in Nat
    BY DEF BrokerInv, HelpersInv, HelperType
  <2>2. \A g \in Helpers : helper[g].at \in {"password", "passphrase", "files"}
          /\ brokerPc[helper[g].for] = "open" =>
           \A l \in AskedFor(helper[g].at) : helper[g].blob[l] # NoToken
             => Lasts(brokerLeft', helper[g].blob[l], helper[g].age)
    BY <1>3, <2>1 DEF BrokerInv, HelpersInv
  <2> QED
    BY <1>1, <1>6, <2>2 DEF BrokerInv, HelpersInv
<1>8. Broker!AnswersThePrompt'
  BY <1>6 DEF BrokerInv, Broker!AnswersThePrompt
<1> QED
  BY <1>2, <1>4, <1>5, <1>7, <1>8 DEF BrokerInv

\* The secret a prompt is answered with is the one it names.
LEMMA SelectFacts ==
    ASSUME NEW words \in SUBSET Broker!Words, NEW got \in SUBSET Broker!Kinds
    PROVE  LET a == Broker!selectAskpassSecret(words, got) IN
           /\ a \in {"none", "password", "passphrase"}
           /\ a # "none" => a \in words /\ "code" \notin words /\ ("passphrase" \in words
                => a = "passphrase")
  BY DEF Broker!selectAskpassSecret

\* A helper answers a prompt with the secret it was asked for.
LEMMA AnswersKeep ==
    ASSUME BrokerInv, NEW h \in Helpers, NEW P \in SUBSET Broker!Words, Broker!Answers(h, P)
    PROVE  BrokerInv'
<1> DEFINE a == Broker!selectAskpassSecret(P, helper[h].got)
           s == helper[h].for
           good == [Broker!Idle EXCEPT !.at = "done", !.words = P, !.answer = a]
           r == IF a = "none" THEN [Broker!Idle EXCEPT !.at = "failed"] ELSE good
<1>1. /\ helper[h].at = "files" /\ helper' = [helper EXCEPT ![h] = r]
      /\ since' = [since EXCEPT ![s] = IF a # "none"
           /\ helper[h].age < @ THEN helper[h].age ELSE @]
      /\ UNCHANGED <<brokerLeft, values, drawn, brokerPc, blob>>
  BY DEF Broker!Answers
<1>2. helper[h] \in HelperType /\ helper[h].got \in SUBSET Broker!Kinds /\ helper[h].age \in Nat
  BY DEF BrokerInv, HelpersInv, HelperType
<1>3. /\ a \in {"none", "password", "passphrase"}
      /\ a # "none" => a \in P /\ "code" \notin P /\ ("passphrase" \in P => a = "passphrase")
  BY <1>2, SelectFacts
<1> HIDE DEF a
<1>4. r \in HelperType /\ r.at \in {"done", "failed"} /\ (r.at = "done" => a # "none"
        /\ r.words = P /\ r.answer = a)
  <2>1. CASE a = "none"
    BY <2>1, FailedType
  <2>2. CASE a # "none"
    BY <1>3, <2>2 DEF Broker!Idle, HelperType, Broker!Kinds, Broker!Words
  <2> QED
    BY <2>1, <2>2
<1> HIDE DEF r
<1>5. helper' \in [Helpers -> HelperType] /\ helper'[h] = r /\ \A g \in Helpers : g # h
        => helper'[g] = helper[g]
  BY <1>1, <1>4 DEF BrokerInv, HelpersInv
<1>6. Broker!AnswersThePrompt'
  BY <1>3, <1>4, <1>5 DEF BrokerInv, Broker!AnswersThePrompt
<1>7. HelpersInv'
  BY <1>1, <1>4, <1>5 DEF BrokerInv, HelpersInv
<1>8. StoresInv' /\ OwnersInv' /\ StoredInv' /\ OwnNothingInv'
  BY <1>1 DEF BrokerInv, StoresInv, OwnersInv, StoredInv, OwnNothingInv
<1>9. LastsInv'
  <2>1. s \in SftpSessions /\ s \in Broker!Sessions /\ since[s] \in Nat
    BY <1>1 DEF BrokerInv, HelpersInv, LastsInv, Broker!Sessions
  <2>2. since' \in [Broker!Sessions -> Nat] /\ (since'[s] = since[s] \/ since'[s] = helper[h].age)
        /\ \A u \in Broker!Sessions : u # s => since'[u] = since[u]
    BY <1>1, <1>2, <2>1 DEF BrokerInv, LastsInv
  <2>3. ASSUME NEW k \in Broker!Kinds, blob[s][k] # NoToken
        PROVE  Lasts(brokerLeft, blob[s][k], since[s])
               /\ Lasts(brokerLeft, blob[s][k], helper[h].age)
    <3>1. brokerPc[s] = "open"
      BY <1>1, <2>1, <2>3 DEF BrokerInv, HelpersInv, OwnNothingInv
    <3>2. helper[h].blob = blob[s] /\ Lasts(brokerLeft, helper[h].blob[k], helper[h].age)
      BY <1>1, <2>3, <3>1 DEF BrokerInv, HelpersInv, AskedFor
    <3> QED
      BY <2>1, <2>3, <3>2 DEF BrokerInv, LastsInv
  <2> HIDE DEF s
  <2>4. ASSUME NEW u \in SftpSessions, NEW k \in Broker!Kinds, blob[u][k] # NoToken
        PROVE  Lasts(brokerLeft, blob[u][k], since'[u])
    <3>1. CASE u = s
      BY <2>2, <2>3, <2>4, <3>1
    <3>2. CASE u # s
      BY <2>2, <2>4, <3>2 DEF BrokerInv, LastsInv, Broker!Sessions
    <3> QED
      BY <3>1, <3>2
  <2> QED
    BY <1>1, <2>2, <2>4 DEF LastsInv
<1> QED
  BY <1>6, <1>7, <1>8, <1>9 DEF BrokerInv

\* Time takes one from every entry, and from what everybody relies on.
LEMMA TickKeeps ==
    ASSUME BrokerInv, Broker!Tick
    PROVE  BrokerInv'
<1> USE BrokerFacts
<1>1. /\ brokerLeft' = [t \in DOMAIN brokerLeft |-> IF brokerLeft[t] > 0 THEN brokerLeft[t] - 1 ELSE 0]
      /\ UNCHANGED <<values, drawn, brokerPc, blob>>
  BY DEF Broker!Tick
<1>2. StoresInv' /\ OwnersInv' /\ StoredInv' /\ OwnNothingInv'
  BY <1>1 DEF BrokerInv, StoresInv, OwnersInv, StoredInv, OwnNothingInv
<1>3. ASSUME NEW t, NEW n \in Nat, Lasts(brokerLeft, t, n)
      PROVE  Lasts(brokerLeft', t, Broker!Up(n))
  <2>1. ASSUME Broker!Up(n) <= TTL
        PROVE  t \in DOMAIN brokerLeft' /\ brokerLeft'[t] + Broker!Up(n) >= TTL + 1
    <3>1. n <= TTL /\ Broker!Up(n) = n + 1
      BY <2>1 DEF Broker!Up
    <3>2. t \in DOMAIN brokerLeft /\ brokerLeft[t] + n >= TTL + 1 /\ brokerLeft[t] \in Nat
      BY <1>3, <3>1 DEF Lasts, BrokerInv, StoresInv
    <3>3. brokerLeft'[t] = brokerLeft[t] - 1
      BY <1>1, <3>1, <3>2
    <3> QED
      BY <1>1, <3>1, <3>2, <3>3
  <2> QED
    BY <2>1 DEF Lasts
<1>4. \A n \in Nat : Broker!Up(n) \in Nat
  BY DEF Broker!Up
<1>5. LastsInv'
  <2>1. since' = [s \in Broker!Sessions |->
           IF s \in SftpSessions /\ brokerPc[s] \in Broker!Kinds \cup {"files", "open"}
           THEN Broker!Up(since[s]) ELSE 0]
    BY DEF Broker!Tick
  <2>2. since' \in [Broker!Sessions -> Nat]
    BY <1>4, <2>1 DEF BrokerInv, LastsInv
  <2>3. ASSUME NEW s \in SftpSessions, NEW k \in Broker!Kinds, blob[s][k] # NoToken
        PROVE  Lasts(brokerLeft', blob[s][k], since'[s])
    <3>1. s \in Broker!Sessions /\ brokerPc[s] \in Broker!Kinds \cup {"files", "open"}
      BY <2>3 DEF BrokerInv, OwnNothingInv, Broker!Sessions, Broker!Kinds
    <3>2. since'[s] = Broker!Up(since[s]) /\ since[s] \in Nat
            /\ Lasts(brokerLeft, blob[s][k], since[s])
      BY <2>1, <2>3, <3>1 DEF BrokerInv, LastsInv
    <3> QED
      BY <1>3, <3>2
  <2> QED
    BY <1>1, <2>2, <2>3 DEF LastsInv
<1>6. ASSUME NEW h \in Helpers
      PROVE  /\ helper'[h] \in HelperType
             /\ helper'[h].at = helper[h].at /\ helper'[h].for = helper[h].for
                  /\ helper'[h].blob = helper[h].blob
             /\ helper'[h].words = helper[h].words /\ helper'[h].answer = helper[h].answer
             /\ helper[h].at \in {"password", "passphrase", "files"}
                  => helper'[h].age = Broker!Up(helper[h].age)
  <2>1. helper'[h] = (IF helper[h].at \in Broker!Kinds \cup {"files"}
                      THEN [helper[h] EXCEPT !.age = Broker!Up(@)] ELSE helper[h])
                        /\ helper[h] \in HelperType
    BY DEF Broker!Tick, BrokerInv, HelpersInv
  <2>2. Broker!Up(helper[h].age) \in Nat
    BY <1>4, <2>1 DEF HelperType
  <2>3. CASE helper[h].at \in {"password", "passphrase", "files"}
    BY <2>1, <2>2, <2>3 DEF HelperType, Broker!Kinds
  <2>4. CASE helper[h].at \notin {"password", "passphrase", "files"}
    BY <2>1, <2>4 DEF Broker!Kinds
  <2> QED
    BY <2>3, <2>4
<1>7. HelpersInv'
  <2>1. helper' \in [Helpers -> HelperType]
    BY <1>6 DEF Broker!Tick
  <2>2. \A h \in Helpers : helper[h].age \in Nat
    BY DEF BrokerInv, HelpersInv, HelperType
  <2>3. ASSUME NEW h \in Helpers, helper[h].at \in {"password", "passphrase", "files"},
               brokerPc[helper[h].for] = "open", NEW k \in AskedFor(helper[h].at),
                 helper[h].blob[k] # NoToken
        PROVE  Lasts(brokerLeft', helper[h].blob[k], Broker!Up(helper[h].age))
    BY <1>3, <2>2, <2>3 DEF BrokerInv, HelpersInv
  <2>4. ASSUME NEW h \in Helpers, helper'[h].at \in {"password", "passphrase", "files"}
        PROVE  /\ helper'[h].for \in SftpSessions
                  /\ brokerPc'[helper'[h].for] \in {"open", "closed"}
               /\ brokerPc'[helper'[h].for] = "open" =>
                     /\ helper'[h].blob = blob'[helper'[h].for]
                     /\ \A k \in AskedFor(helper'[h].at) : helper'[h].blob[k] # NoToken =>
                           Lasts(brokerLeft', helper'[h].blob[k], helper'[h].age)
    <3>1. /\ helper[h].at \in {"password", "passphrase", "files"} /\ helper'[h].at = helper[h].at
          /\ helper'[h].for = helper[h].for /\ helper'[h].blob = helper[h].blob
          /\ helper'[h].age = Broker!Up(helper[h].age)
      BY <1>6, <2>4
    <3>2. /\ helper[h].for \in SftpSessions /\ brokerPc[helper[h].for] \in {"open", "closed"}
          /\ brokerPc[helper[h].for] = "open" => helper[h].blob = blob[helper[h].for]
      BY <3>1 DEF BrokerInv, HelpersInv
    <3> QED
      BY <1>1, <2>3, <3>1, <3>2
  <2> QED
    BY <2>1, <2>4 DEF HelpersInv
<1>8. Broker!AnswersThePrompt'
  BY <1>6 DEF BrokerInv, Broker!AnswersThePrompt
<1> QED
  BY <1>2, <1>5, <1>7, <1>8 DEF BrokerInv

\* Every step of sessions, helpers and time keeps the invariant.
LEMMA BrokerSteps ==
    ASSUME BrokerInv, [Broker!Next]_(Broker!vars)
    PROVE  BrokerInv'
<1>1. CASE UNCHANGED Broker!vars
  BY <1>1 DEF Broker!vars, BrokerInv, StoresInv, OwnersInv, StoredInv, LastsInv, OwnNothingInv,
     HelpersInv,
     Broker!AnswersThePrompt
<1>2. CASE Broker!Next
  BY <1>2, BuildKeeps, ProtectSecretKeeps, EndsKeep, OpenFtpKeeps, CloseFtpKeeps, AsksKeeps,
     AskedKeeps, UnknownKeeps,
     AnswersKeep, HelperEnds, TickKeeps DEF Broker!Next, Broker!HelperStep
<1> QED
  BY <1>1, <1>2

(***************************************************************************)
(* The engine: whose session a transfer uses                               *)
(***************************************************************************)

\* The callers of this engine: a link's and the user's.
EngineCallers == {link, user}
\* A caller of the user has looked the connection up, and goes on with it.
LookupPlaces == {"reserveCheck", "held", "retryCheck"}
\* A caller waits until the workers are gone.
WaitPlaces == {"waitCheck", "waiting", "drained"}

\* The types of what the proof is about.
EngineTypes ==
    /\ status \in [QueueJobs -> {"fresh", "minted"} \cup Engine!Q!Listed]
    /\ jobConn \in [QueueJobs -> Servers \cup {NoAccount}]
    /\ wpc \in [QueueJobs -> Engine!Q!Places]
    /\ stopped \in SUBSET QueueJobs
    /\ accepting \in BOOLEAN /\ closed \in BOOLEAN
    /\ generation \in Nat /\ workers \in Nat /\ unwinding \in Nat /\ exiting \in Nat
    /\ cpc \in [EngineCallers -> Engine!Q!CallerPlaces]
    /\ cgen \in [EngineCallers -> Nat]
    /\ cbatch \in [EngineCallers -> SUBSET QueueJobs]
    /\ cconn \in [EngineCallers -> Servers \cup {NoAccount}]
    /\ session \in Attached \cup {NoSession}
    /\ acct \in [Attached -> Servers \cup {NoAccount}]
    /\ engineCall.acct \in Servers \cup {NoAccount}
    /\ opSession \in [QueueJobs -> Attached \cup {NoSession}]
    /\ epc \in [{link} -> {"idle", "connect", "enable", "drain", "leave", "leaving"}]

\* Where a link is, in the session manager and in the queue, and what it has done: no
\* session is replaced while the queue accepts jobs.
LinkInv ==
    /\ epc[link] = "connect" <=> enginePc \in {"resolve", "open", "probe"}
    /\ epc[link] = "leaving" <=> enginePc \in {"cancel", "waiting", "disconnected"}
    /\ epc[link] = "drain" <=> cpc[link] \in WaitPlaces
    /\ cpc[link] \in {"idle", "pump"} \cup WaitPlaces
    /\ cpc[user] \notin WaitPlaces
    /\ enginePc # "scan"
    /\ epc[link] = "connect" => session = NoSession
    /\ epc[link] = "enable" => session # NoSession
    /\ epc[link] \in {"connect", "enable"} => (accepting => generation = 0)
    /\ epc[link] \in {"drain", "leave", "leaving"} => ~accepting
    /\ Engine!EnabledHasSession

\* Running jobs have their goroutines, those in a transfer their session, and while jobs
\* are accepted every one of them is of the attached session's account.
WorkInv ==
    /\ \A j \in QueueJobs : wpc[j] # "idle" <=> status[j] = "running"
    /\ cancels = Engine!Q!Running
    /\ \A j \in QueueJobs : wpc[j] = "transfer" <=> opSession[j] # NoSession
    /\ \A j \in QueueJobs : wpc[j] = "transfer" /\ j \notin stopped => opSession[j] = session
    /\ Engine!Q!QuietWhenDisabled
    /\ accepting => \A j \in Engine!Q!Queued \cup (Engine!Q!Running \ stopped) :
            session # NoSession /\ jobConn[j] = acct[session]

\* What the user's caller has looked up is true as long as the generation is the same.
AskInv ==
    /\ \A j \in cbatch[user] : status[j] = "minted"
    /\ cgen[user] <= generation
    /\ cpc[user] \in LookupPlaces /\ cgen[user] = generation /\ accepting =>
          session # NoSession /\ cconn[user] = acct[session]

\* Workers are counted until they have gone.
CountInv ==
    /\ workers = Cardinality(Engine!Q!Running) + unwinding + exiting
    /\ cpc[link] = "drained" => workers = 0

\* The inductive invariant of the engine.
EngineInv == EngineTypes /\ LinkInv /\ WorkInv /\ AskInv /\ CountInv

\* The constants of the engine.
LEMMA EngineConstants ==
    IsFiniteSet(QueueJobs) /\ user # link /\ NoAccount \notin Servers /\ NoSession \notin Attached
  BY TransfersAssumption DEF Engine!EngineAssumption, Engine!IsFiniteSet, IsFiniteSet

\* An instance's view of cardinality is the module's own.
LEMMA SameCard == \A S : Engine!Q!Cardinality(S) = Cardinality(S)
  BY DEF Engine!Q!Cardinality, Cardinality

\* Nothing runs and nothing is attached at the start.
LEMMA EngineStarts ==
    ASSUME Engine!Init
    PROVE  EngineInv
<1> USE EngineConstants DEF Engine!Init, Engine!Q!Init, Engine!R!Init, Engine!Q!Running,
      Engine!Q!Queued, Engine!Q!WithStatus
<1>1. EngineTypes
  BY DEF EngineTypes, Engine!Q!Places, Engine!Q!CallerPlaces, Engine!R!NoCall, EngineCallers
<1>2. LinkInv
  BY DEF LinkInv, WaitPlaces, Engine!EnabledHasSession
<1>3. WorkInv
  BY DEF WorkInv, Engine!Q!QuietWhenDisabled
<1>4. AskInv
  BY DEF AskInv, LookupPlaces
<1>5. CountInv
  <2>1. Engine!Q!Running = {}
    OBVIOUS
  <2>2. Cardinality(Engine!Q!Running) = 0
    BY ONLY <2>1, FS_EmptySet
  <2> QED
    BY <2>2 DEF CountInv
<1> QED
  BY <1>1, <1>2, <1>3, <1>4, <1>5 DEF EngineInv

\* The session manager moves and the queue does not.
LEMMA SessionMoves ==
    ASSUME EngineInv, UNCHANGED Engine!queueVars, EngineTypes', LinkInv',
           session' # session => (accepting => session = NoSession),
           session # NoSession /\ session' = session => acct'[session] = acct[session],
           opSession' = opSession
    PROVE  EngineInv'
<1> USE DEF EngineInv, Engine!queueVars, Engine!Q!Running, Engine!Q!Queued, Engine!Q!WithStatus
<1>1. WorkInv'
  BY DEF WorkInv, Engine!Q!QuietWhenDisabled, EngineTypes
<1>2. AskInv'
  BY DEF AskInv, LookupPlaces
<1>3. CountInv'
  BY DEF CountInv
<1> QED
  BY <1>1, <1>2, <1>3

\* A link connects while the queue refuses jobs.
LEMMA ConnectKeeps ==
    ASSUME EngineInv,
           \/ \E a \in Servers : Engine!Connect(link, a)
           \/ Engine!ConnectFails(link) \/ Engine!Connected(link) \/ Engine!Connecting
    PROVE  EngineInv'
<1> USE EngineConstants DEF EngineInv
<1>1. ASSUME NEW a \in Servers, Engine!Connect(link, a)
      PROVE  EngineInv'
  <2> USE <1>1 DEF Engine!Connect, Engine!Goto, Engine!R!ConnectBegin, Engine!R!sessVars,
        Engine!R!opVars, Engine!queueVars
  <2>1. EngineTypes'
    BY DEF EngineTypes, Engine!CallTo, Engine!R!NoCall
  <2>2. LinkInv'
    BY DEF EngineTypes, LinkInv, Engine!EnabledHasSession
  <2> QED
    BY <2>1, <2>2, SessionMoves
<1>2. CASE Engine!ConnectFails(link)
  <2> USE <1>2 DEF Engine!ConnectFails, Engine!Goto, Engine!R!ConnectFails,
        Engine!R!ProbeFails, Engine!R!ReturnFromConnect, Engine!R!EndCall, Engine!R!sessVars,
        Engine!R!opVars, Engine!queueVars
  <2>1. EngineTypes'
    <3>1. engineCall' = Engine!R!NoCall
      OBVIOUS
    <3>2. UNCHANGED <<Engine!queueVars, session, acct, opSession>>
      OBVIOUS
    <3>3. epc' = [epc EXCEPT ![link] = "idle"]
      OBVIOUS
    <3>4. engineCall'.acct = NoAccount
      BY ONLY <3>1 DEF Engine!R!NoCall
    <3> QED
      BY ONLY EngineTypes, <3>2, <3>3, <3>4 DEF EngineTypes, Engine!queueVars
  <2>2. LinkInv'
    BY DEF EngineTypes, LinkInv, Engine!EnabledHasSession
  <2> QED
    BY <2>1, <2>2, SessionMoves
<1>3. CASE Engine!Connected(link)
  <2> USE <1>3 DEF Engine!Connected, Engine!Goto, Engine!R!Publish, Engine!R!ReturnFromConnect,
        Engine!R!EndCall, Engine!R!sessVars, Engine!R!opVars, Engine!queueVars
  <2>1. EngineTypes'
    <3>1. session' \in Attached /\ engineCall'.acct = NoAccount
      <4>1. session' \in Attached /\ engineCall' = Engine!R!NoCall
        OBVIOUS
      <4> QED
        BY ONLY <4>1 DEF Engine!R!NoCall
    <3>2. UNCHANGED <<Engine!queueVars, acct, opSession>>
      OBVIOUS
    <3>3. epc' = [epc EXCEPT ![link] = "enable"]
      OBVIOUS
    <3> QED
      BY ONLY EngineTypes, <3>1, <3>2, <3>3 DEF EngineTypes, Engine!queueVars
  <2>2. LinkInv'
    BY DEF EngineTypes, LinkInv, Engine!EnabledHasSession
  <2> QED
    BY <2>1, <2>2, SessionMoves DEF LinkInv
<1>4. CASE Engine!Connecting /\ Engine!R!Resolve({})
  <2> USE <1>4 DEF Engine!Connecting, Engine!R!Resolve, Engine!R!sessVars, Engine!R!opVars,
        Engine!queueVars
  <2>1. EngineTypes'
    BY DEF EngineTypes
  <2>2. LinkInv'
    BY DEF EngineTypes, LinkInv, Engine!EnabledHasSession
  <2> QED
    BY <2>1, <2>2, SessionMoves
<1>5. ASSUME NEW s \in Attached, Engine!Connecting /\ Engine!R!OpenSession(s, <<>>)
      PROVE  EngineInv'
  <2> USE <1>5 DEF Engine!Connecting, Engine!R!OpenSession, Engine!R!opVars, Engine!queueVars
  <2>1. EngineTypes'
    BY DEF EngineTypes
  <2>2. LinkInv'
    BY DEF EngineTypes, LinkInv, Engine!EnabledHasSession
  <2> QED
    BY <2>1, <2>2, SessionMoves DEF LinkInv
<1> QED
  BY <1>1, <1>2, <1>3, <1>4, <1>5 DEF Engine!Connecting

\* A link leaves when the queue has been stopped.
LEMMA LeaveKeeps ==
    ASSUME EngineInv, Engine!Leave(link) \/ Engine!Leaving \/ Engine!Left(link)
    PROVE  EngineInv'
<1> USE EngineConstants DEF EngineInv, Engine!queueVars, Engine!R!sessVars, Engine!R!opVars,
      Engine!R!callVars
<1>1. CASE Engine!Leave(link)
  <2> USE <1>1 DEF Engine!Leave, Engine!Goto, Engine!R!DisconnectBegin, Engine!R!DisconnectAgain
  <2>1. EngineTypes'
    BY DEF EngineTypes
  <2>2. LinkInv'
    BY DEF EngineTypes, LinkInv, Engine!EnabledHasSession
  <2> QED
    BY <2>1, <2>2, SessionMoves DEF LinkInv
<1>2. CASE Engine!Leaving
  <2> USE <1>2 DEF Engine!Leaving, Engine!R!DisconnectCancel, Engine!R!WaitDone
  <2>1. EngineTypes'
    BY DEF EngineTypes
  <2>2. LinkInv'
    BY DEF EngineTypes, LinkInv, Engine!EnabledHasSession
  <2> QED
    BY <2>1, <2>2, SessionMoves
<1>3. CASE Engine!Left(link)
  <2> USE <1>3 DEF Engine!Left, Engine!Goto, Engine!R!WaitTimesOut, Engine!R!DisconnectReturns,
        Engine!R!LeaveDisconnect
  <2>1. EngineTypes'
    BY DEF EngineTypes
  <2>2. LinkInv'
    BY DEF EngineTypes, LinkInv, Engine!EnabledHasSession
  <2> QED
    BY <2>1, <2>2, SessionMoves
<1> QED
  BY <1>1, <1>2, <1>3

\* The session manager's own steps keep the invariant.
LEMMA SessionStepKeeps ==
    ASSUME EngineInv, Engine!SessionSteps
    PROVE  EngineInv'
<1> USE DEF EngineInv, Engine!SessionSteps, Engine!R!OperationCancelled, Engine!R!CloserStep,
      Engine!R!CloserCloses, Engine!R!CloserClears, Engine!R!CloserDone, Engine!queueVars,
      Engine!R!sessVars, Engine!R!opVars, Engine!R!callVars
<1>1. UNCHANGED <<Engine!queueVars, epc, enginePc, engineCall, session, acct, opSession>>
  OBVIOUS
<1>2. EngineTypes'
  BY ONLY EngineTypes, <1>1 DEF EngineTypes, Engine!queueVars
<1>3. LinkInv'
  BY ONLY LinkInv, <1>1 DEF LinkInv, Engine!queueVars, Engine!EnabledHasSession
<1> QED
  BY <1>1, <1>2, <1>3, SessionMoves

\* A step of the queue that runs nothing else, queues nothing and starts nothing.
LEMMA CalmMoves ==
    ASSUME EngineInv, EngineTypes', LinkInv', AskInv',
           UNCHANGED <<Engine!R!vars, accepting, workers, unwinding, exiting, cancels>>,
           \A j \in QueueJobs :
              /\ (wpc'[j] = "idle" <=> wpc[j] = "idle")
                   /\ (wpc'[j] = "transfer" <=> wpc[j] = "transfer")
              /\ status'[j] = "queued" => status[j] = "queued"
              /\ status'[j] = "running" <=> status[j] = "running"
              /\ jobConn'[j] = jobConn[j]
              /\ j \in stopped => j \in stopped',
           cpc'[link] = "drained" => cpc[link] = "drained" \/ workers = 0
    PROVE  EngineInv'
<1> USE DEF EngineInv, Engine!R!vars, Engine!R!sessVars, Engine!R!opVars, Engine!Q!Running,
      Engine!Q!Queued, Engine!Q!WithStatus
<1>1. WorkInv'
  BY DEF WorkInv, EngineTypes, Engine!Q!QuietWhenDisabled
<1>2. CountInv'
  <2>1. Engine!Q!Running' = Engine!Q!Running
    OBVIOUS
  <2> QED
    BY ONLY CountInv, <2>1, UNCHANGED <<workers, unwinding, exiting>>,
       cpc'[link] = "drained" => cpc[link] = "drained" \/ workers = 0 DEF CountInv
<1> QED
  BY <1>1, <1>2

\* Jobs are accepted when a session is attached.
LEMMA EnableKeeps ==
    ASSUME EngineInv, Engine!Enable(link)
    PROVE  EngineInv'
<1> USE EngineConstants DEF EngineInv, Engine!Enable, Engine!Goto
<1>1. CASE closed
  <2> USE <1>1 DEF Engine!queueVars, Engine!sessionVars
  <2>1. EngineTypes'
    BY DEF EngineTypes
  <2>2. LinkInv'
    BY DEF EngineTypes, LinkInv, Engine!EnabledHasSession
  <2> QED
    BY <2>1, <2>2, SessionMoves
<1>2. CASE ~closed
  <2> USE <1>2 DEF Engine!Q!Enable, Engine!Q!Goto, Engine!Q!jobVars, Engine!Q!poolVars,
        Engine!Q!workVars, Engine!Q!tailVars, Engine!sessionVars
  <2>1. EngineTypes'
    BY DEF EngineTypes, EngineCallers, Engine!Q!CallerPlaces
  <2>2. LinkInv'
    BY DEF EngineTypes, LinkInv, Engine!EnabledHasSession, EngineCallers, WaitPlaces
  <2>3. WorkInv'
    BY DEF WorkInv, EngineTypes, LinkInv, Engine!Q!QuietWhenDisabled, Engine!Q!Running,
       Engine!Q!Queued, Engine!Q!WithStatus
  <2>4. AskInv'
    BY DEF AskInv, EngineTypes, EngineCallers
  <2>5. CountInv'
    <3>1. Engine!Q!Running' = Engine!Q!Running /\ UNCHANGED <<workers, unwinding, exiting>>
            /\ cpc'[link] = "pump"
      BY DEF EngineTypes, EngineCallers, Engine!Q!Running, Engine!Q!WithStatus
    <3> QED
      BY ONLY CountInv, <3>1 DEF CountInv
  <2> QED
    BY <2>1, <2>2, <2>3, <2>4, <2>5
<1> QED
  BY <1>1, <1>2

\* A link that waited goes on when no worker is left.
LEMMA DrainKeeps ==
    ASSUME EngineInv, Engine!Drain(link) \/ Engine!Drained(link)
    PROVE  EngineInv'
<1> USE EngineConstants DEF EngineInv, Engine!Drain, Engine!Drained, Engine!Goto,
      Engine!Q!Goto, Engine!Q!WaitCheck, Engine!Q!WaitReturns, Engine!Q!WaitTimesOut,
      Engine!Q!Fail, Engine!Q!jobVars, Engine!Q!ctlVars, Engine!Q!poolVars, Engine!Q!workVars,
      Engine!Q!tailVars, Engine!sessionVars
<1>1. UNCHANGED <<Engine!R!vars, accepting, workers, unwinding, exiting, cancels, wpc, status,
        jobConn, stopped>>
  BY DEF Engine!R!vars, Engine!R!callVars, Engine!R!pendingVars, Engine!R!sessVars,
     Engine!R!opVars, Engine!R!secretVars
<1>2. EngineTypes'
  BY DEF EngineTypes, EngineCallers, Engine!Q!CallerPlaces
<1>3. LinkInv'
  BY DEF EngineTypes, LinkInv, Engine!EnabledHasSession, EngineCallers, WaitPlaces
<1>4. AskInv'
  BY DEF AskInv, EngineTypes, EngineCallers, LookupPlaces
<1>5. cpc'[link] = "drained" => cpc[link] = "drained" \/ workers = 0
  BY DEF EngineTypes, EngineCallers
<1> QED
  BY <1>1, <1>2, <1>3, <1>4, <1>5, CalmMoves

\* DisableAndCancel and Shutdown.
LEMMA StopKeeps ==
    ASSUME EngineInv, Engine!Disconnect(link) \/ Engine!Close(link)
    PROVE  EngineInv'
<1> USE EngineConstants DEF EngineInv
<1>1. PICK S \in SUBSET QueueJobs :
         /\ Engine!Q!StopAll(link, S) /\ Engine!Q!Running \subseteq S
         /\ Engine!Goto(link, "idle", "drain") /\ UNCHANGED Engine!sessionVars
              /\ closed' \in BOOLEAN
  BY DEF Engine!Disconnect, Engine!Close, Engine!Q!DisableAndCancel, Engine!Q!Shutdown,
     WorkInv, EngineTypes,
     Engine!Q!Running, Engine!Q!WithStatus
<1> USE <1>1 DEF Engine!Q!StopAll, Engine!Goto, Engine!Q!Goto, Engine!Q!poolVars,
      Engine!Q!tailVars, Engine!sessionVars
<1>2. EngineTypes'
  <2>1. status' \in [QueueJobs -> {"fresh", "minted"} \cup Engine!Q!Listed]
    BY DEF EngineTypes, Engine!Q!Listed, Engine!Q!Terminal
  <2>2. cpc' \in [EngineCallers -> Engine!Q!CallerPlaces] /\ cgen' \in [EngineCallers -> Nat]
    BY DEF EngineTypes, EngineCallers, Engine!Q!CallerPlaces
  <2>3. stopped' \in SUBSET QueueJobs /\ generation' \in Nat /\ accepting' \in BOOLEAN
    <3>1. stopped' = stopped \cup S /\ generation' = generation + 1 /\ accepting' = FALSE
      OBVIOUS
    <3>2. S \subseteq QueueJobs
      OBVIOUS
    <3>3. stopped' \in SUBSET QueueJobs
      BY ONLY EngineTypes, <3>1, <3>2 DEF EngineTypes
    <3>4. generation' \in Nat
      BY ONLY EngineTypes, <3>1 DEF EngineTypes
    <3> QED
      BY ONLY <3>1, <3>3, <3>4, Zenon
  <2>4. epc' = [epc EXCEPT ![link] = "drain"]
    OBVIOUS
  <2>5. UNCHANGED <<jobConn, wpc, workers, unwinding, exiting, cbatch, cconn, session, acct,
          engineCall, opSession>>
    OBVIOUS
  <2> QED
    BY ONLY EngineTypes, <1>1, <2>1, <2>2, <2>3, <2>4, <2>5 DEF EngineTypes
<1>3. LinkInv'
  BY DEF EngineTypes, LinkInv, Engine!EnabledHasSession, EngineCallers, WaitPlaces
<1>4. WorkInv'
  BY DEF WorkInv, EngineTypes, Engine!Q!QuietWhenDisabled, Engine!Q!Running, Engine!Q!Queued,
     Engine!Q!WithStatus
<1>5. AskInv'
  BY DEF AskInv, EngineTypes, EngineCallers
<1>6. CountInv'
  <2>1. Engine!Q!Running' = Engine!Q!Running /\ UNCHANGED <<workers, unwinding, exiting>>
          /\ cpc'[link] = "waitCheck"
    BY DEF EngineTypes, EngineCallers, Engine!Q!Running, Engine!Q!WithStatus
  <2> QED
    BY ONLY CountInv, <2>1 DEF CountInv
<1> QED
  BY <1>2, <1>3, <1>4, <1>5, <1>6

\* The user's calls, up to their commit.
LEMMA AskKeeps ==
    ASSUME EngineInv,
           \/ Engine!LookUp
           \/ /\ \/ Engine!Q!ReserveBegin(user) \/ Engine!Q!RetryBegin(user)
                 \/ \E B \in SUBSET Engine!Q!WithStatus({"fresh"}) \ {{}} : Engine!Q!ReserveRefused(user, B)
                 \/ \E S \in SUBSET QueueJobs \ {{}} : Engine!Q!RetryRefused(user, S)
              /\ UNCHANGED <<Engine!sessionVars, epc, once>>
    PROVE  EngineInv'
<1> USE EngineConstants DEF EngineInv, Engine!LookUp, Engine!Q!LookupFails,
      Engine!Q!LookupIdentity, Engine!Q!ReserveBegin, Engine!Q!RetryBegin,
      Engine!Q!CaptureGeneration, Engine!Q!ReserveRefused, Engine!Q!RetryRefused,
      Engine!Q!Goto, Engine!Q!Fail, Engine!Q!jobVars, Engine!Q!ctlVars, Engine!Q!poolVars,
      Engine!Q!workVars, Engine!Q!tailVars, Engine!sessionVars
<1>1. UNCHANGED <<Engine!R!vars, accepting, workers, unwinding, exiting, cancels, wpc, status,
        jobConn, stopped, closed, generation, cbatch, epc>>
  BY DEF Engine!R!vars, Engine!R!callVars, Engine!R!pendingVars, Engine!R!sessVars,
     Engine!R!opVars, Engine!R!secretVars
<1>2. EngineTypes'
  <2>1. cpc' \in [EngineCallers -> Engine!Q!CallerPlaces] /\ cgen' \in [EngineCallers -> Nat]
          /\ cconn' \in [EngineCallers -> Servers \cup {NoAccount}]
    BY DEF EngineTypes, EngineCallers, Engine!Q!CallerPlaces
  <2> QED
    BY ONLY EngineTypes, <1>1, <2>1 DEF EngineTypes, Engine!R!vars, Engine!R!callVars,
       Engine!R!sessVars, Engine!R!opVars
<1>3. cpc'[link] = cpc[link] /\ cpc'[user] \notin WaitPlaces
  BY DEF EngineTypes, EngineCallers, WaitPlaces
<1>4. LinkInv'
  BY ONLY LinkInv, <1>1, <1>3 DEF LinkInv, Engine!EnabledHasSession, Engine!R!vars,
     Engine!R!callVars, Engine!R!sessVars, Engine!R!opVars
<1>5. AskInv'
  <2>1. cgen'[user] <= generation
    BY DEF AskInv, EngineTypes, EngineCallers
  <2>2. cpc'[user] \in LookupPlaces => session # NoSession /\ cconn'[user] = acct[session]
    BY DEF EngineTypes, EngineCallers, LookupPlaces
  <2> QED
    BY ONLY AskInv, <1>1, <2>1, <2>2 DEF AskInv, Engine!R!vars, Engine!R!sessVars
<1> QED
  BY <1>1, <1>2, <1>3, <1>4, <1>5, CalmMoves

\* A reservation is made for the connection that was looked up.
LEMMA QueueReserveKeeps ==
    ASSUME EngineInv, NEW B \in SUBSET Engine!Q!WithStatus({"fresh"}), Engine!Q!Reserve(user,
           B), UNCHANGED <<Engine!sessionVars, epc, once>>
    PROVE  EngineInv'
<1> USE EngineConstants DEF EngineInv, Engine!Q!Reserve, Engine!Q!Goto, Engine!Q!ctlVars,
      Engine!Q!poolVars, Engine!Q!workVars, Engine!Q!tailVars, Engine!sessionVars,
      Engine!Q!WithStatus
<1>1. UNCHANGED <<Engine!R!vars, accepting, workers, unwinding, exiting, cancels, wpc, jobConn,
        stopped, closed, generation, cgen, cconn, epc>>
  BY DEF Engine!R!vars, Engine!R!callVars, Engine!R!pendingVars, Engine!R!sessVars,
     Engine!R!opVars, Engine!R!secretVars
<1>2. EngineTypes'
  <2>1. cpc' \in [EngineCallers -> Engine!Q!CallerPlaces]
          /\ cbatch' \in [EngineCallers -> SUBSET QueueJobs]
          /\ status' \in [QueueJobs -> {"fresh", "minted"} \cup Engine!Q!Listed]
    BY DEF EngineTypes, EngineCallers, Engine!Q!CallerPlaces
  <2> QED
    BY ONLY EngineTypes, <1>1, <2>1 DEF EngineTypes, Engine!R!vars, Engine!R!callVars,
       Engine!R!sessVars, Engine!R!opVars
<1>3. cpc'[link] = cpc[link] /\ cpc'[user] = "held" /\ cpc[user] = "reserveCheck"
  BY DEF EngineTypes, EngineCallers, WaitPlaces
<1>4. LinkInv'
  BY ONLY LinkInv, <1>1, <1>3 DEF LinkInv, WaitPlaces, Engine!EnabledHasSession, Engine!R!vars,
     Engine!R!callVars, Engine!R!sessVars, Engine!R!opVars
<1>5. AskInv'
  <2>1. \A j \in cbatch'[user] : status'[j] = "minted"
    BY DEF EngineTypes, EngineCallers
  <2> QED
    BY ONLY AskInv, <1>1, <1>3, <2>1 DEF AskInv, LookupPlaces, Engine!R!vars, Engine!R!sessVars
<1>6. \A j \in QueueJobs :
              /\ status'[j] = "queued" => status[j] = "queued"
              /\ status'[j] = "running" <=> status[j] = "running"
  BY DEF EngineTypes
<1> QED
  BY ONLY EngineInv, <1>1, <1>2, <1>3, <1>4, <1>5, <1>6, CalmMoves

\* A dropped reservation leaves no job.
LEMMA DropKeeps ==
    ASSUME EngineInv, Engine!Q!DropReservation(user), UNCHANGED <<Engine!sessionVars, epc, once>>
    PROVE  EngineInv'
<1> USE EngineConstants DEF EngineInv, Engine!Q!DropReservation, Engine!Q!Release,
      Engine!Q!Goto, Engine!Q!ctlVars, Engine!Q!poolVars, Engine!Q!workVars, Engine!Q!tailVars,
      Engine!sessionVars
<1>1. UNCHANGED <<Engine!R!vars, accepting, workers, unwinding, exiting, cancels, wpc, jobConn,
        stopped, closed, generation, epc>>
  BY DEF Engine!R!vars, Engine!R!callVars, Engine!R!pendingVars, Engine!R!sessVars,
     Engine!R!opVars, Engine!R!secretVars
<1>2. EngineTypes'
  <2>1. cpc' \in [EngineCallers -> Engine!Q!CallerPlaces]
          /\ cbatch' \in [EngineCallers -> SUBSET QueueJobs]
          /\ status' \in [QueueJobs -> {"fresh", "minted"} \cup Engine!Q!Listed]
    BY DEF EngineTypes, EngineCallers, Engine!Q!CallerPlaces
  <2>2. cgen' \in [EngineCallers -> Nat] /\ cconn' \in [EngineCallers -> Servers \cup {NoAccount}]
    BY DEF EngineTypes, EngineCallers
  <2> QED
    BY ONLY EngineTypes, <1>1, <2>1, <2>2 DEF EngineTypes, Engine!R!vars, Engine!R!callVars,
       Engine!R!sessVars, Engine!R!opVars
<1>3. cpc'[link] = cpc[link] /\ cpc'[user] = "idle"
  BY DEF EngineTypes, EngineCallers
<1>4. LinkInv'
  BY ONLY LinkInv, <1>1, <1>3 DEF LinkInv, WaitPlaces, Engine!EnabledHasSession, Engine!R!vars,
     Engine!R!callVars, Engine!R!sessVars, Engine!R!opVars
<1>5. AskInv'
  BY <1>1, <1>3 DEF EngineTypes, EngineCallers, AskInv, LookupPlaces
<1>6. \A j \in QueueJobs :
              /\ status'[j] = "queued" => status[j] = "queued"
              /\ status'[j] = "running" <=> status[j] = "running"
  BY DEF EngineTypes, AskInv
<1> QED
  BY ONLY EngineInv, <1>1, <1>2, <1>3, <1>4, <1>5, <1>6, CalmMoves

\* Commit and RetryBatch queue jobs on the connection the user looked up, which is the one
\* attached.
LEMMA QueueCommitKeeps ==
    ASSUME EngineInv, Engine!Q!Commit(user)
           \/ \E S \in SUBSET QueueJobs : Engine!Q!Retry(user, S),
           UNCHANGED <<Engine!sessionVars, epc, once>>
    PROVE  EngineInv'
<1> USE EngineConstants DEF EngineInv, Engine!Q!Commit, Engine!Q!Retry, Engine!Q!Release,
      Engine!Q!StillCurrent, Engine!Q!Goto, Engine!Q!ctlVars, Engine!Q!poolVars,
      Engine!Q!workVars, Engine!Q!tailVars, Engine!sessionVars
<1>1. UNCHANGED <<Engine!R!vars, accepting, workers, unwinding, exiting, cancels, wpc, stopped,
        closed, generation, epc>>
  BY DEF Engine!R!vars, Engine!R!callVars, Engine!R!pendingVars, Engine!R!sessVars,
     Engine!R!opVars, Engine!R!secretVars
<1>2. cpc[user] \in LookupPlaces /\ cgen[user] = generation /\ accepting
  BY DEF LookupPlaces
<1>3. session # NoSession /\ cconn[user] = acct[session]
  BY ONLY AskInv, <1>2 DEF AskInv
<1>4. /\ status' \in [QueueJobs -> {"fresh", "minted"} \cup Engine!Q!Listed]
      /\ jobConn' \in [QueueJobs -> Servers \cup {NoAccount}]
      /\ \A j \in QueueJobs :
            \/ status'[j] = status[j] /\ jobConn'[j] = jobConn[j]
            \/ status[j] \in {"minted", "failed", "cancelled"} /\ status'[j] = "queued"
                 /\ jobConn'[j] = cconn[user]
  <2>1. CASE Engine!Q!Commit(user)
    BY <2>1 DEF EngineTypes, AskInv, EngineCallers, Engine!Q!Listed
  <2>2. ASSUME NEW S \in SUBSET QueueJobs, Engine!Q!Retry(user, S)
        PROVE  <1>4
    BY <2>2 DEF EngineTypes, EngineCallers, Engine!Q!Listed, Engine!Q!jobVars
  <2> QED
    BY <2>1, <2>2
<1>5. EngineTypes'
  <2>1. cpc' \in [EngineCallers -> Engine!Q!CallerPlaces]
          /\ cbatch' \in [EngineCallers -> SUBSET QueueJobs]
    BY DEF EngineTypes, EngineCallers, Engine!Q!CallerPlaces
  <2>2. cgen' \in [EngineCallers -> Nat] /\ cconn' \in [EngineCallers -> Servers \cup {NoAccount}]
    BY DEF EngineTypes, EngineCallers
  <2> QED
    BY ONLY EngineTypes, <1>1, <1>4, <2>1, <2>2 DEF EngineTypes, Engine!R!vars,
       Engine!R!callVars, Engine!R!sessVars, Engine!R!opVars
<1>6. cpc'[link] = cpc[link] /\ cpc'[user] = "pump" /\ cgen'[user] = 0
  BY DEF EngineTypes, EngineCallers
<1>7. LinkInv'
  BY ONLY LinkInv, <1>1, <1>6 DEF LinkInv, WaitPlaces, Engine!EnabledHasSession, Engine!R!vars,
     Engine!R!callVars, Engine!R!sessVars, Engine!R!opVars
<1>8. AskInv'
  <2>1. \A j \in cbatch'[user] : status'[j] = "minted"
    <3>1. CASE Engine!Q!Commit(user)
      BY <3>1 DEF EngineTypes, EngineCallers
    <3>2. ASSUME NEW S \in SUBSET QueueJobs, Engine!Q!Retry(user, S)
          PROVE  <2>1
      BY <3>2 DEF EngineTypes, EngineCallers, AskInv
    <3> QED
      BY <3>1, <3>2
  <2> QED
    BY <1>1, <1>6, <2>1 DEF EngineTypes, AskInv, LookupPlaces
<1>9. WorkInv'
  BY ONLY EngineTypes, WorkInv, <1>1, <1>2, <1>3, <1>4 DEF EngineTypes, WorkInv,
     Engine!Q!QuietWhenDisabled, Engine!Q!Running, Engine!Q!Queued, Engine!Q!WithStatus,
     Engine!R!vars, Engine!R!sessVars, Engine!R!opVars
<1>10. CountInv'
  <2>1. Engine!Q!Running' = Engine!Q!Running
    BY <1>4 DEF Engine!Q!Running, Engine!Q!WithStatus
  <2> QED
    BY ONLY CountInv, <1>1, <1>6, <2>1 DEF CountInv
<1> QED
  BY <1>5, <1>7, <1>8, <1>9, <1>10

\* Cancelling stops jobs and their attempts.
LEMMA CancelKeeps ==
    ASSUME EngineInv, NEW S, Engine!Q!CancelBatch(S), UNCHANGED <<Engine!sessionVars, epc, once>>
    PROVE  EngineInv'
<1> USE EngineConstants DEF EngineInv, Engine!Q!CancelBatch, Engine!Q!ctlVars,
      Engine!Q!poolVars, Engine!Q!tailVars, Engine!Q!callVars, Engine!sessionVars
<1>1. UNCHANGED <<Engine!R!vars, accepting, workers, unwinding, exiting, cancels, wpc, jobConn,
        closed, generation, epc, cpc, cgen, cconn, cbatch>>
  BY DEF Engine!R!vars, Engine!R!callVars, Engine!R!pendingVars, Engine!R!sessVars,
     Engine!R!opVars, Engine!R!secretVars
<1>2. /\ status' \in [QueueJobs -> {"fresh", "minted"} \cup Engine!Q!Listed]
      /\ stopped' \in SUBSET QueueJobs /\ stopped \subseteq stopped'
      /\ \A j \in QueueJobs : status'[j] = status[j] \/ (status[j] = "queued"
           /\ status'[j] = "cancelled")
  <2>1. status' = [j \in QueueJobs |-> IF j \in S \cap Engine!Q!Queued THEN "cancelled" ELSE status[j]]
    OBVIOUS
  <2>2. stopped' = stopped \cup (S \cap Engine!Q!Running \cap cancels)
    OBVIOUS
  <2>3. Engine!Q!Running \subseteq QueueJobs /\ \A j \in Engine!Q!Queued : status[j] = "queued"
    BY ONLY TRUE DEF Engine!Q!Running, Engine!Q!Queued, Engine!Q!WithStatus
  <2>4. "cancelled" \in Engine!Q!Listed
    BY ONLY TRUE DEF Engine!Q!Listed, Engine!Q!Terminal
  <2>5. stopped' \in SUBSET QueueJobs /\ stopped \subseteq stopped'
    BY ONLY EngineTypes, <2>2, <2>3 DEF EngineTypes
  <2>6. status' \in [QueueJobs -> {"fresh", "minted"} \cup Engine!Q!Listed]
    BY ONLY EngineTypes, <2>1, <2>4 DEF EngineTypes
  <2>7. \A j \in QueueJobs : status'[j] = status[j] \/ (status[j] = "queued"
          /\ status'[j] = "cancelled")
    BY ONLY <2>1, <2>3
  <2> QED
    BY ONLY <2>5, <2>6, <2>7
<1>3. EngineTypes'
  BY ONLY EngineTypes, <1>1, <1>2 DEF EngineTypes, Engine!R!vars, Engine!R!callVars,
     Engine!R!sessVars, Engine!R!opVars
<1>4. LinkInv'
  BY ONLY LinkInv, <1>1 DEF LinkInv, Engine!EnabledHasSession, Engine!R!vars,
     Engine!R!callVars, Engine!R!sessVars, Engine!R!opVars
<1>5. AskInv'
  BY ONLY EngineTypes, AskInv, <1>1, <1>2 DEF EngineTypes, EngineCallers, AskInv,
     Engine!R!vars, Engine!R!sessVars
<1>6. \A j \in QueueJobs :
              /\ status'[j] = "queued" => status[j] = "queued"
              /\ status'[j] = "running" <=> status[j] = "running"
  BY <1>2
<1> QED
  BY ONLY EngineInv, <1>1, <1>2, <1>3, <1>4, <1>5, <1>6, CalmMoves

\* The jobs that run, counted.
LEMMA JobsCounted ==
    ASSUME NEW S \in SUBSET QueueJobs, NEW T \in SUBSET QueueJobs, S \cap T = {}
    PROVE  /\ IsFiniteSet(S) /\ Cardinality(S) \in Nat /\ Cardinality(T) \in Nat
           /\ Cardinality(S \cup T) = Cardinality(S) + Cardinality(T)
<1>1. IsFiniteSet(S) /\ IsFiniteSet(T) /\ Cardinality(S) \in Nat /\ Cardinality(T) \in Nat
  BY EngineConstants, FS_Subset, FS_CardinalityType
<1>2. Cardinality(S \cup T) = Cardinality(S) + Cardinality(T) - Cardinality(S \cap T)
  BY <1>1, FS_Union
<1>3. Cardinality(S \cap T) = 0
  BY FS_EmptySet
<1> QED
  BY <1>1, <1>2, <1>3

\* A pump starts queued jobs, which are of the attached session's account.
LEMMA PumpKeeps ==
    ASSUME EngineInv,
           (\E c \in EngineCallers : Engine!Q!CallerPump(c)) \/ Engine!Q!WorkerPump,
           UNCHANGED <<Engine!sessionVars, epc, once>>
    PROVE  EngineInv'
<1> USE EngineConstants DEF EngineInv
<1>1. UNCHANGED <<Engine!R!vars, epc, accepting, stopped, jobConn, closed, generation, cgen,
        cbatch, cconn>>
  BY DEF Engine!sessionVars, Engine!R!vars, Engine!R!callVars, Engine!R!pendingVars,
     Engine!R!sessVars, Engine!R!opVars, Engine!R!secretVars,
     Engine!Q!CallerPump, Engine!Q!WorkerPump, Engine!Q!PumpEffect, Engine!Q!ctlVars,
     Engine!Q!callVars
<1>2. /\ cpc' \in [EngineCallers -> Engine!Q!CallerPlaces]
      /\ \A c \in EngineCallers : cpc'[c] = cpc[c] \/ (cpc'[c] = "idle" /\ cpc[c] = "pump")
  BY DEF Engine!Q!CallerPump, Engine!Q!WorkerPump, Engine!Q!Goto, Engine!Q!callVars,
     EngineTypes, Engine!Q!CallerPlaces
<1>3. /\ unwinding' \in Nat /\ exiting' \in Nat /\ unwinding' + exiting' = unwinding + exiting
  <2>1. CASE Engine!Q!WorkerPump
    BY <2>1 DEF Engine!Q!WorkerPump, EngineTypes
  <2>2. CASE \E c \in EngineCallers : Engine!Q!CallerPump(c)
    BY <2>2 DEF Engine!Q!CallerPump, Engine!Q!tailVars, EngineTypes
  <2> QED
    BY <2>1, <2>2
<1>4. PICK S \in SUBSET Engine!Q!Queued :
         /\ S # {} => accepting
         /\ status' = [j \in QueueJobs |-> IF j \in S THEN "running" ELSE status[j]]
         /\ wpc' = [j \in QueueJobs |-> IF j \in S THEN "start" ELSE wpc[j]]
         /\ workers' = workers + Cardinality(S) /\ cancels' = cancels \cup S
  <2>1. Engine!Q!PumpEffect
    BY DEF Engine!Q!CallerPump, Engine!Q!WorkerPump
  <2>2. CASE paused \/ closed \/ ~accepting
    <3>1. UNCHANGED <<status, wpc, workers, cancels>>
      BY <2>1, <2>2 DEF Engine!Q!PumpEffect, Engine!Q!poolVars
    <3>2. workers' = workers + Cardinality({}) /\ cancels' = cancels \cup {}
      BY ONLY <3>1, EngineTypes, FS_EmptySet DEF EngineTypes
    <3>3. /\ status' = [j \in QueueJobs |-> IF j \in {} THEN "running" ELSE status[j]]
          /\ wpc' = [j \in QueueJobs |-> IF j \in {} THEN "start" ELSE wpc[j]]
      BY ONLY <3>1, EngineTypes DEF EngineTypes
    <3> QED
      BY ONLY <3>2, <3>3
  <2>3. CASE ~(paused \/ closed \/ ~accepting)
    <3>1. PICK S \in SUBSET Engine!Q!Queued : Engine!Q!Start(S)
      BY <2>1, <2>3 DEF Engine!Q!PumpEffect
    <3> QED
      BY ONLY <2>3, <3>1, SameCard DEF Engine!Q!Start
  <2> QED
    BY <2>2, <2>3
<1>5. /\ S \in SUBSET QueueJobs
      /\ \A j \in S : status[j] = "queued" /\ wpc[j] = "idle"
      /\ Engine!Q!Running \in SUBSET QueueJobs /\ Engine!Q!Running \cap S = {}
      /\ Engine!Q!Running' = Engine!Q!Running \cup S
  BY <1>4 DEF Engine!Q!Running, Engine!Q!Queued, Engine!Q!WithStatus, WorkInv, EngineTypes
<1>6. Cardinality(S) \in Nat /\ Cardinality(Engine!Q!Running) \in Nat
      /\ Cardinality(Engine!Q!Running') = Cardinality(Engine!Q!Running) + Cardinality(S)
  BY <1>5, JobsCounted
<1>7. EngineTypes'
  <2>1. status' \in [QueueJobs -> {"fresh", "minted"} \cup Engine!Q!Listed]
          /\ wpc' \in [QueueJobs -> Engine!Q!Places] /\ workers' \in Nat
    BY <1>4, <1>5, <1>6 DEF EngineTypes, Engine!Q!Listed, Engine!Q!Places
  <2> QED
    BY ONLY EngineTypes, <1>1, <1>2, <1>3, <2>1 DEF EngineTypes, Engine!R!vars,
       Engine!R!callVars, Engine!R!sessVars, Engine!R!opVars
<1>8. LinkInv'
  BY ONLY LinkInv, <1>1, <1>2 DEF LinkInv, EngineCallers, WaitPlaces, Engine!EnabledHasSession,
     Engine!R!vars, Engine!R!callVars, Engine!R!sessVars, Engine!R!opVars
<1>9. WorkInv'
  <2>1. /\ \A j \in QueueJobs : (wpc[j] # "idle" <=> status[j] = "running")'
        /\ (cancels = Engine!Q!Running)'
    BY <1>4, <1>5 DEF WorkInv
  <2>2. /\ \A j \in QueueJobs : (wpc[j] = "transfer" <=> opSession[j] # NoSession)'
        /\ \A j \in QueueJobs : (wpc[j] = "transfer" /\ j \notin stopped
             => opSession[j] = session)'
    BY <1>1, <1>4, <1>5 DEF WorkInv, Engine!R!vars, Engine!R!sessVars, Engine!R!opVars
  <2>3. Engine!Q!QuietWhenDisabled'
    BY <1>1, <1>4, <1>5 DEF WorkInv, Engine!Q!QuietWhenDisabled, Engine!Q!Queued,
       Engine!Q!WithStatus
  <2>4. (accepting => \A j \in Engine!Q!Queued \cup (Engine!Q!Running \ stopped) :
            session # NoSession /\ jobConn[j] = acct[session])'
    BY <1>1, <1>4, <1>5 DEF WorkInv, Engine!Q!Queued, Engine!Q!WithStatus, Engine!R!vars,
       Engine!R!sessVars, Engine!R!opVars
  <2> QED
    BY <2>1, <2>2, <2>3, <2>4 DEF WorkInv
<1>10. AskInv'
  BY <1>1, <1>2, <1>4, <1>5 DEF AskInv, EngineTypes, EngineCallers, LookupPlaces,
     Engine!R!vars, Engine!R!sessVars
<1>11. CountInv'
  <2>1. workers' = Cardinality(Engine!Q!Running') + unwinding' + exiting'
    <3>1. workers = Cardinality(Engine!Q!Running) + (unwinding + exiting)
            /\ unwinding + exiting \in Nat
      BY <1>6 DEF CountInv, EngineTypes
    <3> QED
      BY ONLY <1>3, <1>4, <1>6, <3>1
  <2>2. cpc'[link] = "drained" => workers' = 0
    <3>1. cpc'[link] = "drained" => cpc[link] = "drained"
      BY ONLY <1>2 DEF EngineCallers
    <3>2. cpc[link] = "drained" => ~accepting
      BY DEF LinkInv, WaitPlaces
    <3>3. S = {} => workers' = workers
      BY ONLY <1>4, EngineTypes, FS_EmptySet DEF EngineTypes
    <3> QED
      BY <1>4, <3>1, <3>2, <3>3 DEF CountInv
  <2> QED
    BY <2>1, <2>2 DEF CountInv
<1> QED
  BY <1>7, <1>8, <1>9, <1>10, <1>11

\* A goroutine moves on without leaving the transfer or beginning one.
LEMMA WorkerKeeps ==
    ASSUME EngineInv, NEW j \in QueueJobs, Engine!Q!ExecuteBegin(j) \/ Engine!Q!RetryDelay(j)
           \/ Engine!Q!AcquireFails(j),
           UNCHANGED <<Engine!sessionVars, epc, once>>
    PROVE  EngineInv'
<1> USE EngineConstants DEF EngineInv, Engine!Q!ExecuteBegin, Engine!Q!RetryDelay,
      Engine!Q!AcquireFails, Engine!Q!AttemptBegin, Engine!Q!AttemptEnds, Engine!Q!WorkerStep,
      Engine!Q!WorkerUnchanged,
      Engine!Q!jobVars, Engine!Q!ctlVars, Engine!Q!poolVars, Engine!Q!tailVars, Engine!Q!callVars
<1>1. UNCHANGED <<Engine!R!vars, epc, accepting, workers, unwinding, exiting, cancels, status,
        jobConn, stopped, closed, generation, cpc, cgen, cbatch, cconn>>
  BY DEF Engine!sessionVars, Engine!R!vars, Engine!R!callVars, Engine!R!pendingVars,
     Engine!R!sessVars, Engine!R!opVars, Engine!R!secretVars
<1>2. \E p \in {"start", "delay", "acquire"}, q \in {"finish", "acquire",
        "delay"} : wpc[j] = p /\ wpc' = [wpc EXCEPT ![j] = q]
  OBVIOUS
<1>3. /\ wpc' \in [QueueJobs -> Engine!Q!Places]
      /\ \A i \in QueueJobs : (wpc'[i] = "idle" <=> wpc[i] = "idle")
           /\ (wpc'[i] = "transfer" <=> wpc[i] = "transfer")
  BY ONLY EngineTypes, <1>2 DEF EngineTypes, Engine!Q!Places
<1>4. EngineTypes'
  BY ONLY EngineTypes, <1>1, <1>3 DEF EngineTypes, Engine!R!vars, Engine!R!callVars,
     Engine!R!sessVars, Engine!R!opVars
<1>5. LinkInv'
  BY ONLY LinkInv, <1>1 DEF LinkInv, Engine!EnabledHasSession, Engine!R!vars,
     Engine!R!callVars, Engine!R!sessVars, Engine!R!opVars
<1>6. AskInv'
  BY ONLY AskInv, <1>1 DEF AskInv, Engine!R!vars, Engine!R!sessVars
<1> QED
  BY ONLY EngineInv, <1>1, <1>3, <1>4, <1>5, <1>6, CalmMoves

\* An attempt takes the attached session, or ends and lets it go.
LEMMA AttemptKeeps ==
    ASSUME EngineInv, NEW j \in QueueJobs,
           \/ Engine!Q!Acquire(j) /\ Engine!R!OperationBegin(j) /\ UNCHANGED <<epc, once>>
           \/ Engine!AttemptEnds(j)
    PROVE  EngineInv'
<1> USE EngineConstants DEF EngineInv, Engine!AttemptEnds, Engine!Q!Acquire,
      Engine!Q!TransferEnds, Engine!Q!AttemptEnds, Engine!Q!WorkerStep, Engine!Q!WorkerUnchanged,
      Engine!R!OperationBegin, Engine!R!OperationEnd, Engine!Q!jobVars, Engine!Q!ctlVars,
      Engine!Q!poolVars, Engine!Q!tailVars, Engine!Q!callVars, Engine!R!sessVars
<1>1. UNCHANGED <<epc, accepting, workers, unwinding, exiting, cancels, status, jobConn,
        stopped, closed, generation, cpc, cgen, cbatch, cconn, enginePc, engineCall, session,
        acct>>
  BY DEF Engine!R!callVars
<1>2. \/ /\ session # NoSession /\ wpc[j] = "acquire" /\ wpc' = [wpc EXCEPT ![j] = "transfer"]
         /\ opSession' = [opSession EXCEPT ![j] = session]
      \/ /\ wpc[j] = "transfer" /\ opSession' = [opSession EXCEPT ![j] = NoSession]
         /\ \E q \in {"finish", "delay"} : wpc' = [wpc EXCEPT ![j] = q]
  OBVIOUS
<1>3. EngineTypes'
  <2>1. wpc' \in [QueueJobs -> Engine!Q!Places]
          /\ opSession' \in [QueueJobs -> Attached \cup {NoSession}]
    BY ONLY EngineTypes, <1>2 DEF EngineTypes, Engine!Q!Places
  <2> QED
    BY ONLY EngineTypes, <1>1, <2>1 DEF EngineTypes
<1>4. LinkInv'
  BY ONLY LinkInv, <1>1 DEF LinkInv, Engine!EnabledHasSession
<1>5. AskInv'
  BY ONLY AskInv, <1>1 DEF AskInv
<1>6. WorkInv'
  BY ONLY EngineTypes, WorkInv, <1>1, <1>2 DEF EngineTypes, WorkInv,
     Engine!Q!QuietWhenDisabled, Engine!Q!Running, Engine!Q!Queued, Engine!Q!WithStatus
<1>7. CountInv'
  BY ONLY CountInv, <1>1 DEF CountInv, Engine!Q!Running, Engine!Q!WithStatus
<1> QED
  BY <1>3, <1>4, <1>5, <1>6, <1>7

\* A job that is finished gives its goroutine back, which is counted until it is gone.
LEMMA FinishKeeps ==
    ASSUME EngineInv, NEW j \in QueueJobs, Engine!Q!FinishJob(j),
           UNCHANGED <<Engine!sessionVars, epc, once>>
    PROVE  EngineInv'
<1> USE EngineConstants DEF EngineInv, Engine!Q!FinishJob, Engine!Q!WorkerStep,
      Engine!Q!ctlVars, Engine!Q!callVars
<1>1. UNCHANGED <<Engine!R!vars, epc, accepting, workers, exiting, jobConn, closed, generation,
        cpc, cgen, cbatch, cconn>>
  BY DEF Engine!sessionVars, Engine!R!vars, Engine!R!callVars, Engine!R!pendingVars,
     Engine!R!sessVars, Engine!R!opVars, Engine!R!secretVars
<1>2. /\ wpc[j] = "finish" /\ wpc' = [wpc EXCEPT ![j] = "idle"]
      /\ cancels' = cancels \ {j} /\ stopped' = stopped \ {j} /\ unwinding' = unwinding + 1
  OBVIOUS
<1>3. \E r \in Engine!Q!Terminal : status' = [status EXCEPT ![j] = r]
  <2>1. Engine!Q!FinalStatus(j) \in Engine!Q!Terminal
    BY DEF Engine!Q!FinalStatus, Engine!Q!Terminal
  <2> QED
    BY <2>1
<1>4. EngineTypes'
  <2>1. wpc' \in [QueueJobs -> Engine!Q!Places]
          /\ status' \in [QueueJobs -> {"fresh", "minted"} \cup Engine!Q!Listed]
    BY ONLY EngineTypes, <1>2, <1>3 DEF EngineTypes, Engine!Q!Places, Engine!Q!Listed
  <2>2. stopped' \in SUBSET QueueJobs /\ unwinding' \in Nat
    BY ONLY EngineTypes, <1>2 DEF EngineTypes
  <2> QED
    BY ONLY EngineTypes, <1>1, <2>1, <2>2 DEF EngineTypes, Engine!R!vars, Engine!R!callVars,
       Engine!R!sessVars, Engine!R!opVars
<1>5. LinkInv'
  BY ONLY LinkInv, <1>1 DEF LinkInv, Engine!EnabledHasSession, Engine!R!vars,
     Engine!R!callVars, Engine!R!sessVars, Engine!R!opVars
<1>6. status[j] = "running"
  BY ONLY WorkInv, <1>2, j \in QueueJobs DEF WorkInv
<1>7. AskInv'
  BY ONLY AskInv, EngineTypes, <1>1, <1>3, <1>6 DEF AskInv, EngineTypes, EngineCallers,
     Engine!R!vars, Engine!R!sessVars
<1>8. /\ j \in Engine!Q!Running /\ Engine!Q!Running \in SUBSET QueueJobs
      /\ Engine!Q!Running' = Engine!Q!Running \ {j} /\ Engine!Q!Queued' = Engine!Q!Queued
  BY <1>3, <1>6 DEF EngineTypes, Engine!Q!Running, Engine!Q!Queued, Engine!Q!WithStatus,
     Engine!Q!Terminal
<1>9. WorkInv'
  <2>1. \A i \in QueueJobs : (wpc[i] # "idle" <=> status[i] = "running")'
    BY <1>2, <1>3, <1>6 DEF WorkInv, EngineTypes, Engine!Q!Terminal
  <2>2. /\ \A i \in QueueJobs : (wpc[i] = "transfer" <=> opSession[i] # NoSession)'
        /\ \A i \in QueueJobs : (wpc[i] = "transfer" /\ i \notin stopped
             => opSession[i] = session)'
    BY <1>1, <1>2 DEF WorkInv, EngineTypes, Engine!R!vars, Engine!R!sessVars, Engine!R!opVars
  <2>3. (cancels = Engine!Q!Running)' /\ Engine!Q!QuietWhenDisabled'
    BY ONLY WorkInv, <1>1, <1>2, <1>8 DEF WorkInv, Engine!Q!QuietWhenDisabled
  <2>4. (accepting => \A i \in Engine!Q!Queued \cup (Engine!Q!Running \ stopped) :
            session # NoSession /\ jobConn[i] = acct[session])'
    BY ONLY WorkInv, <1>1, <1>2, <1>8 DEF WorkInv, Engine!R!vars, Engine!R!sessVars
  <2> QED
    BY <2>1, <2>2, <2>3, <2>4 DEF WorkInv
<1>10. CountInv'
  <2>1. Cardinality(Engine!Q!Running') = Cardinality(Engine!Q!Running) - 1
          /\ Cardinality(Engine!Q!Running) \in Nat
    BY <1>8, EngineConstants, FS_RemoveElement, FS_Subset, FS_CardinalityType
  <2> QED
    BY ONLY CountInv, EngineTypes, <1>1, <1>2, <2>1 DEF CountInv, EngineTypes
<1> QED
  BY <1>4, <1>5, <1>7, <1>9, <1>10

\* The last goroutine that goes lets the waiting callers go on.
LEMMA ExitKeeps ==
    ASSUME EngineInv, Engine!Q!WorkerExited, UNCHANGED <<Engine!sessionVars, epc, once>>
    PROVE  EngineInv'
<1> USE EngineConstants DEF EngineInv, Engine!Q!WorkerExited, Engine!Q!jobVars,
      Engine!Q!ctlVars, Engine!Q!workVars
<1>1. UNCHANGED <<Engine!R!vars, epc, accepting, unwinding, cancels, stopped, wpc, status,
        jobConn, closed, generation, cgen, cbatch, cconn>>
  BY DEF Engine!sessionVars, Engine!R!vars, Engine!R!callVars, Engine!R!pendingVars,
     Engine!R!sessVars, Engine!R!opVars, Engine!R!secretVars
<1>2. /\ cpc' \in [EngineCallers -> Engine!Q!CallerPlaces]
      /\ \A c \in EngineCallers : cpc'[c] = cpc[c] \/ (cpc[c] = "waiting"
           /\ cpc'[c] = "drained" /\ workers = 1)
  BY DEF EngineTypes, EngineCallers, Engine!Q!CallerPlaces
<1>3. workers > 0
  <2>1. Cardinality(Engine!Q!Running) \in Nat
    BY FS_Subset, FS_CardinalityType DEF Engine!Q!Running, Engine!Q!WithStatus
  <2> QED
    BY <2>1 DEF CountInv, EngineTypes
<1>4. workers' = workers - 1 /\ exiting' = exiting - 1 /\ workers' \in Nat /\ exiting' \in Nat
  BY <1>3 DEF EngineTypes
<1>5. EngineTypes'
  BY ONLY EngineTypes, <1>1, <1>2, <1>4 DEF EngineTypes, Engine!R!vars, Engine!R!callVars,
     Engine!R!sessVars, Engine!R!opVars
<1>6. LinkInv'
  BY ONLY LinkInv, <1>1, <1>2 DEF LinkInv, EngineCallers, WaitPlaces, Engine!EnabledHasSession,
     Engine!R!vars, Engine!R!callVars, Engine!R!sessVars, Engine!R!opVars
<1>7. AskInv'
  BY ONLY AskInv, <1>1, <1>2 DEF AskInv, EngineCallers, LookupPlaces, Engine!R!vars,
     Engine!R!sessVars
<1>8. WorkInv'
  BY ONLY WorkInv, <1>1 DEF WorkInv, Engine!Q!QuietWhenDisabled, Engine!Q!Running,
     Engine!Q!Queued, Engine!Q!WithStatus, Engine!R!vars, Engine!R!sessVars, Engine!R!opVars
<1>9. CountInv'
  <2>1. Engine!Q!Running' = Engine!Q!Running
    BY ONLY <1>1 DEF Engine!Q!Running, Engine!Q!WithStatus
  <2>2. Cardinality(Engine!Q!Running) \in Nat
    BY FS_Subset, FS_CardinalityType DEF Engine!Q!Running, Engine!Q!WithStatus
  <2>3. cpc'[link] = "drained" => workers' = 0
    BY ONLY <1>2, <1>3, <1>4, CountInv DEF EngineCallers, CountInv
  <2> QED
    BY ONLY CountInv, EngineTypes, <1>1, <1>4, <2>1, <2>2, <2>3 DEF CountInv, EngineTypes
<1> QED
  BY <1>5, <1>6, <1>7, <1>8, <1>9

\* Every step of the engine keeps the invariant.
LEMMA EngineSteps ==
    ASSUME EngineInv, [Engine!Next]_(Engine!vars)
    PROVE  EngineInv'
<1>1. ASSUME NEW l \in {link},
             \/ \E a \in Servers : Engine!Connect(l, a)
             \/ Engine!ConnectFails(l) \/ Engine!Connected(l) \/ Engine!Enable(l)
             \/ Engine!Disconnect(l) \/ Engine!Close(l) \/ Engine!Drain(l) \/ Engine!Drained(l)
             \/ Engine!Leave(l) \/ Engine!Left(l)
      PROVE  EngineInv'
  <2>1. l = link
    OBVIOUS
  <2> QED
    BY <1>1, <2>1, ConnectKeeps, EnableKeeps, StopKeeps, DrainKeeps, LeaveKeeps
<1>2. CASE Engine!Connecting \/ Engine!Leaving
  BY <1>2, ConnectKeeps, LeaveKeeps
<1>3. CASE Engine!LookUp
  BY <1>3, AskKeeps
<1>4. CASE Engine!QueueSteps
  <2>1. UNCHANGED <<Engine!sessionVars, epc, once>>
    BY <1>4 DEF Engine!QueueSteps
  <2>2. ASSUME Engine!Q!ReserveBegin(user) \/ Engine!Q!RetryBegin(user) PROVE EngineInv'
    BY <2>1, <2>2, AskKeeps
  <2>3. ASSUME NEW B \in SUBSET Engine!Q!WithStatus({"fresh"}) \ {{}}, Engine!Q!Reserve(user,
               B) \/ Engine!Q!ReserveRefused(user, B)
        PROVE  EngineInv'
    BY <2>1, <2>3, AskKeeps, QueueReserveKeeps
  <2>4. ASSUME Engine!Q!DropReservation(user) \/ Engine!Q!Commit(user) PROVE EngineInv'
    BY <2>1, <2>4, DropKeeps, QueueCommitKeeps
  <2>5. ASSUME NEW S \in SUBSET QueueJobs \ {{}}, Engine!Q!Retry(user, S)
               \/ Engine!Q!RetryRefused(user, S)
        PROVE  EngineInv'
    BY <2>1, <2>5, AskKeeps, QueueCommitKeeps
  <2>6. ASSUME NEW S, Engine!Q!CancelBatch(S) PROVE EngineInv'
    BY <2>1, <2>6, CancelKeeps
  <2>7. ASSUME NEW c \in {link} \cup {user}, Engine!Q!CallerPump(c) PROVE EngineInv'
    BY <2>1, <2>7, PumpKeeps DEF EngineCallers
  <2>8. ASSUME NEW j \in QueueJobs, Engine!Q!ExecuteBegin(j) \/ Engine!Q!RetryDelay(j)
               \/ Engine!Q!FinishJob(j)
        PROVE  EngineInv'
    BY <2>1, <2>8, WorkerKeeps, FinishKeeps
  <2>9. ASSUME Engine!Q!WorkerPump \/ Engine!Q!WorkerExited PROVE EngineInv'
    BY <2>1, <2>9, PumpKeeps, ExitKeeps
  <2> QED
    BY <1>4, <2>2, <2>3, <2>4, <2>5, <2>6, <2>7, <2>8, <2>9 DEF Engine!QueueSteps
<1>5. ASSUME NEW j \in QueueJobs, Engine!Attempt(j) \/ Engine!AttemptEnds(j)
      PROVE  EngineInv'
  BY <1>5, AttemptKeeps, WorkerKeeps DEF Engine!Attempt
<1>6. CASE Engine!SessionSteps
  BY <1>6, SessionStepKeeps
<1>7. CASE UNCHANGED Engine!vars
  <2>1. UNCHANGED <<Engine!queueVars, epc, enginePc, engineCall, session, acct, opSession>>
    BY <1>7 DEF Engine!vars, Engine!sessionVars
  <2>2. EngineTypes'
    BY ONLY EngineInv, <2>1 DEF EngineInv, EngineTypes, Engine!queueVars
  <2>3. LinkInv'
    BY ONLY EngineInv, <2>1 DEF EngineInv, LinkInv, Engine!queueVars, Engine!EnabledHasSession
  <2> QED
    BY <2>1, <2>2, <2>3, SessionMoves
<1> QED
  BY <1>1, <1>2, <1>3, <1>4, <1>5, <1>6, <1>7 DEF Engine!Next

\* The invariant says what the suite checks of the engine (engine.go).
LEMMA EngineImplies ==
    ASSUME EngineInv
    PROVE  Engine!OwnSession /\ Engine!EnabledHasSession /\ Engine!DrainedLeavesNobody
<1> USE EngineConstants DEF EngineInv
<1>1. Engine!OwnSession
  <2> SUFFICES ASSUME NEW j \in QueueJobs, wpc[j] = "transfer", j \notin stopped
               PROVE  acct[opSession[j]] = jobConn[j]
    BY DEF Engine!OwnSession
  <2>1. j \in Engine!Q!Running /\ opSession[j] = session
    BY DEF WorkInv, Engine!Q!Running, Engine!Q!WithStatus
  <2>2. accepting
    BY <2>1 DEF WorkInv, Engine!Q!QuietWhenDisabled
  <2> QED
    BY <2>1, <2>2 DEF WorkInv
<1>2. Engine!DrainedLeavesNobody
  <2> SUFFICES ASSUME cpc[link] = "drained", NEW j \in QueueJobs
               PROVE  opSession[j] = NoSession
    BY DEF Engine!DrainedLeavesNobody
  <2>1. IsFiniteSet(Engine!Q!Running) /\ Cardinality(Engine!Q!Running) \in Nat
    BY FS_Subset, FS_CardinalityType DEF Engine!Q!Running, Engine!Q!WithStatus
  <2>2. Cardinality(Engine!Q!Running) = 0
    BY <2>1 DEF CountInv, EngineTypes
  <2>3. Engine!Q!Running = {}
    BY <2>1, <2>2, FS_EmptySet
  <2> QED
    BY <2>3 DEF WorkInv, Engine!Q!Running, Engine!Q!WithStatus
<1> QED
  BY <1>1, <1>2 DEF LinkInv

(***************************************************************************)
(* Uploads, by the proofs in RemoteUpload                                  *)
(***************************************************************************)

\* Nobody else uploads to the destination meanwhile.
OneUpload == \E u \in Uploads : Uploads = {u}

UploadInv ==
    Upload!IInv /\ Upload!SkipInv /\ Upload!AloneInv

\* The constants of an upload are those the proofs are about.
LEMMA UploadConstants == Upload!UploadAssumption
  BY TransfersAssumption

\* Nothing has been sent when the uploads begin.
LEMMA UploadStarts ==
    ASSUME Upload!Init
    PROVE  UploadInv
<1>1. Upload!SkipInv
  BY DEF Upload!Init, Upload!SkipInv
<1> QED
  BY <1>1, UploadConstants, Upload!InitIInv, Upload!InitAlone DEF UploadInv

\* Every step of the only upload keeps the invariant, and the one that reports success
\* has its content at the destination.
LEMMA UploadSteps ==
    ASSUME OneUpload, Lists, UploadInv, [Upload!Next]_(Upload!vars)
    PROVE  UploadInv' /\ Upload!SuccessIsTrueStep
<1>1. Upload!OneUpload
  BY DEF OneUpload, Upload!OneUpload
<1>2. Upload!SuccessIsTrueStep
  BY <1>1, UploadConstants, Upload!SuccessStep DEF UploadInv
<1> QED
  BY <1>1, <1>2, UploadConstants, Upload!NextIInv, Upload!NextSkip, Upload!NextAlone
     DEF UploadInv

\* With a single upload its invariant gives what the suite states.
LEMMA UploadImplies ==
    ASSUME OneUpload, UploadInv
    PROVE  Upload!SkipKeepsOriginal /\ Upload!BackupKeepsOriginal
  BY DEF OneUpload, UploadInv, Upload!SkipInv, Upload!AloneInv,
     Upload!SkipKeepsOriginal, Upload!BackupKeepsOriginal, Upload!Attempts

(***************************************************************************)
(* The suite                                                               *)
(***************************************************************************)

\* The component a behaviour is about begins in its own initial states.
LEMMA PartStarts ==
    ASSUME Init
    PROVE  /\ part = "replace" => Replace!Init
           /\ part = "create" => Create!Init
           /\ part = "upload" => Upload!Init
           /\ part = "source" => Source!Init
           /\ part = "delete" => Delete!Init
           /\ part = "tree" => Tree!Init
           /\ part = "editor" => Editor!Init
           /\ part = "sftp" => SSH!Init
           /\ part = "engine" => Engine!Init
           /\ part = "broker" => Broker!Init
  BY DEF Init

\* Every step is one of that component, or leaves its variables alone.
LEMMA PartSteps ==
    ASSUME [Next]_vars
    PROVE  /\ part' = part
           /\ part = "replace" => [Replace!Next]_(Replace!vars)
           /\ part = "create" => [Create!Next]_(Create!vars)
           /\ part = "upload" => [Upload!Next]_(Upload!vars)
           /\ part = "source" => [Source!Next]_(Source!vars)
           /\ part = "delete" => [Delete!Next]_(Delete!vars)
           /\ part = "tree" => [Tree!Next]_(Tree!vars)
           /\ part = "editor" => [Editor!Next]_(Editor!vars)
           /\ part = "sftp" => [SSH!Next]_(SSH!vars)
           /\ part = "engine" => [Engine!Next]_(Engine!vars)
           /\ part = "broker" => [Broker!Next]_(Broker!vars)
<1>1. CASE Next
  BY <1>1 DEF Next, OnlyReplace, OnlyCreate, OnlyUpload, OnlySource, OnlyDelete, OnlyTree,
              OnlyEditor, OnlySSH, OnlyEngine, OnlyBroker
<1>2. CASE UNCHANGED vars
  <2>1. UNCHANGED Replace!vars
    BY <1>2 DEF vars, ReplaceVars, Replace!vars, Replace!files, Replace!jobVars, Replace!history
  <2>2. UNCHANGED Create!vars
    BY <1>2 DEF vars, CreateVars, Create!vars, Create!files, Create!jobVars, Create!history
  <2>3. UNCHANGED Upload!vars
    BY <1>2 DEF vars, UploadVars, Upload!vars, Upload!files, Upload!jobVars
  <2>4. UNCHANGED Source!vars
    BY <1>2 DEF vars, SourceVars, Source!vars, Source!fileVars, Source!snapVars
  <2>5. UNCHANGED Delete!vars
    BY <1>2 DEF vars, DeleteVars, Delete!vars, Delete!tree
  <2>6. UNCHANGED Tree!vars
    BY <1>2 DEF vars, TreeVars, Tree!vars, Tree!plan, Tree!queue, Tree!target
  <2>7. UNCHANGED Editor!vars
    BY <1>2 DEF vars, EditorVars, Editor!vars, Editor!server, Editor!editor, Editor!disk, Editor!counts
  <2>9. UNCHANGED SSH!vars
    BY <1>2 DEF vars, SSHVars, SSH!vars
  <2>10. UNCHANGED Engine!vars
    BY <1>2 DEF vars, EngineVars, Engine!vars, Engine!queueVars, Engine!sessionVars
  <2>11. UNCHANGED Broker!vars
    BY <1>2 DEF vars, BrokerVars, Broker!vars
  <2> QED
    BY <1>2, <2>1, <2>2, <2>3, <2>4, <2>5, <2>6, <2>7, <2>9, <2>10, <2>11 DEF vars
<1> QED
  BY <1>1, <1>2

\* The inductive invariant: that of the component the behaviour is about.
TransfersInv ==
    /\ part = "replace" => ReplaceInv
    /\ part = "create" => CreateInv
    /\ part = "source" => SourceInv
    /\ part = "delete" => DeleteInv
    /\ part = "tree" => TreeInv
    /\ part = "editor" => EditInv
    /\ part = "sftp" => SSHInv
    /\ part = "engine" => EngineInv
    /\ part = "broker" => BrokerInv

LEMMA TransfersStart == Init => TransfersInv
<1> SUFFICES ASSUME Init PROVE TransfersInv
  OBVIOUS
<1> QED
  BY PartStarts, ReplaceStarts, CreateStarts, SourceStarts, DeleteStarts, TreeStarts,
     EditorStarts, SSHStarts, EngineStarts, BrokerStarts DEF TransfersInv

LEMMA TransfersStep == TransfersInv /\ [Next]_vars => TransfersInv'
<1> SUFFICES ASSUME TransfersInv, [Next]_vars PROVE TransfersInv'
  OBVIOUS
<1>1. part' = part
  BY PartSteps
<1>2. CASE part \in {"replace", "create", "source"}
  BY <1>1, <1>2, PartSteps, ReplaceSteps, CreateSteps, SourceSteps DEF TransfersInv
<1>3. CASE part \in {"delete", "tree", "editor"}
  BY <1>1, <1>3, PartSteps, DeleteSteps, TreeSteps, EditorSteps DEF TransfersInv
<1>4. CASE part \in {"sftp", "engine", "broker"}
  BY <1>1, <1>4, PartSteps, SSHSteps, EngineSteps, BrokerSteps DEF TransfersInv
<1> QED
  BY <1>1, <1>2, <1>3, <1>4 DEF TransfersInv

\* Every state of a behaviour satisfies the inductive invariant of its component.
THEOREM TransfersInvariant == Spec => []TransfersInv
  BY TransfersStart, TransfersStep, PTL DEF Spec

\* What the suite says of downloads holds for any number of them and of attempts, with and
\* without hard links: local_download_root.go keeps a whole file through every failure.
THEOREM DownloadsKeepACopy ==
    Spec => [](part = "replace" =>
                  Replace!CopySurvives /\ Replace!BackupKeepsOriginal /\ Replace!SuccessIsTrue)
<1>1. TransfersInv => (part = "replace" =>
          Replace!CopySurvives /\ Replace!BackupKeepsOriginal /\ Replace!SuccessIsTrue)
  BY ReplaceImplies DEF TransfersInv
<1> QED
  BY <1>1, TransfersInvariant, PTL

\* The original survives transfers: downloads always, an upload when nobody else replaces
\* the same file meanwhile and the listings of the server show it (remote_commit.go).
THEOREM CopiesSurvive == OneUpload /\ Lists => (Spec => []CopySurvives)
<1> SUFFICES ASSUME OneUpload, Lists PROVE Spec => []CopySurvives
  OBVIOUS
<1> DEFINE UploadHere == part = "upload" => UploadInv
<1>1. Init => UploadHere
  BY PartStarts, UploadStarts
<1>2. UploadHere /\ [Next]_vars => UploadHere'
  BY PartSteps, UploadSteps
<1>3. TransfersInv /\ UploadHere => CopySurvives
  BY UploadImplies, ReplaceImplies DEF TransfersInv, CopySurvives
<1> QED
  BY <1>1, <1>2, <1>3, TransfersInvariant, PTL DEF Spec

\* What the server is sent was the file's content at one moment, for any number of blocks
\* and of writes meanwhile, and its snapshot is removed (upload_source_snapshot.go); a
\* save keeps the mode and leaves no private directory (remote_edit.go).
THEOREM WhatIsSent == Spec => []SentIsOneMoment
<1>1. TransfersInv => SentIsOneMoment
  BY SourceImplies, EditorImplies DEF TransfersInv, SentIsOneMoment
<1> QED
  BY <1>1, TransfersInvariant, PTL

\* A deletion stays inside what was picked and a folder's transfer keeps its places, its
\* order and its tree, for every tree of any size and whoever changes it meanwhile
\* (remote_delete.go, tree_transfer.go).
THEOREM TreesStayInside == Spec => []TreeStaysInside
<1>1. DeleteInv => Delete!NothingOutside
  BY DEF DeleteInv
<1>2. TransfersInv => TreeStaysInside
  BY <1>1, TreeImplies DEF TransfersInv, TreeStaysInside
<1> QED
  BY <1>2, TransfersInvariant, PTL

\* A session keeps its secrets, its files and its transfers, for any number of sessions,
\* helpers, tokens, jobs and accounts (secret_broker_linux.go, openssh_session.go,
\* engine.go).
THEOREM SessionsKeepTheirOwn == Spec => []SessionKeepsItsOwn
<1>1. TransfersInv => SessionKeepsItsOwn
  BY BrokerImplies, EngineImplies, SSHImplies DEF TransfersInv, SessionKeepsItsOwn
<1> QED
  BY <1>1, TransfersInvariant, PTL

\* No step replaces or drops anything of the user unasked, where the editor's control
\* takes every text it is given: downloads that skip (local_download_root.go), saves and
\* closes of an editor (remote_edit.go and its windows).
THEOREM NothingIsDropped == ~Long => (Spec => NothingDropped)
<1> SUFFICES ASSUME ~Long PROVE Spec => NothingDropped
  OBVIOUS
<1> DEFINE DropStep ==
        /\ part = "create" => Create!SkipReplacesNothingStep
        /\ part = "editor" => Editor!NoBlindOverwriteStep /\ Editor!DropsOnlyAskedStep
                              /\ Editor!FailureKeepsTextStep
<1>1. TransfersInv /\ [Next]_vars => DropStep
  BY PartSteps, CreateSteps, EditorNeverDrops, EditorAsksFirst DEF TransfersInv
<1> QED
  BY <1>1, TransfersInvariant, PTL DEF Spec, NothingDropped

\* A step that reports success has done what it says: deletions, saves, folders and their
\* queue always, an upload under the conditions of CopiesSurvive.
THEOREM SuccessSaysWhatHappened == OneUpload /\ Lists => (Spec => SuccessIsTrue)
<1> SUFFICES ASSUME OneUpload, Lists PROVE Spec => SuccessIsTrue
  OBVIOUS
<1> DEFINE
      UploadHere == part = "upload" => UploadInv
      TrueStep ==
        /\ part = "upload" => Upload!SuccessIsTrueStep
        /\ part = "delete" => Delete!SuccessMeansGoneStep
        /\ part = "editor" => Editor!ReadIsTrueStep
        /\ part = "tree" => Tree!KnownWhenDirectoryStep /\ Tree!SameConnectionStep
<1>1. Init => UploadHere
  BY PartStarts, UploadStarts
<1>2. UploadHere /\ [Next]_vars => UploadHere'
  BY PartSteps, UploadSteps
<1>3. TransfersInv /\ UploadHere /\ [Next]_vars => TrueStep
  BY PartSteps, UploadSteps, DeleteSteps, EditorNeverDrops, TreeSteps DEF TransfersInv
<1> QED
  BY <1>1, <1>2, <1>3, TransfersInvariant, PTL DEF Spec, SuccessIsTrue
=============================================================================
