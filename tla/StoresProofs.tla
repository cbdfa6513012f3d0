---------------------------- MODULE StoresProofs ----------------------------
(***************************************************************************)
(* Proofs about what is kept on disk and in the registry: profiles, sites, *)
(* bookmarks, settings, setup and removal.  Each component has an          *)
(* inductive invariant: its states satisfy it at the start (...Starts),    *)
(* every step keeps it (...Steps), and what the suite checks follows from  *)
(* it (...Implies).  The last section puts them together for a behaviour   *)
(* of MCStores, for every value of its constants.                          *)
(***************************************************************************)
EXTENDS MCStores, FiniteSetTheorems, TLAPS

(***************************************************************************)
(* Saved sites: what is kept belongs to the account it was typed for       *)
(***************************************************************************)

\* A stored site: what it keeps was typed for the account and the key it names now, and
\* only SFTP has a pin.
SiteOk(p) ==
    /\ DOMAIN p = {"protocol", "host", "user", "key", "path", "password", "passphrase", "pin"}
    /\ p.password \in {Missing, Binding!Account(p)} /\ p.path \in {Missing, Binding!Account(p)}
    /\ p.passphrase \in {Missing, <<Binding!Account(p), p.key>>}
    /\ p.protocol = "ftp" => p.pin = Missing

\* The inductive invariant of the sites: every stored site, and the one a connection
\* has read, is in order; a session uses its own secrets and the pinned key.
BindingInv ==
    /\ DOMAIN saved = Sites
    /\ \A i \in Sites : saved[i] # Missing => SiteOk(saved[i])
    /\ bindingPc # "idle" => (bindingCall.site # Missing => SiteOk(bindingCall.site))
    /\ Binding!OwnSecretsOnly /\ Binding!PinHolds

\* No site is stored and nothing connected at the start.
LEMMA BindingStarts ==
    ASSUME Binding!Init
    PROVE  BindingInv
  BY DEF Binding!Init, BindingInv, Binding!OwnSecretsOnly, Binding!PinHolds

\* Whatever is entered, what Save writes over a site in order is in order.
LEMMA WrittenIsOk ==
    ASSUME NEW old, old # Missing => SiteOk(old), NEW in \in Drafts,
           NEW path, NEW password, NEW passphrase, NEW requested
    PROVE  SiteOk(Binding!Written(old, in, path, password, passphrase, requested))
<1> DEFINE new == Binding!Written(old, in, path, password, passphrase, requested)
<1>1. /\ new.protocol = in.protocol /\ new.host = in.host /\ new.user = in.user
      /\ new.key = Binding!KeyOf(in)
      /\ DOMAIN new = {"protocol", "host", "user", "key", "path", "password", "passphrase", "pin"}
  BY DEF Binding!Written
<1>2. Binding!Account(new) = Binding!Account(in)
  BY <1>1 DEF Binding!Account
<1>3. old # Missing /\ Binding!SameAccount(old, in) =>
          old.password \in {Missing, Binding!Account(in)}
            /\ old.path \in {Missing, Binding!Account(in)}
  BY DEF SiteOk, Binding!SameAccount
<1>4. new.password \in {Missing, Binding!Account(in)}
  BY <1>3 DEF Binding!Written
<1>5. new.path \in {Missing, Binding!Account(in)}
  BY <1>3 DEF Binding!Written
<1>6. new.passphrase \in {Missing, <<Binding!Account(in), new.key>>}
  <2>1. CASE Binding!KeyOf(in) = Missing
    BY <2>1 DEF Binding!Written
  <2>2. CASE Binding!KeyOf(in) # Missing
    <3>1. Binding!KeyOf(in) = in.key
      BY <2>2 DEF Binding!KeyOf
    <3>2. old # Missing /\ Binding!SamePrivateKey(old, in) =>
              old.passphrase \in {Missing, <<Binding!Account(in), in.key>>}
      BY DEF SiteOk, Binding!SameAccount, Binding!SamePrivateKey
    <3> QED
      BY <1>1, <2>2, <3>1, <3>2 DEF Binding!Written
  <2> QED
    BY <2>1, <2>2
<1>7. new.protocol = "ftp" => new.pin = Missing
  BY DEF Binding!Written
<1> HIDE DEF new
<1>8. SiteOk(new)
  BY <1>1, <1>2, <1>4, <1>5, <1>6, <1>7 DEF SiteOk
<1> QED
  BY <1>8 DEF new

\* What a connection attaches with.
LEMMA AttachKeeps ==
    ASSUME BindingInv, bindingPc # "idle", Binding!Attach,
           Binding!Expected \in {Missing, shown}
    PROVE  Binding!OwnSecretsOnly' /\ Binding!PinHolds'
<1> DEFINE site == bindingCall.site
           cfg == bindingCall.cfg
<1>1. Binding!PasswordFor(site, cfg) \in {Missing, Binding!Account(cfg)}
  BY DEF BindingInv, SiteOk, Binding!PasswordFor, Binding!SameAccount
<1>2. Binding!PassphraseFor(site, cfg) \in {Missing, <<Binding!Account(cfg), cfg.key>>}
  BY DEF BindingInv, SiteOk, Binding!PassphraseFor, Binding!SameAccount, Binding!SamePrivateKey
<1> QED
  BY <1>1, <1>2 DEF Binding!Attach, Binding!OwnSecretsOnly, Binding!PinHolds

\* Every change of a site and every connection keeps the invariant.
LEMMA BindingSteps ==
    ASSUME BindingInv, [Binding!Next]_(Binding!vars)
    PROVE  BindingInv'
<1> USE DEF BindingInv
<1>1. CASE UNCHANGED Binding!vars
  BY <1>1 DEF Binding!vars, Binding!OwnSecretsOnly, Binding!PinHolds
<1>2. CASE Binding!Fails \/ Binding!AskTrust \/ Binding!Cancel \/ Binding!Disconnect
  BY <1>2 DEF Binding!Fails, Binding!Return, Binding!AskTrust, Binding!Cancel,
     Binding!Disconnect, Binding!OwnSecretsOnly, Binding!PinHolds
<1>3. CASE Binding!AttachFtp
  <2>1. Binding!Expected = Missing
    BY <1>3 DEF Binding!AttachFtp, Binding!Expected, Binding!PinnedEndpoint, Binding!Endpoint,
       SiteOk
  <2> QED
    BY <1>3, <2>1, AttachKeeps DEF Binding!AttachFtp, Binding!Attach
<1>4. CASE Binding!Accept
  <2>1. Binding!OwnSecretsOnly' /\ Binding!PinHolds'
    BY <1>4, AttachKeeps DEF Binding!Accept
  <2>2. DOMAIN saved' = Sites /\ \A i \in Sites : saved'[i] # Missing => SiteOk(saved'[i])
    <3>1. CASE UNCHANGED saved
      BY <3>1
    <3>2. CASE /\ bindingCall.id \in Binding!Live /\ saved[bindingCall.id].protocol = "sftp"
               /\ saved' = [saved EXCEPT ![bindingCall.id].pin =
                               [endpoint |-> Binding!Endpoint(bindingCall.cfg), key |-> shown]]
      <4> DEFINE i == bindingCall.id
      <4>1. i \in Sites /\ SiteOk(saved[i])
        BY <3>2 DEF Binding!Live
      <4>2. /\ saved'[i].protocol = "sftp" /\ saved'[i].host = saved[i].host
            /\ saved'[i].user = saved[i].user /\ saved'[i].key = saved[i].key
            /\ saved'[i].path = saved[i].path /\ saved'[i].password = saved[i].password
            /\ saved'[i].passphrase = saved[i].passphrase /\ DOMAIN saved'[i] = DOMAIN saved[i]
        BY <3>2, <4>1 DEF SiteOk
      <4>3. SiteOk(saved'[i])
        BY <3>2, <4>1, <4>2 DEF SiteOk, Binding!Account
      <4> QED
        BY <3>2, <4>1, <4>3
    <3> QED
      BY <1>4, <3>1, <3>2 DEF Binding!Accept
  <2> QED
    BY <1>4, <2>1, <2>2 DEF Binding!Accept, Binding!Attach
<1>5. CASE \E i \in Sites : Binding!Remove(i)
  BY <1>5 DEF Binding!Remove, Binding!OwnSecretsOnly, Binding!PinHolds
<1>6. ASSUME NEW i \in Sites, NEW in \in Drafts, NEW how \in Forms,
             NEW h \in ShownKeys \cup {Missing}, Binding!Save(i, in, how[1], how[2], how[3], h)
      PROVE  BindingInv'
  <2>1. SiteOk(Binding!Written(saved[i], in, how[1], how[2], how[3], h))
    BY WrittenIsOk
  <2> QED
    BY <1>6, <2>1 DEF Binding!Save, Binding!OwnSecretsOnly, Binding!PinHolds
<1>7. ASSUME NEW i \in Sites, NEW in \in Drafts, NEW path, Binding!Import(in, path, i)
      PROVE  BindingInv'
  <2>1. SiteOk(Binding!Written(Missing, in, path, "kept", "kept", Missing))
    BY WrittenIsOk
  <2> QED
    BY <1>7, <2>1 DEF Binding!Import, Binding!OwnSecretsOnly, Binding!PinHolds
<1>8. ASSUME NEW i \in Sites \cup {Missing}, NEW cfg \in Drafts,
             NEW t \in ShownKeys \cup {Missing}, Binding!Connect(i, cfg, t)
      PROVE  BindingInv'
  <2>1. i # Missing => i \in Sites
    OBVIOUS
  <2> QED
    BY <1>8, <2>1 DEF Binding!Connect, Binding!OwnSecretsOnly, Binding!PinHolds
<1>9. CASE \E k \in ShownKeys : Binding!Scan(k)
  BY <1>9 DEF Binding!Scan, Binding!OwnSecretsOnly, Binding!PinHolds
<1> QED
  BY <1>1, <1>2, <1>3, <1>4, <1>5, <1>6, <1>7, <1>8, <1>9 DEF Binding!Next

\* The invariant says what the suite checks of sites and sessions (profiles.go).
LEMMA BindingImplies == BindingInv =>
    Binding!SecretsBelong /\ Binding!OwnSecretsOnly /\ Binding!PinHolds
  BY DEF BindingInv, SiteOk, Binding!SecretsBelong, Binding!Live

(***************************************************************************)
(* Bookmarks: what was reported as saved stays in the file                 *)
(***************************************************************************)

\* The collections that have been written so far, with ids below the next one.
Written == SUBSET [id : 1..marksIssued, of : Accounts \cup {"local"}]

\* A file holds a collection, or cannot be read and holds none.
MarksFileOk(f) ==
    /\ f.items \in Written
    /\ f \in {Marks!Absent, Marks!Damaged, Marks!Whole(f.items)}

\* What reading would find if no read were missed.
Newest == IF Marks!Readable(marksMain) THEN marksMain.items ELSE marksPrevious.items

\* A write in progress holds everything that was acknowledged and will be after it,
\* unless a read was missed for it; then the file still does, until it is copied.
PendingKeeps ==
    /\ marksPending.kind \in {"save", "remove"} /\ marksPending.kept \in BOOLEAN
    /\ DOMAIN marksPending = {"kind", "id", "kept", "items"}
    /\ marksPending.items \in Written
    /\ marksPending.kind = "save" => marksPending.id \in Marks!Ids(marksPending.items)
    /\ marksMissed = 0 =>
          marksAcknowledged \ {marksPending.id} \subseteq Marks!Ids(marksPending.items)
    /\ marksMissed = 1 =>
          /\ Marks!Readable(marksMain) /\ marksAcknowledged \subseteq Marks!Ids(marksMain.items)
          /\ marksPending.kept => marksPrevious = marksMain

\* The inductive invariant of the collection.
MarksInv ==
    /\ marksIssued \in Nat /\ marksMissed \in {0, 1, 2}
    /\ MarksFileOk(marksMain) /\ MarksFileOk(marksPrevious)
    /\ marksPrevious # Marks!Damaged
    /\ marksPending # Marks!NoWrite => PendingKeeps
    /\ marksMissed = 0 => marksAcknowledged \subseteq Marks!Ids(Newest)
    /\ marksMissed = 1 =>
          marksAcknowledged \subseteq Marks!Ids(marksMain.items) \cup Marks!Ids(marksPrevious.items)

\* What the states of a file are, and that one without a collection holds nothing.
LEMMA MarksFacts ==
    /\ Marks!Absent.state = "absent" /\ Marks!Absent.items = {}
    /\ Marks!Damaged.state = "damaged" /\ Marks!Damaged.items = {}
    /\ \A whole : Marks!Whole(whole).state = "whole" /\ Marks!Whole(whole).items = whole
    /\ \A f : MarksFileOk(f) => (Marks!Readable(f) <=> f = Marks!Whole(f.items))
    /\ \A f : MarksFileOk(f) /\ ~Marks!Readable(f) => f.items = {}
  BY DEF Marks!Absent, Marks!Damaged, Marks!Whole, Marks!Readable, MarksFileOk

\* Nothing has been saved when the collection is first opened.
LEMMA MarksStarts ==
    ASSUME Marks!Init
    PROVE  MarksInv
  BY DEF Marks!Init, MarksInv, MarksFileOk, Marks!Absent, Marks!Damaged, Written, Newest,
     Marks!Ids,
     Marks!Readable

\* A load answers the newest collection, or it misses the file once more.
LEMMA LoadAnswers ==
    ASSUME MarksInv, NEW seen \in BOOLEAN, Marks!Loadable(seen)
    PROVE  /\ Marks!loadLocked(seen) \in Written
           /\ \E g \in {marksMain, marksPrevious} :
                 /\ Marks!loadLocked(seen) = g.items
                 /\ Marks!Readable(g)
                      \/ (marksMain = Marks!Absent /\ marksPrevious = Marks!Absent)
           /\ seen => Marks!loadLocked(seen) = Newest
  BY MarksFacts DEF MarksInv, MarksFileOk, Marks!Loadable, Marks!loadLocked, Newest

\* A file stays in order when one more id has been given out.
LEMMA MoreIssued ==
    ASSUME NEW f, MarksFileOk(f), marksIssued' = marksIssued + 1, marksIssued \in Nat
    PROVE  /\ Written \subseteq Written'
           /\ f.items \in Written' /\ f \in {Marks!Absent, Marks!Damaged, Marks!Whole(f.items)}
  BY DEF MarksFileOk, Written

\* A call begins to write what it has loaded with one change.
LEMMA MarksBegin ==
    ASSUME MarksInv, NEW seen \in BOOLEAN, seen \/ Marks!Readable(marksMain),
           Marks!Loadable(seen),
           marksPending = Marks!NoWrite,
           marksPending'.items \in Written', marksPending'.kept = FALSE,
           marksPending'.kind \in {"save", "remove"},
           DOMAIN marksPending' = {"kind", "id", "kept", "items"},
           marksPending'.kind = "save" => marksPending'.id \in Marks!Ids(marksPending'.items),
           Marks!Ids(Marks!loadLocked(seen)) \ {marksPending'.id}
             \subseteq Marks!Ids(marksPending'.items),
           marksMissed' = (IF marksMissed > 0 THEN 2 ELSE IF seen THEN 0 ELSE 1),
           marksIssued' \in {marksIssued, marksIssued + 1},
           UNCHANGED <<marksMain, marksPrevious, marksAcknowledged>>
    PROVE  MarksInv'
<1>1. marksIssued' \in Nat /\ marksMissed' \in {0, 1, 2}
  BY DEF MarksInv
<1>2. MarksFileOk(marksMain)' /\ MarksFileOk(marksPrevious)'
  BY MoreIssued DEF MarksInv, MarksFileOk, Written
<1>3. marksMissed' = 0 => marksMissed = 0 /\ seen
  BY DEF MarksInv
<1>4. marksMissed' = 1 => marksMissed = 0 /\ ~seen
  BY DEF MarksInv
<1>5. PendingKeeps'
  <2>1. marksMissed' = 0 =>
           marksAcknowledged \ {marksPending'.id} \subseteq Marks!Ids(marksPending'.items)
    BY <1>3, LoadAnswers DEF MarksInv
  <2>2. marksMissed' = 1 =>
           Marks!Readable(marksMain) /\ marksAcknowledged \subseteq Marks!Ids(marksMain.items)
    BY <1>4 DEF MarksInv, Newest
  <2> QED
    BY <2>1, <2>2 DEF PendingKeeps
<1>6. Newest' = Newest
  BY DEF Newest
<1> QED
  BY <1>1, <1>2, <1>3, <1>4, <1>5, <1>6 DEF MarksInv, Newest

\* One bookmark more or less is a difference of one id.
LEMMA OneDiffers ==
    ASSUME NEW S, NEW T, NEW x, Marks!SymDiff(S, T) = {x}
    PROVE  Marks!Cardinality(Marks!SymDiff(S, T)) = 1
<1>1. \A S1 : Marks!Cardinality(S1) = Cardinality(S1)
  BY DEF Marks!Cardinality, Cardinality
<1> QED
  BY <1>1, FS_Singleton

\* A save adds one bookmark to what it loaded.
LEMMA MarksSave ==
    ASSUME MarksInv, Marks!Save
    PROVE  MarksInv' /\ Marks!OneChangeStep
<1>1. PICK of \in Accounts \cup {"local"}, seen \in BOOLEAN :
        /\ seen \/ Marks!Readable(marksMain)
        /\ Marks!Loadable(seen)
        /\ marksPending' = [kind |-> "save", id |-> marksIssued + 1, kept |-> FALSE,
              items |-> Marks!loadLocked(seen) \cup {[id |-> marksIssued + 1, of |-> of]}]
        /\ marksMissed' = (IF marksMissed > 0 THEN 2 ELSE IF seen THEN 0 ELSE 1)
  BY DEF Marks!Save, Marks!Load
<1> DEFINE old == Marks!loadLocked(seen)
           new == [id |-> marksIssued + 1, of |-> of]
<1>2. /\ marksPending = Marks!NoWrite /\ marksIssued' = marksIssued + 1 /\ marksIssued \in Nat
      /\ UNCHANGED <<marksMain, marksPrevious, marksAcknowledged>>
  BY DEF Marks!Save, MarksInv
<1>3. old \in Written
  BY <1>1, LoadAnswers
<1>4. Marks!Ids(old \cup {new}) = Marks!Ids(old) \cup {marksIssued + 1}
  <2>1. new.id = marksIssued + 1
    OBVIOUS
  <2> HIDE DEF old, new
  <2> QED
    BY <2>1 DEF Marks!Ids
<1>5. old \cup {new} \in Written'
  BY <1>2, <1>3 DEF Written
<1>6. MarksInv'
  BY <1>1, <1>2, <1>4, <1>5, MarksBegin
<1>7. marksIssued + 1 \notin Marks!Ids(old)
  BY <1>2, <1>3 DEF Written, Marks!Ids
<1>8. Marks!SymDiff(Marks!Ids(old), Marks!Ids(marksPending'.items)) = {marksIssued + 1}
  BY <1>1, <1>4, <1>7 DEF Marks!SymDiff
<1> QED
  BY <1>1, <1>6, <1>8, LoadAnswers, OneDiffers DEF Marks!OneChangeStep

\* A removal takes one bookmark from what it loaded.
LEMMA MarksRemove ==
    ASSUME MarksInv, Marks!Remove
    PROVE  MarksInv' /\ Marks!OneChangeStep
<1>1. PICK id \in 1..marksIssued, seen \in BOOLEAN :
        /\ seen \/ Marks!Readable(marksMain)
        /\ Marks!Loadable(seen)
        /\ id \in Marks!Ids(Marks!loadLocked(seen))
        /\ marksPending' = [kind |-> "remove", id |-> id, kept |-> FALSE,
              items |-> {b \in Marks!loadLocked(seen) : b.id # id}]
        /\ marksMissed' = (IF marksMissed > 0 THEN 2 ELSE IF seen THEN 0 ELSE 1)
  BY DEF Marks!Remove, Marks!Load
<1> DEFINE old == Marks!loadLocked(seen)
<1>2. /\ marksPending = Marks!NoWrite /\ marksIssued' = marksIssued
      /\ UNCHANGED <<marksMain, marksPrevious, marksAcknowledged>>
  BY DEF Marks!Remove
<1>3. old \in Written
  BY <1>1, LoadAnswers
<1>4. Marks!Ids({b \in old : b.id # id}) = Marks!Ids(old) \ {id}
  BY DEF Marks!Ids
<1>5. {b \in old : b.id # id} \in Written'
  BY <1>2, <1>3 DEF Written
<1>6. MarksInv'
  BY <1>1, <1>2, <1>4, <1>5, MarksBegin
<1>8. Marks!SymDiff(Marks!Ids(old), Marks!Ids(marksPending'.items)) = {id}
  BY <1>1, <1>4 DEF Marks!SymDiff
<1> QED
  BY <1>1, <1>6, <1>8, LoadAnswers, OneDiffers DEF Marks!OneChangeStep

\* Copying the file to the previous one loses nothing of either.
LEMMA MarksKeep ==
    ASSUME MarksInv, Marks!Keep
    PROVE  MarksInv'
<1>1. /\ marksPending # Marks!NoWrite /\ PendingKeeps
      /\ marksPending' = [marksPending EXCEPT !.kept = TRUE]
      /\ UNCHANGED <<marksMain, marksIssued, marksAcknowledged>>
  BY DEF Marks!Keep, MarksInv
<1>2. /\ marksPending'.kind = marksPending.kind /\ marksPending'.id = marksPending.id
      /\ marksPending'.items = marksPending.items /\ marksPending'.kept = TRUE
      /\ DOMAIN marksPending' = DOMAIN marksPending
  BY <1>1 DEF PendingKeeps
<1>3. marksPrevious' \in {marksPrevious, marksMain}
        /\ (marksPrevious' = marksPrevious \/ Marks!Readable(marksMain))
  BY DEF Marks!Keep
<1>4. MarksFileOk(marksMain)' /\ MarksFileOk(marksPrevious)' /\ marksPrevious' # Marks!Damaged
  BY <1>1, <1>3, MarksFacts DEF MarksInv, MarksFileOk, Written, Marks!Readable
<1>5. marksMissed' \in {0, 1, 2} /\ (marksMissed' = 0 => marksMissed = 0)
      /\ (marksMissed' = 1 => marksMissed = 1)
  BY DEF Marks!Keep, MarksInv
<1>6. marksMissed' = 1 => marksPrevious' = marksMain
  BY <1>1, <1>5 DEF Marks!Keep, PendingKeeps
<1>7. PendingKeeps'
  BY <1>1, <1>2, <1>5, <1>6 DEF PendingKeeps, Written, Marks!Readable
<1>8. Newest' = Newest
  BY <1>1, <1>3 DEF Newest, Marks!Readable
<1> QED
  BY <1>1, <1>4, <1>5, <1>6, <1>7, <1>8 DEF MarksInv, PendingKeeps

\* The write replaces the file, which is in the previous one by then.
LEMMA MarksReplace ==
    ASSUME MarksInv, Marks!Replace
    PROVE  MarksInv'
<1>1. /\ marksPending # Marks!NoWrite /\ PendingKeeps /\ marksPending.kept
      /\ marksMain' = Marks!Whole(marksPending.items) /\ marksPending' = Marks!NoWrite
      /\ UNCHANGED <<marksPrevious, marksIssued, marksMissed>>
      /\ marksAcknowledged' = IF marksPending.kind
           = "save" THEN marksAcknowledged \cup {marksPending.id}
                              ELSE marksAcknowledged \ {marksPending.id}
  BY DEF Marks!Replace, MarksInv
<1>2. MarksFileOk(marksMain)' /\ marksMain'.items = marksPending.items
        /\ Marks!Readable(marksMain')
  BY <1>1, MarksFacts DEF MarksFileOk, PendingKeeps, Written, Marks!Readable
<1>3. MarksFileOk(marksPrevious)'
  BY <1>1 DEF MarksInv, MarksFileOk, Written
<1>4. Newest' = marksPending.items
  BY <1>2 DEF Newest, Marks!Readable
<1>5. marksMissed = 0 => marksAcknowledged' \subseteq Marks!Ids(marksPending.items)
  BY <1>1 DEF PendingKeeps
<1>6. marksMissed = 1 => marksAcknowledged' \subseteq
          Marks!Ids(marksPending.items) \cup Marks!Ids(marksPrevious.items)
  BY <1>1 DEF PendingKeeps
<1> QED
  BY <1>1, <1>2, <1>3, <1>4, <1>5, <1>6 DEF MarksInv

\* Every step keeps the invariant and changes one bookmark at most.
LEMMA MarksSteps ==
    ASSUME MarksInv, [Marks!Next]_(Marks!vars)
    PROVE  MarksInv' /\ Marks!OneChangeStep
<1>1. CASE Marks!Save
  BY <1>1, MarksSave
<1>2. CASE Marks!Remove
  BY <1>2, MarksRemove
<1>3. CASE Marks!Keep
  BY <1>3, MarksKeep DEF Marks!Keep, Marks!OneChangeStep
<1>4. CASE Marks!Replace
  BY <1>4, MarksReplace DEF Marks!Replace, Marks!OneChangeStep
<1>5. CASE Marks!WriteFails
  <2>1. /\ marksPending # Marks!NoWrite /\ PendingKeeps /\ marksPending' = Marks!NoWrite
        /\ marksMissed' = (IF marksMissed = 1 THEN 0 ELSE marksMissed)
        /\ UNCHANGED <<marksMain, marksPrevious, marksIssued, marksAcknowledged>>
    BY <1>5 DEF Marks!WriteFails, MarksInv
  <2>2. MarksFileOk(marksMain)' /\ MarksFileOk(marksPrevious)' /\ Newest' = Newest
    BY <2>1 DEF MarksInv, MarksFileOk, Written, Newest, Marks!Readable
  <2>3. marksMissed' # 1 /\ (marksMissed' = 0 => marksAcknowledged \subseteq Marks!Ids(Newest))
    BY <2>1 DEF MarksInv, PendingKeeps, Newest
  <2> QED
    BY <2>1, <2>2, <2>3 DEF MarksInv, Marks!OneChangeStep
<1>6. CASE Marks!Damage
  <2>1. /\ marksPending = Marks!NoWrite /\ marksMain' = Marks!Damaged
        /\ marksAcknowledged' = marksAcknowledged \cap Marks!Ids(marksPrevious.items)
        /\ UNCHANGED <<marksPrevious, marksPending, marksIssued, marksMissed>>
    BY <1>6 DEF Marks!Damage
  <2>2. MarksFileOk(marksMain)' /\ MarksFileOk(marksPrevious)' /\ Newest' = marksPrevious.items
    BY <2>1, MarksFacts DEF MarksInv, MarksFileOk, Written, Newest, Marks!Readable
  <2> QED
    BY <2>1, <2>2 DEF MarksInv, Marks!OneChangeStep
<1>7. ASSUME UNCHANGED Marks!files
      PROVE  MarksInv' /\ Marks!OneChangeStep
  <2>1. UNCHANGED <<marksMain, marksPrevious, marksPending, marksIssued, marksAcknowledged,
          marksMissed>>
    BY <1>7 DEF Marks!files
  <2>2. MarksFileOk(marksMain)' /\ MarksFileOk(marksPrevious)' /\ Newest' = Newest
    BY <2>1 DEF MarksInv, MarksFileOk, Written, Newest, Marks!Readable
  <2>3. PendingKeeps => PendingKeeps'
    BY <2>1 DEF PendingKeeps, Written, Marks!Readable
  <2> QED
    BY <2>1, <2>2, <2>3 DEF MarksInv, Marks!OneChangeStep
<1>8. CASE UNCHANGED Marks!vars
  BY <1>7, <1>8 DEF Marks!vars, Marks!files
<1>9. CASE \/ Marks!Connect \/ Marks!Disconnect \/ Marks!Start \/ Marks!Identify
           \/ Marks!List \/ Marks!Settle \/ Marks!GiveUp
  BY <1>7, <1>9 DEF Marks!Connect, Marks!Disconnect, Marks!Start, Marks!Identify, Marks!List,
     Marks!Settle, Marks!GiveUp
<1> QED
  BY <1>1, <1>2, <1>3, <1>4, <1>5, <1>6, <1>8, <1>9 DEF Marks!Next

\* The invariant says that what was reported as saved is found (bookmarks.go).
LEMMA MarksImplies == MarksInv => Marks!SavedIsKept
  BY DEF MarksInv, Marks!SavedIsKept, Newest


\* A listing came from one connection: that of the identity taken before, unless the
\* connection has changed since.
VisitsInv ==
    /\ visitsSession \in [account : Accounts \cup {"none"}, number : Nat]
    /\ visitsNav.step \in {"identified", "listed"} =>
          visitsNav.before \in Nat /\ visitsNav.before <= visitsSession.number
    /\ visitsNav.step = "listed" =>
          /\ DOMAIN visitsNav = {"step", "bookmark", "before", "rows"}
          /\ visitsNav.rows \in [account : Accounts, number : Nat]
          /\ visitsNav.rows.account # "none"
          /\ visitsNav.before <= visitsNav.rows.number
          /\ visitsNav.rows.number <= visitsSession.number
          /\ visitsNav.rows.number = visitsSession.number /\ visitsSession.account # "none" =>
                visitsNav.rows.account = visitsSession.account
    /\ Visits!RowsOfAccount

\* Nobody is connected at the start.
LEMMA VisitsStarts ==
    ASSUME Visits!Init
    PROVE  VisitsInv
  BY DEF Visits!Init, VisitsInv, Visits!NoSession, Visits!Idle, Visits!RowsOfAccount

\* No reconnection between the parts of a visit puts the rows of one account under another.
LEMMA VisitsSteps ==
    ASSUME VisitsInv, [Visits!Next]_(Visits!vars)
    PROVE  VisitsInv'
<1> USE DEF VisitsInv, Visits!RowsOfAccount
<1>1. CASE UNCHANGED <<visitsSession, visitsNav>>
  BY <1>1
<1>2. CASE \/ Visits!Save \/ Visits!Remove \/ Visits!Keep \/ Visits!Replace \/ Visits!WriteFails
           \/ Visits!Damage \/ UNCHANGED Visits!vars
  BY <1>1, <1>2 DEF Visits!Save, Visits!Remove, Visits!Keep, Visits!Replace, Visits!WriteFails,
     Visits!Damage, Visits!vars
<1>3. CASE Visits!Connect
  BY <1>3 DEF Visits!Connect
<1>4. CASE Visits!Disconnect
  BY <1>4 DEF Visits!Disconnect
<1>5. CASE Visits!Start
  BY <1>5 DEF Visits!Start
<1>6. CASE Visits!Identify
  BY <1>6 DEF Visits!Identify, Visits!connectionIdentity
<1>7. CASE Visits!List
  BY <1>7 DEF Visits!List
<1>8. CASE Visits!Settle
  BY <1>8 DEF Visits!Settle, Visits!connectionIdentity, Visits!Matches, Visits!Idle
<1>9. CASE Visits!GiveUp
  BY <1>9 DEF Visits!GiveUp, Visits!Idle
<1> QED
  BY <1>2, <1>3, <1>4, <1>5, <1>6, <1>7, <1>8, <1>9 DEF Visits!Next

(***************************************************************************)
(* Profiles: what was acknowledged is found after every crash              *)
(***************************************************************************)

\* What a crash may leave answers with all that was saved and nothing removed.
Finds(s, p, l, k) ==
    kept \subseteq Profile!Found(s, p, l, k) /\ gone \cap Profile!Found(s, p, l, k) = {}

\* Nothing was written after a read that missed the newest file, nor with a key that was
\* never synced.
Unforgotten == ~forgot /\ ~weak

\* Every crash leaves such files.
FindsAll ==
    Unforgotten =>
        \A s \in secMay, p \in prevMay, l \in legMay, k \in keyMay : Finds(s, p, l, k)

\* The states of a call that creates the key, of one that has one, of one that has changed
\* the list.
CreatingKey == {"create", "createForLoad", "keyWritten", "keyWrittenForLoad"}
WithKey == {"keep", "kept", "write", "settle", "clean"}
Saving == {"seal", "create", "keyWritten", "keep", "kept", "write", "settle", "clean"}

\* The list that a call has loaded or is about to save.
ListOk ==
    /\ profilesPc \in Saving \cup {"edit"} /\ ~older /\ Unforgotten =>
          kept \subseteq items /\ gone \cap items = {}
    /\ profilesPc \in Saving /\ ~migrating =>
          /\ profilesCall.op = "save" => profilesCall.who \in items
          /\ profilesCall.op = "remove" => profilesCall.who \notin items

\* Of the document and its previous generation one could be read, or the document was kept.
Replaceable ==
    sec = NoFile \/ Profile!Usable(sec) \/ Profile!Usable(prev) \/ prev = sec

\* What a call that writes has loaded could be read, and what it wrote is there.
DocumentOk ==
    /\ sec = NoFile => secMay = {NoFile}
    /\ prev = NoFile => prevMay = {NoFile}
    /\ profilesPc \in {"edit", "seal", "create", "keyWritten", "keep", "kept", "write"} =>
          Replaceable
    /\ profilesPc \in {"settle", "clean"} => sec = [items |-> items, by |-> key]
    /\ profilesPc = "clean" => secMay = {sec}

\* Both generations are sealed with the one key, unless a file was damaged.
OneKey ==
    damages = 0 /\ ~weak =>
        \A d \in secMay \cup prevMay : d \in Profile!Documents /\ d.by # Plain => keyMay = {d.by}

\* While a key is created the machine may still find none; a key a document is sealed with
\* is durable.
KeyOk ==
    /\ profilesPc \in CreatingKey => NoFile \in keyMay
    /\ profilesPc \in {"create", "createForLoad"} => key \notin Keys
    /\ profilesPc \in {"keyWritten", "keyWrittenForLoad"} => key \in Keys
    /\ profilesPc \in WithKey /\ ~weak => keyMay = {key}

\* The inductive invariant of the profiles.
ProfileInv == Profile!TypeOK /\ FindsAll /\ ListOk /\ DocumentOk /\ OneKey /\ KeyOk

\* What the special values are not.
LEMMA ProfileFacts ==
    /\ MaxDamages \in Nat /\ ProfileFaults \in Nat
    /\ NoFile # Broken /\ Plain \notin {NoFile, Broken}
    /\ NoFile \notin Profile!Documents /\ Broken \notin Profile!Documents
    /\ Broken \notin SUBSET Profiles /\ NoFile \notin SUBSET Profiles
    /\ NoFile \notin Keys /\ Broken \notin Keys /\ Plain \notin Keys
  BY StoresAssumption DEF Profile!ProfileAssumption

\* A document lists profiles and is sealed with a drawn key or with none.
LEMMA DocumentFacts ==
    ASSUME NEW d \in Profile!Documents
    PROVE  d.items \in SUBSET Profiles /\ d.by \in Keys \cup {Plain} /\ d # NoFile /\ d # Broken
  BY ProfileFacts DEF Profile!Documents

\* Counting a fault stays within the bounds.
LEMMA FaultCounts ==
    ASSUME Profile!TypeOK, Profile!Fault
    PROVE  /\ damages' = damages /\ damages' \in 0..MaxDamages
           /\ profileFaults' \in 0..ProfileFaults
  BY ProfileFacts DEF Profile!TypeOK, Profile!Fault

\* Without its key a document is found only in plain, whatever there is instead.
LEMMA NoKeyFinds ==
    ASSUME NEW s, NEW p, NEW l, NEW k,
           s \in Profile!Documents => s.by = Plain \/ s.by # k,
           p \in Profile!Documents => p.by = Plain \/ p.by # k,
           Finds(s, p, l, NoFile)
    PROVE  Finds(s, p, l, k)
  BY ProfileFacts DEF Finds, Profile!Found, Profile!Opened, Profile!Documents

\* Nothing is at risk when the program starts: no write is on its way.
LEMMA ProfileStarts ==
    ASSUME Profile!Init
    PROVE  ProfileInv
<1>1. Profile!TypeOK
  <2>1. sec \in Profile!Documents \cup {NoFile} /\ prev \in Profile!Documents \cup {NoFile}
    BY DEF Profile!Init
  <2>2. leg \in (SUBSET Profiles) \cup {NoFile}
    BY DEF Profile!Init
  <2>3. kept \subseteq Profiles
    BY <2>1, <2>2, DocumentFacts DEF Profile!Init
  <2>4. profilesPc = "idle" <=> profilesCall = Profile!NoCall
    BY DEF Profile!Init
  <2>5. damages \in 0..MaxDamages /\ profileFaults \in 0..ProfileFaults
    BY ProfileFacts DEF Profile!Init
  <2> QED
    BY <2>1, <2>2, <2>3, <2>4, <2>5 DEF Profile!Init, Profile!TypeOK
<1>2. FindsAll
  <2>1. /\ secMay = {sec} /\ prevMay = {prev} /\ legMay = {leg} /\ keyMay = {key} /\ gone = {}
        /\ sec = NoFile \/ (sec \in Profile!Documents /\ sec.by = Plain)
        /\ sec = NoFile => prev = NoFile
        /\ kept = IF sec # NoFile THEN sec.items ELSE IF leg # NoFile THEN leg ELSE {}
        /\ leg # Broken
    BY ProfileFacts DEF Profile!Init
  <2>2. kept \subseteq Profile!Found(sec, prev, leg, key)
    BY <2>1, ProfileFacts DEF Profile!Found, Profile!Opened
  <2> QED
    BY <2>1, <2>2 DEF FindsAll, Finds
<1>3. ListOk /\ DocumentOk /\ KeyOk
  BY ProfileFacts DEF Profile!Init, ListOk, DocumentOk, KeyOk, CreatingKey, WithKey, Saving
<1>4. OneKey
  BY ProfileFacts DEF Profile!Init, OneKey
<1> QED
  BY <1>1, <1>2, <1>3, <1>4 DEF ProfileInv

\* A step that leaves the files and what was acknowledged alone.
LEMMA FilesStay ==
    ASSUME ProfileInv, UNCHANGED Profile!fileVars, kept' \subseteq kept, gone' \subseteq gone,
           forgot => forgot', weak => weak', damages' = damages
    PROVE  /\ FindsAll' /\ OneKey'
           /\ (sec = NoFile => secMay = {NoFile})'
           /\ (prev = NoFile => prevMay = {NoFile})'
           /\ Replaceable' = Replaceable
           /\ UNCHANGED <<sec, secMay, prev, prevMay, leg, legMay, key, keyMay>>
<1>1. UNCHANGED <<sec, secMay, prev, prevMay, leg, legMay, key, keyMay>>
  BY DEF Profile!fileVars, Profile!secVars
<1>2. \A s, p, l, k : Finds(s, p, l, k) => Finds(s, p, l, k)'
  BY DEF Finds, Profile!Found, Profile!Opened
<1>3. FindsAll'
  BY <1>1, <1>2 DEF ProfileInv, FindsAll, Unforgotten
<1>4. OneKey'
  BY <1>1 DEF ProfileInv, OneKey, Profile!Documents
<1>5. Replaceable' = Replaceable
  BY <1>1 DEF Replaceable, Profile!Usable, Profile!Documents
<1> QED
  BY <1>1, <1>3, <1>4, <1>5 DEF ProfileInv, DocumentOk

\* A call that has returned leaves no list, no key on its way and no document to write.
LEMMA ReturnIsOk ==
    ASSUME Profile!Return, (sec = NoFile => secMay = {NoFile})',
           (prev = NoFile => prevMay = {NoFile})'
    PROVE  ListOk' /\ DocumentOk' /\ KeyOk'
  BY DEF Profile!Return, ListOk, DocumentOk, KeyOk, CreatingKey, WithKey, Saving

\* A call that ends without a change.
LEMMA ProfileEnds ==
    ASSUME ProfileInv, Profile!Return, UNCHANGED Profile!fileVars, UNCHANGED Profile!history,
           Profile!Fault \/ UNCHANGED Profile!bounds
    PROVE  ProfileInv'
<1>1. /\ UNCHANGED <<kept, gone, forgot, weak>> /\ damages' = damages
      /\ damages' \in 0..MaxDamages /\ profileFaults' \in 0..ProfileFaults
  BY FaultCounts DEF Profile!history, Profile!bounds, ProfileInv, Profile!TypeOK, Profile!Fault
<1>2. Profile!TypeOK'
  BY <1>1, FilesStay DEF Profile!Return, ProfileInv, Profile!TypeOK, Profile!Documents,
     Profile!NoCall, Profile!Calls
<1> QED
  BY <1>1, <1>2, FilesStay, ReturnIsOk DEF ProfileInv

\* A call that fails changes nothing.
LEMMA ProfileFails ==
    ASSUME ProfileInv, Profile!Fails
    PROVE  ProfileInv'
  BY ProfileEnds DEF Profile!Fails

\* A call begins without touching a file.
LEMMA ProfileBegin ==
    ASSUME ProfileInv, NEW c \in Profile!Calls, Profile!Begin(c)
    PROVE  ProfileInv'
<1>1. /\ profilesPc' = "load" /\ profilesCall' = c /\ UNCHANGED Profile!fileVars
      /\ UNCHANGED <<items, migrating, older, kept, gone, forgot, weak, damages, profileFaults>>
  BY DEF Profile!Begin, Profile!history, Profile!bounds
<1>2. c # Profile!NoCall
  BY DEF Profile!Calls, Profile!NoCall
<1>3. Profile!TypeOK'
  BY <1>1, <1>2, FilesStay DEF ProfileInv, Profile!TypeOK, Profile!Documents, Profile!Calls,
     Profile!NoCall
<1>4. ListOk' /\ DocumentOk' /\ KeyOk'
  BY <1>1, FilesStay DEF ListOk, DocumentOk, KeyOk, CreatingKey, WithKey, Saving
<1> QED
  BY <1>1, <1>3, <1>4, FilesStay DEF ProfileInv

\* A step of a load that changes no file.
LEMMA LoadedIsOk ==
    ASSUME ProfileInv, profilesPc = "load", UNCHANGED Profile!fileVars,
           NEW found \in SUBSET Profiles, NEW migrate \in BOOLEAN,
           Profile!Loaded(found, migrate), forgot' = forgot, older' \in BOOLEAN,
           ~older' /\ Unforgotten => kept \subseteq found /\ gone \cap found = {},
           Replaceable,
           Profile!Fault \/ UNCHANGED Profile!bounds
    PROVE  ProfileInv'
<1>1. /\ items' = found /\ migrating' = migrate /\ profilesPc' \in {"seal", "edit"}
      /\ profilesPc' = "seal" => migrating'
      /\ UNCHANGED <<profilesCall, kept, gone, weak, forgot>>
  BY DEF Profile!Loaded
<1>2. /\ damages' = damages
      /\ damages' \in 0..MaxDamages /\ profileFaults' \in 0..ProfileFaults
  BY FaultCounts DEF Profile!bounds, ProfileInv, Profile!TypeOK, Profile!Fault
<1>3. profilesCall # Profile!NoCall /\ profilesCall \in Profile!Calls
  BY DEF ProfileInv, Profile!TypeOK
<1>4. /\ FindsAll' /\ OneKey' /\ Replaceable'
      /\ (sec = NoFile => secMay = {NoFile})' /\ (prev = NoFile => prevMay = {NoFile})'
      /\ UNCHANGED <<sec, secMay, prev, prevMay, leg, legMay, key, keyMay>>
  <2>1. kept' \subseteq kept /\ gone' \subseteq gone /\ (forgot => forgot') /\ (weak => weak')
    BY <1>1
  <2> QED
    BY <1>2, <2>1, FilesStay
<1>5. Profile!TypeOK'
  BY <1>1, <1>2, <1>3, <1>4 DEF ProfileInv, Profile!TypeOK, Profile!Documents
<1>6. ListOk'
  BY <1>1 DEF ListOk, Saving, Unforgotten
<1>7. DocumentOk' /\ KeyOk'
  BY <1>1, <1>4 DEF DocumentOk, KeyOk, CreatingKey, WithKey
<1> QED
  BY <1>4, <1>5, <1>6, <1>7 DEF ProfileInv

\* A document that is opened is the one a crash may leave or the one before it.
LEMMA ProfileUnlock ==
    ASSUME ProfileInv, profilesPc = "load", NEW d \in Profile!Documents, d \in {sec, prev},
           Profile!Unlock(d), older' \in BOOLEAN,
           ~older' => d = sec \/ sec \notin Profile!Documents,
           Profile!Fault \/ UNCHANGED Profile!bounds
    PROVE  ProfileInv'
<1>1. CASE d.by \in {Plain, key} /\ Profile!Loaded(d.items, d.by = Plain)
             /\ UNCHANGED <<Profile!fileVars, forgot>>
  <2>1. Profile!Usable(d) /\ Replaceable
    BY <1>1 DEF Profile!Usable, Replaceable
  <2>2. ~older' => Profile!Found(sec, prev, leg, key) = d.items
    BY <1>1 DEF Profile!Found, Profile!Opened
  <2>3. Unforgotten => Finds(sec, prev, leg, key)
    BY DEF ProfileInv, FindsAll, Profile!TypeOK
  <2>4. ~older' /\ Unforgotten => kept \subseteq d.items /\ gone \cap d.items = {}
    BY <2>2, <2>3 DEF Finds
  <2>5. d.items \in SUBSET Profiles /\ (d.by = Plain) \in BOOLEAN
    BY DocumentFacts
  <2> QED
    BY <1>1, <2>1, <2>4, <2>5, LoadedIsOk
<1>2. CASE d.by # Plain /\ key = NoFile /\ profilesPc' = "createForLoad"
             /\ UNCHANGED <<Profile!fileVars, profilesCall, items, migrating, Profile!history>>
  <2>1. /\ UNCHANGED <<kept, gone, forgot, weak>> /\ damages' = damages
        /\ damages' \in 0..MaxDamages /\ profileFaults' \in 0..ProfileFaults
    BY <1>2, FaultCounts DEF Profile!history, Profile!bounds, ProfileInv, Profile!TypeOK,
       Profile!Fault
  <2>2. profilesCall # Profile!NoCall /\ profilesCall \in Profile!Calls
    BY DEF ProfileInv, Profile!TypeOK
  <2>3. Profile!TypeOK'
    BY <1>2, <2>1, <2>2, FilesStay DEF ProfileInv, Profile!TypeOK, Profile!Documents
  <2>4. NoFile \in keyMay /\ key \notin Keys
    BY <1>2, ProfileFacts DEF ProfileInv, Profile!TypeOK
  <2>5. ListOk' /\ DocumentOk' /\ KeyOk'
    BY <1>2, <2>1, <2>4, FilesStay DEF ListOk, DocumentOk, KeyOk, CreatingKey, WithKey, Saving
  <2> QED
    BY <1>2, <2>1, <2>3, <2>5, FilesStay DEF ProfileInv
<1>3. CASE /\ d.by \notin {Plain, key} /\ key # NoFile /\ Profile!Return
           /\ UNCHANGED <<Profile!fileVars, Profile!history>>
  BY <1>3, ProfileEnds
<1> QED
  BY <1>1, <1>2, <1>3 DEF Profile!Unlock

\* Loading finds what was kept, in the document, in the generation before it or in the
\* older file.
LEMMA ProfileLoad ==
    ASSUME ProfileInv, Profile!Load
    PROVE  ProfileInv'
<1>1. /\ profilesPc = "load" /\ (Unforgotten => Finds(sec, prev, leg, key)) /\ Profile!TypeOK
      /\ profilesCall \in Profile!Calls /\ profilesCall # Profile!NoCall
      /\ older \in BOOLEAN
  BY DEF Profile!Load, ProfileInv, FindsAll, Profile!TypeOK
<1>2. CASE sec \in Profile!Documents /\ Profile!Unlock(sec)
             /\ UNCHANGED <<older, Profile!bounds>>
  BY <1>1, <1>2, ProfileUnlock
<1>3. CASE /\ sec \notin Profile!Documents /\ prev \in Profile!Documents /\ Profile!Unlock(prev)
           /\ UNCHANGED <<older, Profile!bounds>>
  BY <1>1, <1>3, ProfileUnlock
<1>4. CASE /\ sec \in Profile!Documents /\ prev \in Profile!Documents /\ Profile!Unlock(prev)
           /\ older' = TRUE /\ Profile!Fault
  BY <1>1, <1>4, ProfileUnlock
<1>5. CASE Profile!Fails
  BY <1>1, <1>5, ProfileFails
<1>6. CASE Profile!LoadLegacy
  <2> DEFINE found == Profile!Found(sec, prev, leg, key)
  <2>1. sec = NoFile /\ prev = NoFile /\ older' = older /\ Replaceable
    BY <1>6 DEF Profile!LoadLegacy, Replaceable
  <2>2. found \in SUBSET Profiles
    BY <1>1, <2>1, ProfileFacts DEF Profile!Found, Profile!TypeOK
  <2>3. CASE found # {} /\ Profile!Loaded(found, TRUE)
               /\ UNCHANGED <<Profile!fileVars, forgot, Profile!bounds>>
    <3>1. Unforgotten => kept \subseteq found /\ gone \cap found = {}
      BY <1>1 DEF Finds
    <3> QED
      BY <1>1, <2>1, <2>2, <2>3, <3>1, LoadedIsOk
  <2>4. CASE /\ Profile!Loaded({}, FALSE) /\ Profile!RemoveLegacy
             /\ UNCHANGED <<Profile!secVars, key, keyMay>>
             /\ \/ found = {} /\ UNCHANGED <<forgot, Profile!bounds>>
                \/ found # {} /\ forgot' = TRUE /\ Profile!Fault
    <3>1. /\ items' = {} /\ migrating' = FALSE /\ profilesPc' = "edit"
          /\ UNCHANGED <<profilesCall, kept, gone, weak, older>>
          /\ leg' = NoFile /\ legMay' = legMay \cup {NoFile}
          /\ UNCHANGED <<sec, secMay, prev, prevMay, key, keyMay>>
      BY <2>1, <2>4 DEF Profile!Loaded, Profile!RemoveLegacy, Profile!secVars
    <3>2. /\ damages' = damages /\ forgot' \in BOOLEAN
          /\ damages' \in 0..MaxDamages /\ profileFaults' \in 0..ProfileFaults
      BY <1>1, <2>4, FaultCounts DEF Profile!bounds, Profile!TypeOK, Profile!Fault
    <3>3. secMay = {NoFile} /\ prevMay = {NoFile}
      BY <2>1 DEF ProfileInv, DocumentOk
    <3>4. Unforgotten' => Unforgotten /\ kept = {}
      BY <1>1, <2>4, <3>1 DEF Finds, Unforgotten
    <3>5. Profile!TypeOK'
      BY <1>1, <3>1, <3>2 DEF Profile!TypeOK, Profile!Documents
    <3>6. FindsAll'
      <4>1. \A k : Profile!Found(NoFile, NoFile, NoFile, k) = {}
        BY ProfileFacts DEF Profile!Found
      <4>2. \A k : Unforgotten' => Finds(NoFile, NoFile, NoFile, k)
        BY <3>4, <4>1 DEF Finds
      <4>3. Unforgotten' => \A l \in legMay', k \in keyMay' : Finds(NoFile, NoFile, l, k)
        BY <3>1, <3>3, <3>4, <4>2 DEF ProfileInv, FindsAll
      <4> QED
        BY <3>1, <3>3, <4>3 DEF FindsAll, Finds, Profile!Found, Profile!Opened
    <3>7. ListOk' /\ DocumentOk' /\ KeyOk'
      BY <2>1, <3>1, <3>3, <3>4 DEF ListOk, DocumentOk, KeyOk, CreatingKey, WithKey, Saving,
         Replaceable
    <3>8. OneKey'
      BY <3>1, <3>2 DEF ProfileInv, OneKey, Profile!Documents
    <3> QED
      BY <3>5, <3>6, <3>7, <3>8 DEF ProfileInv
  <2> QED
    BY <1>6, <2>3, <2>4 DEF Profile!LoadLegacy
<1> QED
  BY <1>2, <1>3, <1>4, <1>5, <1>6 DEF Profile!Load, Profile!LoadSecure

\* The change of a call adds or takes the profile it names.
LEMMA ProfileEdit ==
    ASSUME ProfileInv, Profile!Edit
    PROVE  ProfileInv'
<1>1. /\ profilesPc = "edit" /\ Profile!TypeOK /\ profilesCall \in Profile!Calls
      /\ profilesCall # Profile!NoCall
  BY DEF Profile!Edit, ProfileInv, Profile!TypeOK
<1>2. CASE Profile!Fails
  BY <1>2, ProfileFails
<1>3. CASE /\ profilesPc' = "seal"
           /\ UNCHANGED <<Profile!fileVars, profilesCall, migrating, older, forgot, weak,
                Profile!bounds>>
           /\ \/ /\ profilesCall.op = "save" /\ kept' = kept
                 /\ items' = items \cup {profilesCall.who} /\ gone' = gone \ {profilesCall.who}
              \/ /\ profilesCall.op = "remove" /\ gone' = gone
                 /\ items' = items \ {profilesCall.who} /\ kept' = kept \ {profilesCall.who}
  <2>1. profilesCall.who \in Profiles /\ UNCHANGED <<damages, profileFaults>>
    BY <1>1, <1>3 DEF Profile!Calls, Profile!bounds
  <2>2. items' \subseteq Profiles /\ kept' \subseteq kept /\ gone' \subseteq gone
    BY <1>1, <1>3, <2>1 DEF Profile!TypeOK
  <2>3. Profile!TypeOK'
    BY <1>1, <1>3, <2>1, <2>2, FilesStay DEF Profile!TypeOK, Profile!Documents
  <2>4. ListOk'
    BY <1>1, <1>3 DEF ProfileInv, ListOk, Saving, Unforgotten
  <2>5. DocumentOk' /\ KeyOk'
    BY <1>1, <1>3, <2>1, <2>2, FilesStay DEF ProfileInv, DocumentOk, KeyOk, CreatingKey, WithKey
  <2> QED
    BY <1>3, <2>1, <2>2, <2>3, <2>4, <2>5, FilesStay DEF ProfileInv
<1> QED
  BY <1>2, <1>3 DEF Profile!Edit

\* Sealing takes the key that is there, or has one created.
LEMMA ProfileSeal ==
    ASSUME ProfileInv, Profile!Seal
    PROVE  ProfileInv'
<1>1. /\ profilesPc = "seal" /\ Profile!TypeOK /\ profilesCall \in Profile!Calls
      /\ profilesCall # Profile!NoCall
  BY DEF Profile!Seal, ProfileInv, Profile!TypeOK
<1>2. CASE Profile!Fails
  BY <1>2, ProfileFails
<1>3. CASE /\ UNCHANGED <<Profile!fileVars, Profile!callVars, kept, gone, forgot, Profile!bounds>>
           /\ \/ key \in Keys /\ profilesPc' = "keep" /\ weak' = (weak \/ keyMay # {key})
              \/ key = NoFile /\ profilesPc' = "create" /\ weak' = weak
  <2>1. /\ UNCHANGED <<profilesCall, items, migrating, older, kept, gone, forgot>>
        /\ UNCHANGED <<damages, profileFaults>> /\ weak' \in BOOLEAN /\ (weak => weak')
    BY <1>1, <1>3 DEF Profile!callVars, Profile!bounds, Profile!TypeOK
  <2>2. Profile!TypeOK'
    BY <1>1, <1>3, <2>1, FilesStay DEF Profile!TypeOK, Profile!Documents
  <2>3. ListOk'
    BY <1>1, <1>3, <2>1 DEF ProfileInv, ListOk, Saving, Unforgotten
  <2>4. DocumentOk'
    <3>1. /\ UNCHANGED Profile!fileVars /\ kept' \subseteq kept /\ gone' \subseteq gone
          /\ forgot' = forgot /\ damages' = damages
      BY <1>3, <2>1
    <3>2. /\ Replaceable' = Replaceable
          /\ (sec = NoFile => secMay = {NoFile})' /\ (prev = NoFile => prevMay = {NoFile})'
      BY <2>1, <3>1, FilesStay
    <3>3. Replaceable
      BY <1>1 DEF ProfileInv, DocumentOk
    <3> QED
      BY <1>3, <3>2, <3>3 DEF DocumentOk
  <2>5. KeyOk'
    BY <1>1, <1>3, <2>1, FilesStay, ProfileFacts DEF KeyOk, CreatingKey, WithKey, Profile!TypeOK
  <2> QED
    BY <1>3, <2>1, <2>2, <2>3, <2>4, <2>5, FilesStay DEF ProfileInv
<1> QED
  BY <1>2, <1>3 DEF Profile!Seal, Profile!Goto, Profile!history, Profile!callVars

\* While a key is created what is found does not need it.
LEMMA NewKeyFinds ==
    ASSUME ProfileInv, profilesPc \in CreatingKey, NEW k, Unforgotten,
           \A d \in secMay \cup prevMay : d \in Profile!Documents => d.by # k
    PROVE  \A s \in secMay, p \in prevMay, l \in legMay : Finds(s, p, l, k)
  BY NoKeyFinds DEF ProfileInv, FindsAll, KeyOk

\* While a key is created nothing is sealed, unless a file was damaged.
LEMMA NothingSealed ==
    ASSUME ProfileInv, profilesPc \in CreatingKey, damages = 0, ~weak
    PROVE  \A d \in secMay \cup prevMay : ~(d \in Profile!Documents /\ d.by # Plain)
  BY DocumentFacts, ProfileFacts DEF ProfileInv, OneKey, KeyOk

\* A step that changes no more than the key keeps the documents as replaceable as they were.
LEMMA KeyChanges ==
    ASSUME Replaceable, Profile!TypeOK, key \notin Keys \/ key' = key, UNCHANGED <<sec, prev>>
    PROVE  Replaceable'
<1>1. ASSUME NEW d, Profile!Usable(d), d' = d
      PROVE  Profile!Usable(d)'
  BY <1>1, DocumentFacts DEF Profile!Usable, Profile!Documents
<1> QED
  BY <1>1 DEF Replaceable

\* A key file that is created and still empty guards no document.
LEMMA ProfileCreateKey ==
    ASSUME ProfileInv, Profile!CreateKey
    PROVE  ProfileInv'
<1>1. /\ profilesPc \in Profile!Creating /\ profilesPc \in CreatingKey /\ Profile!TypeOK
      /\ key' = Broken /\ keyMay' = keyMay \cup {Broken} /\ key = NoFile
      /\ UNCHANGED <<sec, secMay, prev, prevMay, leg, legMay, profilesPc, profilesCall, items>>
      /\ UNCHANGED <<migrating, older, kept, gone, forgot, weak, damages, profileFaults>>
  BY DEF Profile!CreateKey, ProfileInv, Profile!Creating, CreatingKey, Profile!secVars,
     Profile!callVars, Profile!history, Profile!bounds
<1>2. Profile!TypeOK'
  BY <1>1 DEF Profile!TypeOK, Profile!Creating, Profile!Documents
<1>3. Unforgotten => \A s \in secMay, p \in prevMay, l \in legMay : Finds(s, p, l, Broken)
  BY <1>1, NewKeyFinds, DocumentFacts, ProfileFacts
<1>4. FindsAll'
  BY <1>1, <1>3 DEF ProfileInv, FindsAll, Unforgotten, Finds, Profile!Found, Profile!Opened,
     Profile!Documents
<1>5. ListOk'
  BY <1>1 DEF ProfileInv, ListOk, Saving, Unforgotten
<1>6. DocumentOk'
  BY <1>1, KeyChanges, ProfileFacts DEF ProfileInv, DocumentOk, Profile!Creating
<1>7. OneKey'
  BY <1>1, NothingSealed DEF OneKey, Profile!Documents
<1>8. KeyOk'
  BY <1>1, ProfileFacts DEF ProfileInv, KeyOk, Profile!Creating, CreatingKey, WithKey
<1> QED
  BY <1>2, <1>4, <1>5, <1>6, <1>7, <1>8 DEF ProfileInv

\* A new key guards no document yet.
LEMMA ProfileWriteKey ==
    ASSUME ProfileInv, NEW n \in Keys, Profile!WriteKey(n)
    PROVE  ProfileInv'
<1>1. /\ profilesPc \in Profile!Creating /\ profilesPc \in CreatingKey /\ Profile!TypeOK
      /\ key' = n /\ keyMay' = keyMay \cup {n} /\ key = Broken
      /\ \A d \in secMay \cup prevMay : d \in Profile!Documents => d.by # n
      /\ UNCHANGED <<sec, secMay, prev, prevMay, leg, legMay, profilesCall, items>>
      /\ UNCHANGED <<migrating, older, kept, gone, forgot, weak, damages, profileFaults>>
  BY DEF Profile!WriteKey, ProfileInv, Profile!Creating, CreatingKey, Profile!secVars,
     Profile!callVars, Profile!history, Profile!bounds
<1>2. \/ profilesPc = "create" /\ profilesPc' = "keyWritten"
      \/ profilesPc = "createForLoad" /\ profilesPc' = "keyWrittenForLoad"
  BY DEF Profile!WriteKey, Profile!Creating, Profile!Written
<1>3. Profile!TypeOK'
  BY <1>1, <1>2 DEF Profile!TypeOK, Profile!Documents
<1>4. Unforgotten => \A s \in secMay, p \in prevMay, l \in legMay : Finds(s, p, l, n)
  BY <1>1, NewKeyFinds
<1>5. FindsAll'
  BY <1>1, <1>4 DEF ProfileInv, FindsAll, Unforgotten, Finds, Profile!Found, Profile!Opened,
     Profile!Documents
<1>6. ListOk'
  BY <1>1, <1>2 DEF ProfileInv, ListOk, Saving, Unforgotten
<1>7. DocumentOk'
  BY <1>1, <1>2, KeyChanges, ProfileFacts DEF ProfileInv, DocumentOk
<1>8. OneKey'
  BY <1>1, NothingSealed DEF OneKey, Profile!Documents
<1>9. KeyOk'
  BY <1>1, <1>2 DEF ProfileInv, KeyOk, CreatingKey, WithKey
<1> QED
  BY <1>3, <1>5, <1>6, <1>7, <1>8, <1>9 DEF ProfileInv

\* Once the key is durable no crash brings the time without it back.
LEMMA ProfileSyncKey ==
    ASSUME ProfileInv, Profile!SyncKey
    PROVE  ProfileInv'
<1>1. /\ profilesPc \in {"keyWritten", "keyWrittenForLoad"} /\ profilesPc \in CreatingKey
      /\ Profile!TypeOK
      /\ keyMay' = {key} /\ key \in keyMay /\ key' = key /\ key \in Keys
      /\ UNCHANGED <<sec, secMay, prev, prevMay, leg, legMay>>
      /\ UNCHANGED <<kept, gone, forgot, weak, damages, profileFaults>>
  BY DEF Profile!SyncKey, ProfileInv, KeyOk, Profile!TypeOK, CreatingKey, Profile!secVars,
     Profile!history, Profile!bounds
<1>2. \/ /\ profilesPc = "keyWritten" /\ profilesPc' = "keep"
         /\ UNCHANGED <<profilesCall, items, migrating, older>>
      \/ profilesPc = "keyWrittenForLoad" /\ Profile!Return
  BY DEF Profile!SyncKey, Profile!callVars
<1>3. Profile!TypeOK'
  BY <1>1, <1>2 DEF Profile!Return, Profile!TypeOK, Profile!Documents
<1>4. FindsAll'
  BY <1>1 DEF ProfileInv, FindsAll, Unforgotten, Finds, Profile!Found, Profile!Opened,
     Profile!Documents
<1>5. OneKey'
  BY <1>1, NothingSealed DEF OneKey, Profile!Documents
<1>6. ListOk' /\ DocumentOk' /\ KeyOk'
  <2>1. CASE profilesPc = "keyWritten" /\ profilesPc' = "keep"
               /\ UNCHANGED <<profilesCall, items, migrating, older>>
    <3>1. ListOk'
      BY <1>1, <2>1 DEF ProfileInv, ListOk, Saving, Unforgotten
    <3>2. DocumentOk'
      BY <1>1, <2>1, KeyChanges DEF ProfileInv, DocumentOk
    <3>3. KeyOk'
      BY <1>1, <2>1 DEF KeyOk, CreatingKey, WithKey
    <3> QED
      BY <3>1, <3>2, <3>3
  <2>2. CASE Profile!Return
    BY <1>1, <2>2, ReturnIsOk DEF ProfileInv, DocumentOk
  <2> QED
    BY <1>2, <2>1, <2>2
<1> QED
  BY <1>3, <1>4, <1>5, <1>6 DEF ProfileInv

\* A key that could not be created is removed, or stays as one that no document needs.
LEMMA ProfileCreateKeyFails ==
    ASSUME ProfileInv, Profile!CreateKeyFails
    PROVE  ProfileInv'
<1>1. /\ profilesPc \in CreatingKey /\ Profile!TypeOK /\ NoFile \in keyMay /\ key \in keyMay
      /\ key' \in {NoFile, key} /\ keyMay' = keyMay /\ Profile!Return
      /\ UNCHANGED <<sec, secMay, prev, prevMay, leg, legMay, kept, gone, forgot, weak>>
      /\ damages' = damages
      /\ damages' \in 0..MaxDamages /\ profileFaults' \in 0..ProfileFaults
  BY FaultCounts DEF Profile!CreateKeyFails, Profile!Creating, CreatingKey, ProfileInv, KeyOk,
     Profile!TypeOK, Profile!secVars, Profile!history
<1>2. key' \in keyMay'
  BY <1>1
<1>3. Profile!TypeOK'
  BY <1>1, <1>2 DEF Profile!Return, Profile!TypeOK, Profile!Documents
<1>4. FindsAll'
  BY <1>1 DEF ProfileInv, FindsAll, Unforgotten, Finds, Profile!Found, Profile!Opened,
     Profile!Documents
<1>5. OneKey'
  BY <1>1, NothingSealed DEF OneKey, Profile!Documents
<1>6. ListOk' /\ DocumentOk' /\ KeyOk'
  BY <1>1, ReturnIsOk DEF ProfileInv, DocumentOk
<1> QED
  BY <1>3, <1>4, <1>5, <1>6 DEF ProfileInv

\* The generation before the new document is the one a crash leaves already.
LEMMA ProfileKeepDocument ==
    ASSUME ProfileInv, Profile!KeepDocument
    PROVE  ProfileInv'
<1>1. /\ profilesPc = "keep" /\ Profile!TypeOK /\ key \in Keys
      /\ UNCHANGED <<sec, secMay, leg, legMay, key, keyMay, profilesCall, items, migrating>>
      /\ UNCHANGED <<older, kept, gone, forgot, weak, damages, profileFaults>>
  BY DEF Profile!KeepDocument, ProfileInv, Profile!TypeOK, Profile!callVars, Profile!history,
     Profile!bounds
<1>2. \/ /\ sec \in Profile!Documents /\ prev' = sec /\ prevMay' = prevMay \cup {sec}
         /\ profilesPc' = "kept"
      \/ profilesPc' = "write" /\ UNCHANGED <<prev, prevMay>>
  BY DEF Profile!KeepDocument
<1>3. Profile!TypeOK'
  BY <1>1, <1>2 DEF Profile!TypeOK, Profile!Documents
<1>4. FindsAll'
  <2>1. CASE prevMay' = prevMay
    BY <1>1, <2>1 DEF ProfileInv, FindsAll, Unforgotten, Finds, Profile!Found, Profile!Opened,
       Profile!Documents
  <2>2. CASE sec \in Profile!Documents /\ prevMay' = prevMay \cup {sec}
    <3>1. sec \in secMay /\ prev \in prevMay
      BY <1>1 DEF Profile!TypeOK
    <3>2. \A s, l, k : Finds(sec, prev, l, k) /\ Finds(s, prev, l, k) => Finds(s, sec, l, k)
      BY <2>2 DEF Finds, Profile!Found
    <3>3. Unforgotten => \A s \in secMay, l \in legMay, k \in keyMay : Finds(s, sec, l, k)
      BY <3>1, <3>2 DEF ProfileInv, FindsAll
    <3> QED
      BY <1>1, <2>2, <3>3 DEF ProfileInv, FindsAll, Unforgotten, Finds, Profile!Found,
         Profile!Opened, Profile!Documents
  <2> QED
    BY <1>2, <2>1, <2>2
<1>5. OneKey'
  BY <1>1, <1>2 DEF ProfileInv, OneKey, Profile!TypeOK, Profile!Documents
<1>6. ListOk'
  BY <1>1, <1>2 DEF ProfileInv, ListOk, Saving, Unforgotten
<1>7. DocumentOk'
  BY <1>1, <1>2, DocumentFacts DEF ProfileInv, DocumentOk, Replaceable, Profile!Usable,
     Profile!Documents
<1>8. KeyOk'
  BY <1>1, <1>2 DEF ProfileInv, KeyOk, CreatingKey, WithKey
<1> QED
  BY <1>3, <1>4, <1>5, <1>6, <1>7, <1>8 DEF ProfileInv

\* Once that generation is durable no crash brings the one before it back.
LEMMA ProfileSettlePrevious ==
    ASSUME ProfileInv, Profile!SettlePrevious
    PROVE  ProfileInv'
<1>1. /\ profilesPc = "kept" /\ profilesPc' = "write" /\ Profile!TypeOK /\ key \in Keys
      /\ prevMay' = {prev} /\ prev \in prevMay /\ prev' = prev
      /\ UNCHANGED <<sec, secMay, leg, legMay, key, keyMay, profilesCall, items, migrating>>
      /\ UNCHANGED <<older, kept, gone, forgot, weak, damages, profileFaults>>
  BY DEF Profile!SettlePrevious, ProfileInv, Profile!TypeOK, Profile!callVars, Profile!history,
     Profile!bounds
<1>2. Profile!TypeOK'
  BY <1>1 DEF Profile!TypeOK, Profile!Documents
<1>3. FindsAll'
  BY <1>1 DEF ProfileInv, FindsAll, Unforgotten, Finds, Profile!Found, Profile!Opened,
     Profile!Documents
<1>4. OneKey'
  BY <1>1 DEF ProfileInv, OneKey, Profile!Documents
<1>5. ListOk'
  BY <1>1 DEF ProfileInv, ListOk, Saving, Unforgotten
<1>6. DocumentOk'
  BY <1>1, KeyChanges DEF ProfileInv, DocumentOk
<1>7. KeyOk'
  BY <1>1 DEF ProfileInv, KeyOk, CreatingKey, WithKey
<1> QED
  BY <1>2, <1>3, <1>4, <1>5, <1>6, <1>7 DEF ProfileInv

\* The new document holds what was kept, whichever of the two a crash leaves.
LEMMA ProfileWriteDocument ==
    ASSUME ProfileInv, Profile!WriteDocument
    PROVE  ProfileInv'
<1> DEFINE new == [items |-> items, by |-> key]
<1>1. /\ profilesPc = "write" /\ profilesPc' = "settle" /\ Profile!TypeOK /\ key \in Keys
      /\ sec' = new /\ secMay' = secMay \cup {new} /\ forgot' = (forgot \/ older)
      /\ UNCHANGED <<prev, prevMay, leg, legMay, key, keyMay, profilesCall, items, migrating>>
      /\ UNCHANGED <<older, kept, gone, weak, damages, profileFaults>>
  BY DEF Profile!WriteDocument, ProfileInv, Profile!TypeOK, Profile!callVars, Profile!bounds
<1>2. new \in Profile!Documents /\ new.by = key /\ new.items = items
  BY <1>1 DEF Profile!Documents, Profile!TypeOK
<1>3. forgot' \in BOOLEAN /\ (Unforgotten' => Unforgotten /\ ~older) /\ (~weak => keyMay = {key})
  BY <1>1 DEF Profile!TypeOK, Unforgotten, ProfileInv, KeyOk, WithKey
<1> HIDE DEF new
<1>4. Profile!TypeOK'
  BY <1>1, <1>2, <1>3 DEF Profile!TypeOK, Profile!Documents
<1>5. FindsAll'
  <2>1. Unforgotten' => kept \subseteq items /\ gone \cap items = {}
    BY <1>1, <1>3 DEF ProfileInv, ListOk, Saving
  <2>2. \A p, l : Unforgotten' => Finds(new, p, l, key)
    BY <1>2, <2>1 DEF Finds, Profile!Found, Profile!Opened
  <2>3. Unforgotten' => keyMay = {key}
    BY <1>3 DEF Unforgotten
  <2>4. \A s, p, l, k : Finds(s, p, l, k) => Finds(s, p, l, k)'
    BY <1>1 DEF Finds, Profile!Found, Profile!Opened, Profile!Documents
  <2>5. Unforgotten' =>
            \A s \in secMay', p \in prevMay', l \in legMay', k \in keyMay' : Finds(s, p, l, k)
    <3> SUFFICES ASSUME Unforgotten', NEW s \in secMay \cup {new}, NEW p \in prevMay,
                        NEW l \in legMay, NEW k \in keyMay
                 PROVE  Finds(s, p, l, k)
      BY <1>1
    <3>1. CASE s = new
      BY <2>2, <2>3, <3>1
    <3>2. CASE s \in secMay
      BY <1>3, <3>2 DEF ProfileInv, FindsAll
    <3> QED
      BY <3>1, <3>2
  <2> QED
    BY <2>4, <2>5 DEF FindsAll
<1>6. OneKey'
  BY <1>1, <1>2, <1>3 DEF ProfileInv, OneKey, Profile!Documents
<1>7. ListOk'
  BY <1>1, <1>3 DEF ProfileInv, ListOk, Saving
<1>8. DocumentOk'
  BY <1>1, <1>2, DocumentFacts DEF ProfileInv, DocumentOk, new
<1>9. KeyOk'
  BY <1>1 DEF ProfileInv, KeyOk, CreatingKey, WithKey
<1> QED
  BY <1>4, <1>5, <1>6, <1>7, <1>8, <1>9 DEF ProfileInv

\* Once the new document is durable no crash brings the old one back.
LEMMA ProfileSettle ==
    ASSUME ProfileInv, Profile!SettleDocument
    PROVE  ProfileInv'
<1>1. /\ profilesPc = "settle" /\ profilesPc' = "clean" /\ Profile!TypeOK /\ key \in Keys
      /\ secMay' = {sec} /\ sec \in secMay /\ sec' = sec
      /\ UNCHANGED <<prev, prevMay, leg, legMay, key, keyMay, profilesCall, items, migrating>>
      /\ UNCHANGED <<older, kept, gone, forgot, weak, damages, profileFaults>>
  BY DEF Profile!SettleDocument, ProfileInv, Profile!TypeOK, Profile!callVars, Profile!history,
     Profile!bounds
<1>2. sec = [items |-> items, by |-> key] /\ sec \in Profile!Documents
  BY <1>1 DEF ProfileInv, DocumentOk, Profile!TypeOK, Profile!Documents
<1>3. Profile!TypeOK'
  BY <1>1 DEF Profile!TypeOK, Profile!Documents
<1>4. FindsAll'
  BY <1>1 DEF ProfileInv, FindsAll, Unforgotten, Finds, Profile!Found, Profile!Opened,
     Profile!Documents
<1>5. OneKey'
  BY <1>1 DEF ProfileInv, OneKey, Profile!Documents
<1>6. ListOk'
  BY <1>1 DEF ProfileInv, ListOk, Saving, Unforgotten
<1>7. DocumentOk'
  BY <1>1, <1>2, DocumentFacts DEF ProfileInv, DocumentOk
<1>8. KeyOk'
  BY <1>1 DEF ProfileInv, KeyOk, CreatingKey, WithKey
<1> QED
  BY <1>3, <1>4, <1>5, <1>6, <1>7, <1>8 DEF ProfileInv

\* Once the new document is durable nothing is asked of the older file.
LEMMA ProfileClean ==
    ASSUME ProfileInv, Profile!Clean
    PROVE  ProfileInv'
<1>1. /\ profilesPc = "clean" /\ Profile!TypeOK /\ secMay = {sec} /\ key \in Keys
      /\ sec = [items |-> items, by |-> key]
      /\ leg' = NoFile /\ legMay' = legMay \cup {NoFile}
      /\ UNCHANGED <<sec, secMay, prev, prevMay, key, keyMay, forgot, weak, damages>>
      /\ UNCHANGED profileFaults
      /\ profilesCall \in Profile!Calls /\ profilesCall # Profile!NoCall
  BY DEF Profile!Clean, Profile!RemoveLegacy, ProfileInv, Profile!TypeOK, DocumentOk,
     Profile!secVars, Profile!history, Profile!bounds
<1>2. sec \in Profile!Documents /\ sec.by = key /\ sec.items = items
  BY <1>1 DEF Profile!Documents, Profile!TypeOK
<1>3. \/ /\ migrating /\ profilesPc' = "edit" /\ migrating' = FALSE
         /\ UNCHANGED <<profilesCall, items, older, kept, gone>>
      \/ /\ ~migrating /\ Profile!Return
         /\ kept' = IF profilesCall.op = "save" THEN kept \cup {profilesCall.who} ELSE kept
         /\ gone' = IF profilesCall.op = "remove" THEN gone \cup {profilesCall.who} ELSE gone
  BY DEF Profile!Clean, Profile!history
<1>4. /\ kept' \subseteq Profiles /\ gone' \subseteq Profiles
      /\ older' \in BOOLEAN /\ (~older' /\ migrating => ~older)
  BY <1>1, <1>3 DEF Profile!TypeOK, Profile!Calls, Profile!Return
<1>5. Profile!TypeOK'
  BY <1>1, <1>3, <1>4 DEF Profile!Return, Profile!TypeOK, Profile!Documents
<1>6. FindsAll'
  <2>1. \A p, l : Profile!Found(sec, p, l, key) = items
    BY <1>2 DEF Profile!Found, Profile!Opened
  <2>2. prev \in prevMay /\ leg \in legMay /\ key \in keyMay
    BY <1>1 DEF Profile!TypeOK
  <2>3. Unforgotten => kept \subseteq items /\ gone \cap items = {} /\ keyMay = {key}
    BY <1>1, <2>1, <2>2 DEF ProfileInv, FindsAll, Finds, KeyOk, WithKey, Unforgotten
  <2>4. Unforgotten => kept' \subseteq items /\ gone' \cap items = {}
    BY <1>1, <1>3, <2>3 DEF ProfileInv, ListOk, Saving
  <2>5. \A p, l : Unforgotten => Finds(sec, p, l, key)'
    BY <1>1, <1>2, <2>1, <2>4 DEF Finds, Profile!Found, Profile!Opened, Profile!Documents
  <2> QED
    BY <1>1, <2>3, <2>5 DEF FindsAll, Unforgotten
<1>7. OneKey'
  BY <1>1 DEF ProfileInv, OneKey, Profile!Documents
<1>8. DocumentOk' /\ KeyOk' /\ ListOk'
  <2>1. CASE migrating /\ profilesPc' = "edit" /\ migrating' = FALSE
               /\ UNCHANGED <<profilesCall, items, older, kept, gone>>
    <3>1. ListOk'
      BY <1>1, <2>1 DEF ProfileInv, ListOk, Saving, Unforgotten
    <3>2. DocumentOk'
      BY <1>1, <1>2, <2>1, DocumentFacts DEF ProfileInv, DocumentOk, Replaceable,
         Profile!Usable, Profile!Documents
    <3>3. KeyOk'
      BY <2>1 DEF KeyOk, CreatingKey, WithKey
    <3> QED
      BY <3>1, <3>2, <3>3
  <2>2. CASE Profile!Return
    BY <1>1, <2>2, ReturnIsOk DEF ProfileInv, DocumentOk
  <2> QED
    BY <1>3, <2>1, <2>2
<1> QED
  BY <1>5, <1>6, <1>7, <1>8 DEF ProfileInv

\* After a crash the files are among those it may leave.
LEMMA ProfileCrash ==
    ASSUME ProfileInv, Profile!Crash
    PROVE  ProfileInv'
<1>1. /\ sec' \in secMay /\ secMay' = {sec'} /\ prev' \in prevMay /\ prevMay' = {prev'}
      /\ leg' \in legMay /\ legMay' = {leg'} /\ key' \in keyMay /\ keyMay' = {key'}
      /\ Profile!Return /\ Profile!TypeOK /\ UNCHANGED <<kept, gone, forgot, weak>>
      /\ damages' = damages
      /\ damages' \in 0..MaxDamages /\ profileFaults' \in 0..ProfileFaults
  BY FaultCounts DEF Profile!Crash, ProfileInv, Profile!history
<1>2. Profile!TypeOK'
  BY <1>1 DEF Profile!Return, Profile!TypeOK, Profile!Documents
<1>3. FindsAll'
  BY <1>1 DEF ProfileInv, FindsAll, Unforgotten, Finds, Profile!Found, Profile!Opened,
     Profile!Documents
<1>4. OneKey'
  BY <1>1 DEF ProfileInv, OneKey, Profile!Documents
<1>5. ListOk' /\ DocumentOk' /\ KeyOk'
  BY <1>1, ReturnIsOk
<1> QED
  BY <1>2, <1>3, <1>4, <1>5 DEF ProfileInv

\* Damage from outside ends what was promised; afterwards promises count again.
LEMMA ProfileDamage ==
    ASSUME ProfileInv, Profile!Damage
    PROVE  ProfileInv'
<1>1. /\ profilesPc = "idle" /\ profilesPc' = "idle" /\ Profile!TypeOK
      /\ damages' = damages + 1 /\ damages < MaxDamages /\ damages \in Nat
      /\ profileFaults' = profileFaults + 1 /\ profileFaults < ProfileFaults
      /\ kept' = {} /\ gone' = {}
      /\ UNCHANGED <<profilesCall, items, migrating, older, leg, legMay, forgot, weak>>
  BY ProfileFacts DEF Profile!Damage, ProfileInv, Profile!TypeOK, Profile!callVars
<1>2. \/ /\ sec # NoFile /\ sec' = Broken /\ secMay' = {Broken}
         /\ UNCHANGED <<prev, prevMay, key, keyMay>>
      \/ /\ prev # NoFile /\ prev' = Broken /\ prevMay' = {Broken}
         /\ UNCHANGED <<sec, secMay, key, keyMay>>
      \/ /\ key' \in {NoFile, Broken} /\ keyMay' = {key'}
         /\ UNCHANGED <<sec, secMay, prev, prevMay>>
  BY DEF Profile!Damage, Profile!secVars
<1>3. Profile!TypeOK'
  <2>1. damages' \in 0..MaxDamages /\ profileFaults' \in 0..ProfileFaults
    BY <1>1, ProfileFacts DEF Profile!TypeOK
  <2> QED
    BY <1>1, <1>2, <2>1 DEF Profile!TypeOK, Profile!Documents
<1>4. FindsAll'
  BY <1>1 DEF FindsAll, Finds
<1>5. ListOk' /\ KeyOk' /\ OneKey'
  BY <1>1 DEF ListOk, KeyOk, OneKey, CreatingKey, WithKey, Saving
<1>6. DocumentOk'
  BY <1>1, <1>2, ProfileFacts DEF ProfileInv, DocumentOk
<1> QED
  BY <1>3, <1>4, <1>5, <1>6 DEF ProfileInv

\* A document is replaced only after it or the one before it was read, or it was kept.
LEMMA UnreadableStays ==
    ASSUME ProfileInv, [Profile!Next]_(Profile!vars)
    PROVE  Profile!UnreadableIsKeptStep
<1> SUFFICES ASSUME sec # NoFile, ~Profile!Usable(sec), secMay = {sec}, sec' # sec
             PROVE  damages' # damages \/ prev = sec \/ Profile!Usable(prev)
  BY DEF Profile!UnreadableIsKeptStep
<1>1. CASE Profile!WriteDocument
  BY <1>1 DEF Profile!WriteDocument, ProfileInv, DocumentOk, Replaceable
<1>2. CASE Profile!Crash
  BY <1>2 DEF Profile!Crash
<1>3. CASE Profile!Damage
  BY <1>3, ProfileFacts DEF Profile!Damage, ProfileInv, Profile!TypeOK
<1>4. CASE Profile!Load
  <2>1. sec' = sec
    BY <1>4 DEF Profile!Load, Profile!LoadSecure, Profile!LoadLegacy, Profile!Unlock,
       Profile!Fails, Profile!fileVars, Profile!secVars
  <2> QED
    BY <2>1
<1>5. CASE \/ \E c \in Profile!Calls : Profile!Begin(c)
           \/ Profile!Edit \/ Profile!Seal \/ Profile!CreateKey
           \/ (\E k \in Keys : Profile!WriteKey(k)) \/ Profile!SyncKey \/ Profile!CreateKeyFails
           \/ Profile!KeepDocument \/ Profile!SettlePrevious \/ Profile!SettleDocument
           \/ Profile!WriteFails \/ Profile!Clean \/ Profile!Kill \/ UNCHANGED Profile!vars
  <2>1. sec' = sec
    BY <1>5 DEF Profile!Begin, Profile!Edit, Profile!Seal, Profile!CreateKey, Profile!WriteKey,
       Profile!SyncKey, Profile!CreateKeyFails, Profile!KeepDocument, Profile!SettlePrevious,
       Profile!SettleDocument, Profile!WriteFails, Profile!Clean, Profile!Kill, Profile!vars,
       Profile!fileVars, Profile!secVars, Profile!Fails, Profile!Goto
  <2> QED
    BY <2>1
<1> QED
  BY <1>1, <1>2, <1>3, <1>4, <1>5 DEF Profile!Next

\* Every step keeps the invariant and leaves a document alone that it cannot read.
LEMMA ProfileSteps ==
    ASSUME ProfileInv, [Profile!Next]_(Profile!vars)
    PROVE  ProfileInv' /\ Profile!UnreadableIsKeptStep
<1>1. ASSUME UNCHANGED Profile!vars
      PROVE  ProfileInv'
  <2>1. /\ UNCHANGED Profile!fileVars /\ UNCHANGED <<profilesPc, profilesCall, items>>
        /\ UNCHANGED <<migrating, older, kept, gone, forgot, weak, damages, profileFaults>>
    BY <1>1 DEF Profile!vars, Profile!callVars, Profile!history, Profile!bounds
  <2>2. Profile!TypeOK'
    BY <2>1, FilesStay DEF ProfileInv, Profile!TypeOK, Profile!Documents
  <2>3. ListOk'
    BY <2>1 DEF ProfileInv, ListOk, Saving, Unforgotten
  <2>4. DocumentOk' /\ KeyOk'
    BY <2>1, FilesStay DEF ProfileInv, DocumentOk, KeyOk, CreatingKey, WithKey
  <2> QED
    BY <2>1, <2>2, <2>3, <2>4, FilesStay DEF ProfileInv
<1>2. ASSUME Profile!WriteFails \/ Profile!Kill
      PROVE  ProfileInv'
  BY <1>2, ProfileEnds DEF Profile!WriteFails, Profile!Kill
<1>3. ProfileInv'
  BY <1>1, <1>2, ProfileBegin, ProfileLoad, ProfileEdit, ProfileSeal, ProfileCreateKey,
     ProfileWriteKey, ProfileSyncKey, ProfileCreateKeyFails, ProfileKeepDocument,
     ProfileSettlePrevious, ProfileWriteDocument, ProfileSettle, ProfileClean, ProfileCrash,
     ProfileDamage DEF Profile!Next
<1> QED
  BY <1>3, UnreadableStays

\* The invariant says what the suite checks of profiles (profiles.go).
LEMMA ProfileImplies ==
    ASSUME ProfileInv
    PROVE  Profile!NothingLost /\ Profile!NothingRevived /\ Profile!TornKeyGuardsNothing
<1>1. Profile!NothingLost /\ Profile!NothingRevived
  BY DEF ProfileInv, FindsAll, Unforgotten, Finds, Profile!NothingLost, Profile!NothingRevived,
     Profile!Outcomes
<1>2. Profile!TornKeyGuardsNothing
  BY DocumentFacts, ProfileFacts DEF ProfileInv, OneKey, Profile!TornKeyGuardsNothing
<1> QED
  BY <1>1, <1>2

(***************************************************************************)
(* Setup: the whole program or what was there before                       *)
(***************************************************************************)

\* The states of setup between the backup and the activation.
BeforeActivation == {"snapshot", "stage", "check", "activate"}

\* The program file, unless another program has written: what was there until the
\* activation, the new program from then on, and the old one again after the rollback.
FileFollows ==
    others = 0 =>
        /\ installPc \in BeforeActivation => file = orig
        /\ installPc \in {"record", "register", "committed"} => file = "new"
        /\ installPc = "rollback" /\ ~activated => file = orig
        /\ installPc = "restore" /\ ~failed => file = orig
        /\ installPc = "failed" /\ ~failed /\ (existed \/ activated) => file = orig
        /\ installPc \in BeforeActivation \cup {"record", "register", "rollback", "undo"}
             /\ existed =>
              bak = orig

\* What setup has checked last holds until another program writes.
CheckHolds ==
    ~late => /\ installPc = "activate" => file = orig
             /\ installPc = "undo" => file = installed

\* The registry: untouched, written up to `at`, or restored up to `at`.
RegistryFollows ==
    /\ installPc \in {"start", "backup", "record"} \cup BeforeActivation => reg = snap
    /\ installPc \in {"register", "committed"} =>
          \A k \in 1..5 : k < at => reg[Install!Writes[k]] = (IF k = 3 THEN "none" ELSE "new")
    /\ installPc = "committed" => at = 6
    /\ installPc = "restore" /\ ~failed =>
          \A k \in {1, 2, 3, 5} : k < at => reg[Install!Writes[k]] = snap[Install!Writes[k]]
    /\ Install!ValuesRestored

\* The inductive invariant of setup.
InstallInv ==
    /\ Install!TypeOK
    /\ others \in Nat
    /\ existed \in BOOLEAN /\ (existed <=> orig # "none")
    /\ installPc \in {"start", "backup"} => ~existed /\ ~activated /\ at = 1
    /\ installPc \in {"record"} \cup BeforeActivation => at = 1
    /\ installPc \in {"register", "committed"} => activated
    /\ snap \in [Install!Values -> Install!Contents]
    /\ FileFollows /\ CheckHolds /\ RegistryFollows

\* The registry values setup writes, in their order.
LEMMA WritesFacts ==
    /\ Install!Len(Install!Writes) = 5
    /\ Install!Writes[1] = "path" /\ Install!Writes[2] = "uninstall"
         /\ Install!Writes[3] = "quiet"
    /\ Install!Writes[4] = "size" /\ Install!Writes[5] = "protocol"
    /\ Install!Values = {"path", "uninstall", "quiet", "size", "protocol"}
    /\ Install!Tracked = {"path", "uninstall", "quiet", "protocol"}
    /\ Install!None = "none" /\ Install!Contents = {"none", "old", "new", "other"}
  BY DEF Install!Writes, Install!Values, Install!Tracked, Install!None, Install!Contents

\* Setup has changed nothing at the start.
LEMMA InstallStarts == ASSUME Install!Init PROVE InstallInv
<1>1. reg \in [Install!Values -> Install!Contents]
  BY WritesFacts DEF Install!Init
<1>2. Install!TypeOK
  BY <1>1, WritesFacts DEF Install!Init, Install!TypeOK
<1>3. FileFollows /\ CheckHolds /\ RegistryFollows
  BY <1>1, WritesFacts DEF Install!Init, FileFollows, CheckHolds, RegistryFollows,
     Install!ValuesRestored, BeforeActivation
<1> QED
  BY <1>1, <1>2, <1>3, WritesFacts DEF Install!Init, InstallInv, BeforeActivation

\* Pinning the folder reads only.
LEMMA InstallPin == ASSUME InstallInv, Install!Pin
                  PROVE InstallInv' /\ Install!ProgramStaysStep /\ Install!OthersKeptStep
  BY WritesFacts DEF Install!Pin, InstallInv, Install!TypeOK, FileFollows, CheckHolds,
     RegistryFollows,
     Install!ValuesRestored, BeforeActivation, Install!tx, Install!ProgramStaysStep,
     Install!OthersKeptStep

\* The backup is a copy of the program that is there.
LEMMA InstallBackup == ASSUME InstallInv, Install!Backup
                  PROVE InstallInv' /\ Install!ProgramStaysStep /\ Install!OthersKeptStep
<1>a. /\ UNCHANGED <<file, reg, at, activated, installed>>
      /\ \/ bak' = file /\ existed' = (file # Install!None)
         \/ UNCHANGED <<bak, existed>>
      /\ orig' \in {orig, file}
  BY DEF Install!Backup
<1>1. Install!TypeOK'
  <2>1. {file, bak, orig, installed}' \subseteq Install!Contents
    BY <1>a DEF InstallInv, Install!TypeOK
  <2>2. bak' # Install!None => existed'
    <3>1. bak # Install!None => existed
      BY DEF InstallInv, Install!TypeOK
    <3>2. CASE bak' = file /\ existed' = (file # Install!None)
      BY <3>2, Zenon
    <3>3. CASE UNCHANGED <<bak, existed>>
      BY <3>1, <3>3
    <3> QED
      BY <1>a, <3>2, <3>3
  <2> QED
    BY <1>a, <2>1, <2>2 DEF InstallInv, Install!TypeOK
<1>2. /\ others' \in Nat /\ existed' \in BOOLEAN /\ snap' \in [Install!Values -> Install!Contents]
      /\ installPc' \in {"start", "backup"} => ~existed' /\ ~activated' /\ at' = 1
      /\ installPc' \in {"record"} \cup BeforeActivation => at' = 1
      /\ installPc' \in {"register", "committed"} => activated'
  BY WritesFacts DEF Install!Backup, InstallInv, Install!TypeOK, BeforeActivation, RegistryFollows
<1>3. existed' <=> orig' # "none"
  <2>1. \/ existed' = existed /\ orig' = orig
        \/ existed' = (file # Install!None) /\ orig' = file
    BY DEF Install!Backup
  <2>2. (existed <=> orig # "none") /\ Install!None = "none"
    BY WritesFacts DEF InstallInv
  <2> QED
    BY <2>1, <2>2, Zenon
<1>4. FileFollows'
  BY WritesFacts DEF Install!Backup, InstallInv, Install!TypeOK, FileFollows, CheckHolds,
     BeforeActivation
<1>5. CheckHolds'
  BY WritesFacts DEF Install!Backup, InstallInv, Install!TypeOK, CheckHolds, BeforeActivation
<1>6. RegistryFollows'
  BY WritesFacts DEF Install!Backup, InstallInv, Install!TypeOK, RegistryFollows,
     BeforeActivation, Install!ValuesRestored
<1>7. Install!ProgramStaysStep /\ Install!OthersKeptStep
  BY WritesFacts DEF Install!Backup, InstallInv, Install!TypeOK, CheckHolds,
     Install!ProgramStaysStep, Install!OthersKeptStep
<1> QED
  BY <1>1, <1>2, <1>3, <1>4, <1>5, <1>6, <1>7 DEF InstallInv

\* The snapshot is what the registry holds.
LEMMA InstallSnapshot == ASSUME InstallInv, Install!Snapshot
                  PROVE InstallInv' /\ Install!ProgramStaysStep /\ Install!OthersKeptStep
  BY WritesFacts DEF Install!Snapshot, InstallInv, Install!TypeOK, FileFollows, CheckHolds,
     RegistryFollows,
     Install!ValuesRestored, BeforeActivation, Install!tx, Install!ProgramStaysStep,
     Install!OthersKeptStep

\* Staging writes beside the program.
LEMMA InstallStage == ASSUME InstallInv, Install!Stage
                  PROVE InstallInv' /\ Install!ProgramStaysStep /\ Install!OthersKeptStep
  BY WritesFacts DEF Install!Stage, InstallInv, Install!TypeOK, FileFollows, CheckHolds,
     RegistryFollows,
     Install!ValuesRestored, BeforeActivation, Install!tx, Install!ProgramStaysStep,
     Install!OthersKeptStep

\* The check sees whether the program is still the one that was backed up.
LEMMA InstallCheck == ASSUME InstallInv, Install!Check
                  PROVE InstallInv' /\ Install!ProgramStaysStep /\ Install!OthersKeptStep
  BY WritesFacts DEF Install!Check, InstallInv, Install!TypeOK, FileFollows, CheckHolds,
     RegistryFollows,
     Install!ValuesRestored, BeforeActivation, Install!tx, Install!ProgramStaysStep,
     Install!OthersKeptStep

\* The activation replaces what was checked last.
LEMMA InstallActivate == ASSUME InstallInv, Install!Activate
                  PROVE InstallInv' /\ Install!ProgramStaysStep /\ Install!OthersKeptStep
  BY WritesFacts DEF Install!Activate, InstallInv, Install!TypeOK, FileFollows, CheckHolds,
     RegistryFollows,
     Install!ValuesRestored, BeforeActivation, Install!tx, Install!ProgramStaysStep,
     Install!OthersKeptStep

\* What was activated is recorded for the rollback.
LEMMA InstallRecord == ASSUME InstallInv, Install!Record
                  PROVE InstallInv' /\ Install!ProgramStaysStep /\ Install!OthersKeptStep
  BY WritesFacts DEF Install!Record, InstallInv, Install!TypeOK, FileFollows, CheckHolds,
     RegistryFollows,
     Install!ValuesRestored, BeforeActivation, Install!ProgramStaysStep, Install!OthersKeptStep

\* The registry values are written one after the other.
LEMMA InstallRegister == ASSUME InstallInv, Install!Register
                  PROVE InstallInv' /\ Install!ProgramStaysStep /\ Install!OthersKeptStep
  BY WritesFacts DEF Install!Register, InstallInv, Install!TypeOK, FileFollows, CheckHolds,
     RegistryFollows,
     Install!ValuesRestored, BeforeActivation, Install!tx, Install!ProgramStaysStep,
     Install!OthersKeptStep

\* Success is reported after the last of them.
LEMMA InstallCommit == ASSUME InstallInv, Install!Commit
                  PROVE InstallInv' /\ Install!ProgramStaysStep /\ Install!OthersKeptStep
  BY WritesFacts DEF Install!Commit, InstallInv, Install!TypeOK, FileFollows, CheckHolds,
     RegistryFollows,
     Install!ValuesRestored, BeforeActivation, Install!tx, Install!counts,
     Install!ProgramStaysStep, Install!OthersKeptStep

\* The rollback looks at the program first and leaves a changed one alone.
LEMMA InstallRollbackCheck == ASSUME InstallInv, Install!RollbackCheck
                  PROVE InstallInv' /\ Install!ProgramStaysStep /\ Install!OthersKeptStep
<1>1. Install!TypeOK'
  BY WritesFacts DEF Install!RollbackCheck, InstallInv, Install!TypeOK, Install!tx,
     Install!ToRegistry
<1>2. /\ others' \in Nat /\ existed' \in BOOLEAN /\ snap' \in [Install!Values -> Install!Contents]
      /\ installPc' \in {"start", "backup"} => ~existed' /\ ~activated' /\ at' = 1
      /\ installPc' \in {"record"} \cup BeforeActivation => at' = 1
      /\ installPc' \in {"register", "committed"} => activated'
  BY WritesFacts DEF Install!RollbackCheck, InstallInv, Install!TypeOK, Install!tx,
     Install!ToRegistry, BeforeActivation, RegistryFollows
<1>3. existed' <=> orig' # "none"
  BY WritesFacts DEF Install!RollbackCheck, InstallInv, Install!tx
<1>4. FileFollows'
  BY WritesFacts DEF Install!RollbackCheck, InstallInv, Install!TypeOK, Install!tx,
     Install!ToRegistry, FileFollows, CheckHolds, BeforeActivation
<1>5. CheckHolds'
  BY WritesFacts DEF Install!RollbackCheck, InstallInv, Install!TypeOK, Install!tx,
     Install!ToRegistry, CheckHolds, BeforeActivation
<1>6. RegistryFollows'
  BY WritesFacts DEF Install!RollbackCheck, InstallInv, Install!TypeOK, Install!tx,
     Install!ToRegistry, RegistryFollows, BeforeActivation, Install!ValuesRestored
<1>7. Install!ProgramStaysStep /\ Install!OthersKeptStep
  BY WritesFacts DEF Install!RollbackCheck, InstallInv, Install!TypeOK, Install!tx,
     Install!ToRegistry, CheckHolds, Install!ProgramStaysStep, Install!OthersKeptStep
<1> QED
  BY <1>1, <1>2, <1>3, <1>4, <1>5, <1>6, <1>7 DEF InstallInv

\* The rollback puts the backup back, or removes what setup brought.
LEMMA InstallUndo == ASSUME InstallInv, Install!Undo
                  PROVE InstallInv' /\ Install!ProgramStaysStep /\ Install!OthersKeptStep
<1>1. Install!TypeOK'
  BY WritesFacts DEF Install!Undo, InstallInv, Install!TypeOK, Install!tx, Install!ToRegistry
<1>2. /\ others' \in Nat /\ existed' \in BOOLEAN /\ snap' \in [Install!Values -> Install!Contents]
      /\ installPc' \in {"start", "backup"} => ~existed' /\ ~activated' /\ at' = 1
      /\ installPc' \in {"record"} \cup BeforeActivation => at' = 1
      /\ installPc' \in {"register", "committed"} => activated'
  BY WritesFacts DEF Install!Undo, InstallInv, Install!TypeOK, Install!tx, Install!ToRegistry,
     BeforeActivation, RegistryFollows
<1>3. existed' <=> orig' # "none"
  BY WritesFacts DEF Install!Undo, InstallInv, Install!tx
<1>4. FileFollows'
  BY WritesFacts DEF Install!Undo, InstallInv, Install!TypeOK, Install!tx, Install!ToRegistry,
     FileFollows, CheckHolds, BeforeActivation
<1>5. CheckHolds'
  BY WritesFacts DEF Install!Undo, InstallInv, Install!TypeOK, Install!tx, Install!ToRegistry,
     CheckHolds, BeforeActivation
<1>6. RegistryFollows'
  BY WritesFacts DEF Install!Undo, InstallInv, Install!TypeOK, Install!tx, Install!ToRegistry,
     RegistryFollows, BeforeActivation, Install!ValuesRestored
<1>7. Install!ProgramStaysStep /\ Install!OthersKeptStep
  BY WritesFacts DEF Install!Undo, InstallInv, Install!TypeOK, Install!tx, Install!ToRegistry,
     CheckHolds, Install!ProgramStaysStep, Install!OthersKeptStep
<1> QED
  BY <1>1, <1>2, <1>3, <1>4, <1>5, <1>6, <1>7 DEF InstallInv

\* The registry values are restored one after the other.
LEMMA InstallRestore == ASSUME InstallInv, Install!Restore
                  PROVE InstallInv' /\ Install!ProgramStaysStep /\ Install!OthersKeptStep
  BY WritesFacts DEF Install!Restore, InstallInv, Install!TypeOK, FileFollows, CheckHolds,
     RegistryFollows,
     Install!ValuesRestored, BeforeActivation, Install!tx, Install!ProgramStaysStep,
     Install!OthersKeptStep

\* The rollback is over when the last of them is restored.
LEMMA InstallRolledBack == ASSUME InstallInv, Install!RolledBack
                  PROVE InstallInv' /\ Install!ProgramStaysStep /\ Install!OthersKeptStep
  BY WritesFacts DEF Install!RolledBack, InstallInv, Install!TypeOK, FileFollows, CheckHolds,
     RegistryFollows,
     Install!ValuesRestored, BeforeActivation, Install!tx, Install!counts,
     Install!ProgramStaysStep, Install!OthersKeptStep

\* Another program writes to the path, which the invariant counts.
LEMMA InstallOtherWrites == ASSUME InstallInv, Install!OtherWrites
                  PROVE InstallInv' /\ Install!ProgramStaysStep /\ Install!OthersKeptStep
  BY WritesFacts DEF Install!OtherWrites, InstallInv, Install!TypeOK, FileFollows, CheckHolds,
     RegistryFollows,
     Install!ValuesRestored, BeforeActivation, Install!tx, Install!ProgramStaysStep,
     Install!OthersKeptStep

\* A crash leaves the files where they are.
LEMMA InstallCrash == ASSUME InstallInv, Install!Crash
                  PROVE InstallInv' /\ Install!ProgramStaysStep /\ Install!OthersKeptStep
<1>1. Install!TypeOK'
  BY WritesFacts DEF Install!Crash, InstallInv, Install!TypeOK
<1>2. /\ others' \in Nat /\ existed' \in BOOLEAN /\ snap' \in [Install!Values -> Install!Contents]
      /\ installPc' \in {"start", "backup"} => ~existed' /\ ~activated' /\ at' = 1
      /\ installPc' \in {"record"} \cup BeforeActivation => at' = 1
      /\ installPc' \in {"register", "committed"} => activated'
  BY WritesFacts DEF Install!Crash, InstallInv, Install!TypeOK, BeforeActivation, RegistryFollows
<1>3. existed' <=> orig' # "none"
  BY WritesFacts DEF Install!Crash, InstallInv
<1>4. FileFollows'
  BY WritesFacts DEF Install!Crash, InstallInv, Install!TypeOK, FileFollows, CheckHolds,
     BeforeActivation
<1>5. CheckHolds'
  BY WritesFacts DEF Install!Crash, InstallInv, Install!TypeOK, CheckHolds, BeforeActivation
<1>6. RegistryFollows'
  BY WritesFacts DEF Install!Crash, InstallInv, Install!TypeOK, RegistryFollows,
     BeforeActivation, Install!ValuesRestored
<1>7. Install!ProgramStaysStep /\ Install!OthersKeptStep
  BY WritesFacts DEF Install!Crash, InstallInv, Install!TypeOK, CheckHolds,
     Install!ProgramStaysStep, Install!OthersKeptStep
<1> QED
  BY <1>1, <1>2, <1>3, <1>4, <1>5, <1>6, <1>7 DEF InstallInv

\* The invariant says what the suite checks of setup (transaction.go).
LEMMA InstallImplies == ASSUME InstallInv
    PROVE  /\ Install!OriginalKept /\ Install!CommittedIsInstalled
           /\ Install!RollbackRestores /\ Install!ValuesRestored
  BY WritesFacts DEF InstallInv, Install!TypeOK, FileFollows, RegistryFollows, BeforeActivation,
     Install!OriginalKept, Install!CommittedIsInstalled, Install!RollbackRestores

\* Every step of setup keeps the invariant, never leaves the path of a program empty
\* and spares what another program wrote.
LEMMA InstallSteps ==
    ASSUME InstallInv, [Install!Next]_(Install!vars)
    PROVE  InstallInv' /\ Install!ProgramStaysStep /\ Install!OthersKeptStep
<1>1. ASSUME UNCHANGED Install!vars
      PROVE  InstallInv' /\ Install!ProgramStaysStep /\ Install!OthersKeptStep
  <2>1. /\ UNCHANGED <<file, bak, reg, installPc, at, existed, orig, activated, installed>>
        /\ UNCHANGED <<snap, failed, broken, late, installFaults, others, crashes>>
    BY <1>1 DEF Install!vars, Install!tx, Install!counts
  <2>2. Install!TypeOK'
    BY <2>1 DEF InstallInv, Install!TypeOK
  <2>3. FileFollows' /\ CheckHolds' /\ RegistryFollows'
    BY <2>1 DEF InstallInv, FileFollows, CheckHolds, RegistryFollows, Install!ValuesRestored
  <2> QED
    BY <2>1, <2>2, <2>3 DEF InstallInv, Install!ProgramStaysStep, Install!OthersKeptStep
<1> QED
  BY <1>1, InstallPin, InstallBackup, InstallSnapshot, InstallStage, InstallCheck,
     InstallActivate, InstallRecord, InstallRegister, InstallCommit, InstallRollbackCheck,
       InstallUndo, InstallRestore, InstallRolledBack, InstallOtherWrites, InstallCrash
     DEF Install!Next, Install!Setup, Install!Rollback

(***************************************************************************)
(* Removal: from the registration to the last shortcut                     *)
(***************************************************************************)

\* A shortcut that leads to the program.
OfTheProgram == {"own", "edited"}

\* The inductive invariant of the removal: the registrations stay until the helper
\* runs; a shortcut of the program is about to be made, recorded or was reported, and
\* one the uninstaller has passed is gone or was reported.
RemovalInv ==
    /\ link \in [Links -> {"own", "edited", "foreign", "none"}]
    /\ rec \in [Links -> {"none", "own", "edited"}]
    /\ parent \in {"none", "asked", "cancelled", "links", "shown", "exited"}
    /\ parent \notin {"none", "cancelled"} => setup = {}
    /\ parent \in {"links", "shown", "exited"} => helper # "none"
    /\ \A l \in Links : link[l] \in OfTheProgram => l \in setup \/ rec[l] # "none" \/ warned
    /\ parent = "links" => \A l \in Links : link[l] \in OfTheProgram => l \in todo \/ warned
    /\ Removal!RegisteredUntilStarted /\ Removal!NoShortcutLeft

\* Setup has made no shortcut at the start.
LEMMA RemovalStarts == ASSUME Removal!Init PROVE RemovalInv
  BY DEF Removal!Init, RemovalInv, OfTheProgram, Removal!RegisteredUntilStarted,
     Removal!NoShortcutLeft

\* The uninstaller asks before it changes anything.
LEMMA RemovalBegin == ASSUME RemovalInv, Removal!Begin
                  PROVE RemovalInv' /\ Removal!OnlyTheProgramStep
  BY DEF Removal!Begin, RemovalInv, OfTheProgram, Removal!RegisteredUntilStarted,
     Removal!NoShortcutLeft,
     Removal!OnlyTheProgramStep, Removal!files, Removal!counts, Removal!Idle

\* The links are removed only when the helper runs.
LEMMA RemovalLaunch == ASSUME RemovalInv, Removal!Launch
                  PROVE RemovalInv' /\ Removal!OnlyTheProgramStep
  BY DEF Removal!Launch, RemovalInv, OfTheProgram, Removal!RegisteredUntilStarted,
     Removal!NoShortcutLeft,
     Removal!OnlyTheProgramStep, Removal!files

\* A link that is left although it leads to the program is reported.
LEMMA RemovalRemoveLink == ASSUME NEW l \in Links, RemovalInv, Removal!RemoveLink(l)
                  PROVE RemovalInv' /\ Removal!OnlyTheProgramStep
  BY DEF Removal!RemoveLink, RemovalInv, OfTheProgram, Removal!RegisteredUntilStarted,
     Removal!NoShortcutLeft,
     Removal!OnlyTheProgramStep

\* The registrations go after the links.
LEMMA RemovalUnregister == ASSUME RemovalInv, Removal!Unregister
                  PROVE RemovalInv' /\ Removal!OnlyTheProgramStep
  BY DEF Removal!Unregister, RemovalInv, OfTheProgram, Removal!RegisteredUntilStarted,
     Removal!NoShortcutLeft,
     Removal!OnlyTheProgramStep, Removal!files

\* The window closes when everything has been shown.
LEMMA RemovalParentExits == ASSUME RemovalInv, Removal!ParentExits
                  PROVE RemovalInv' /\ Removal!OnlyTheProgramStep
  BY DEF Removal!ParentExits, RemovalInv, OfTheProgram, Removal!RegisteredUntilStarted,
     Removal!NoShortcutLeft,
     Removal!OnlyTheProgramStep, Removal!files

\* The helper only waits.
LEMMA RemovalHelperWaits == ASSUME RemovalInv, Removal!HelperWaits
                  PROVE RemovalInv' /\ Removal!OnlyTheProgramStep
  BY DEF Removal!HelperWaits, RemovalInv, OfTheProgram, Removal!RegisteredUntilStarted,
     Removal!NoShortcutLeft,
     Removal!OnlyTheProgramStep, Removal!files, Removal!counts

\* The helper deletes the program it has verified, after its parent is gone.
LEMMA RemovalDelete == ASSUME RemovalInv, Removal!Delete
                  PROVE RemovalInv' /\ Removal!OnlyTheProgramStep
  BY DEF Removal!Delete, RemovalInv, OfTheProgram, Removal!RegisteredUntilStarted,
     Removal!NoShortcutLeft,
     Removal!OnlyTheProgramStep, Removal!counts

\* Nobody brings a link to the program but setup and who edits one.
LEMMA RemovalChange == ASSUME RemovalInv, Removal!Change
                  PROVE RemovalInv' /\ Removal!OnlyTheProgramStep
  BY DEF Removal!Change, RemovalInv, OfTheProgram, Removal!RegisteredUntilStarted,
     Removal!NoShortcutLeft,
     Removal!OnlyTheProgramStep

\* Setup that runs again makes or takes over each link.
LEMMA RemovalSetupAgain == ASSUME RemovalInv, Removal!SetupAgain
                  PROVE RemovalInv' /\ Removal!OnlyTheProgramStep
  BY DEF Removal!SetupAgain, RemovalInv, OfTheProgram, Removal!RegisteredUntilStarted,
     Removal!NoShortcutLeft,
     Removal!OnlyTheProgramStep, Removal!Idle

\* A link setup has made or taken over is recorded.
LEMMA RemovalMakeLink == ASSUME NEW l \in Links, RemovalInv, Removal!MakeLink(l)
                  PROVE RemovalInv' /\ Removal!OnlyTheProgramStep
  BY DEF Removal!MakeLink, RemovalInv, OfTheProgram, Removal!RegisteredUntilStarted,
     Removal!NoShortcutLeft,
     Removal!OnlyTheProgramStep

\* A link is removed only as it was recorded.
LEMMA OnlyRecordedLinks == ASSUME RemovalInv PROVE Removal!OnlyRecordedLinksStep
  BY DEF RemovalInv, Removal!OnlyRecordedLinksStep, Removal!RemoveLink

\* Every step of setup, of the uninstaller and of the user keeps the invariant; a
\* shortcut is removed only as it was recorded, and only the verified program deleted.
LEMMA RemovalSteps ==
    ASSUME RemovalInv, [Removal!Next]_(Removal!vars)
    PROVE  /\ RemovalInv'
           /\ Removal!OnlyRecordedLinksStep /\ Removal!OnlyTheProgramStep
<1>1. ASSUME UNCHANGED Removal!vars
      PROVE  RemovalInv' /\ Removal!OnlyTheProgramStep
  BY <1>1 DEF Removal!vars, Removal!files, Removal!counts, RemovalInv, OfTheProgram,
     Removal!RegisteredUntilStarted, Removal!NoShortcutLeft, Removal!OnlyTheProgramStep
<1> QED
  BY <1>1, OnlyRecordedLinks, RemovalBegin, RemovalLaunch, RemovalRemoveLink,
     RemovalUnregister, RemovalParentExits, RemovalHelperWaits, RemovalDelete, RemovalChange,
       RemovalSetupAgain, RemovalMakeLink
     DEF Removal!Next, Removal!SetupStep, Removal!Uninstaller

(***************************************************************************)
(* Settings: what is read, filled in and stored                            *)
(***************************************************************************)

\* What a file of this or another version, or a user, may say.
Texts == {"", "xx", "other", "grey", "en", "hr", "de", "dark", "light", "skip", "replace",
  "replace_backup"}

\* Settings of the right shape, whatever their values.
AnySettings ==
    [language : Texts, appearance : Texts, policy : Texts, skip : BOOLEAN, backup : BOOLEAN,
     confirm : BOOLEAN, num : [Rules!Numbers -> Int]]

\* Settings as the store holds them.
CanonicalSettings(v) ==
    /\ v \in AnySettings /\ Rules!Valid(v)
    /\ (v.skip <=> v.policy = "skip") /\ (v.backup <=> v.policy # "replace")

\* Two settings that differ at most in the flags old components read.
SameChoices(v, w) ==
    /\ v.language = w.language /\ v.appearance = w.appearance /\ v.policy = w.policy
    /\ v.confirm = w.confirm /\ v.num = w.num

\* Two settings that agree in the given fields.
Agree(v, w, fields) == \A f \in fields : v[f] = w[f]
\* The fields of the settings.
Fields == {"language", "appearance", "policy", "skip", "backup", "confirm", "num"}

\* An assignment to one field.
LEMMA OneField ==
    ASSUME NEW v \in AnySettings
    PROVE  /\ \A x \in Texts : LET w == [v EXCEPT !.language = x] IN
                 w \in AnySettings /\ w.language = x /\ Agree(w, v, Fields \ {"language"})
           /\ \A x \in Texts : LET w == [v EXCEPT !.appearance = x] IN
                 w \in AnySettings /\ w.appearance = x /\ Agree(w, v, Fields \ {"appearance"})
           /\ \A x \in Texts : LET w == [v EXCEPT !.policy = x] IN
                 w \in AnySettings /\ w.policy = x /\ Agree(w, v, Fields \ {"policy"})
           /\ \A x \in BOOLEAN : LET w == [v EXCEPT !.skip = x] IN
                 w \in AnySettings /\ w.skip = x /\ Agree(w, v, Fields \ {"skip"})
           /\ \A x \in BOOLEAN : LET w == [v EXCEPT !.backup = x] IN
                 w \in AnySettings /\ w.backup = x /\ Agree(w, v, Fields \ {"backup"})
           /\ \A x \in BOOLEAN : LET w == [v EXCEPT !.confirm = x] IN
                 w \in AnySettings /\ w.confirm = x /\ Agree(w, v, Fields \ {"confirm"})
           /\ \A x \in [Rules!Numbers -> Int] : LET w == [v EXCEPT !.num = x] IN
                 w \in AnySettings /\ w.num = x /\ Agree(w, v, Fields \ {"num"})
<1>1. ASSUME NEW x \in Texts
      PROVE  LET w == [v EXCEPT !.language = x] IN
             w \in AnySettings /\ w.language = x /\ Agree(w, v, Fields \ {"language"})
  BY SMT DEF AnySettings, Agree, Fields
<1>2. ASSUME NEW x \in Texts
      PROVE  LET w == [v EXCEPT !.appearance = x] IN
             w \in AnySettings /\ w.appearance = x /\ Agree(w, v, Fields \ {"appearance"})
  BY SMT DEF AnySettings, Agree, Fields
<1>3. ASSUME NEW x \in Texts
      PROVE  LET w == [v EXCEPT !.policy = x] IN
             w \in AnySettings /\ w.policy = x /\ Agree(w, v, Fields \ {"policy"})
  BY SMT DEF AnySettings, Agree, Fields
<1>4. ASSUME NEW x \in BOOLEAN
      PROVE  LET w == [v EXCEPT !.skip = x] IN
             w \in AnySettings /\ w.skip = x /\ Agree(w, v, Fields \ {"skip"})
  BY SMT DEF AnySettings, Agree, Fields
<1>5. ASSUME NEW x \in BOOLEAN
      PROVE  LET w == [v EXCEPT !.backup = x] IN
             w \in AnySettings /\ w.backup = x /\ Agree(w, v, Fields \ {"backup"})
  BY SMT DEF AnySettings, Agree, Fields
<1>6. ASSUME NEW x \in BOOLEAN
      PROVE  LET w == [v EXCEPT !.confirm = x] IN
             w \in AnySettings /\ w.confirm = x /\ Agree(w, v, Fields \ {"confirm"})
  BY SMT DEF AnySettings, Agree, Fields
<1>7. ASSUME NEW x \in [Rules!Numbers -> Int]
      PROVE  LET w == [v EXCEPT !.num = x] IN
             w \in AnySettings /\ w.num = x /\ Agree(w, v, Fields \ {"num"})
  BY SMT DEF AnySettings, Agree, Fields
<1> QED
  BY <1>1, <1>2, <1>3, <1>4, <1>5, <1>6, <1>7

\* The default settings are canonical.
LEMMA DefaultIsCanonical == CanonicalSettings(Rules!DefaultSettings)
<1>1. Rules!DefaultSettings \in AnySettings
  BY SMT DEF AnySettings, Texts, Rules!DefaultSettings, Rules!Numbers
<1>2. Rules!Valid(Rules!DefaultSettings)
  BY SMT DEF Rules!DefaultSettings, Rules!Valid, Rules!Within, Rules!Low, Rules!High,
     Rules!Numbers, Rules!Languages,
     Rules!Appearances, Rules!Policies
<1> QED
  BY <1>1, <1>2 DEF CanonicalSettings, Rules!DefaultSettings

\* The policy decides the flags.
LEMMA MigrateFacts ==
    ASSUME NEW v \in AnySettings, NEW persisted \in BOOLEAN
    PROVE  LET w == Rules!MigrateConflict(v, persisted) IN
           /\ w \in AnySettings
           /\ w.language = v.language /\ w.appearance = v.appearance /\ w.confirm = v.confirm
                /\ w.num = v.num
           /\ persisted => w.policy \in Rules!Policies
           /\ v.policy \in Rules!Policies => w.policy = v.policy
           /\ w.policy \in Rules!Policies => (w.skip <=> w.policy = "skip")
                /\ (w.backup <=> w.policy # "replace")
<1>1. PICK p : p = IF v.policy = "" THEN IF v.skip THEN "skip"
                                         ELSE IF v.backup THEN "replace_backup" ELSE "replace"
                   ELSE IF v.policy \notin Rules!Policies
                     /\ persisted THEN "replace_backup" ELSE v.policy
  OBVIOUS
<1>2. /\ p \in Texts /\ (persisted => p \in Rules!Policies)
      /\ v.policy \in Rules!Policies => p = v.policy
  <2>1. p \in {"skip", "replace", "replace_backup", v.policy}
    BY <1>1, Zenon DEF Rules!Policies
  <2>2. v.policy \in Rules!Policies => p = v.policy
    <3>1. v.policy \in Rules!Policies => v.policy # ""
      BY DEF Rules!Policies
    <3> QED
      BY <1>1, <3>1, Zenon
  <2>3. persisted => p \in Rules!Policies
    BY <1>1, Zenon DEF Rules!Policies
  <2>4. v.policy \in Texts
    BY DEF AnySettings
  <2>5. p \in Texts
    BY <2>1, <2>4, Zenon DEF Texts
  <2> QED
    BY <2>2, <2>3, <2>5, Zenon
<1>3. PICK skip \in BOOLEAN : skip <=> p = "skip"
  OBVIOUS
<1>4. PICK backup \in BOOLEAN : backup <=> p # "replace"
  OBVIOUS
<1>5. skip = (p = "skip") /\ backup = (p # "replace")
  BY <1>3, <1>4, Zenon
<1>6. Rules!MigrateConflict(v, persisted) =
          IF p \in Rules!Policies THEN [v EXCEPT !.policy = p, !.skip = skip, !.backup = backup]
          ELSE [v EXCEPT !.policy = p]
  BY <1>1, <1>5, Zenon DEF Rules!MigrateConflict
<1>7. PICK u : u = [v EXCEPT !.policy = p]
  OBVIOUS
<1>8. PICK t : t = [u EXCEPT !.skip = skip]
  OBVIOUS
<1>9. PICK w : w = [t EXCEPT !.backup = backup]
  OBVIOUS
<1>10. Rules!MigrateConflict(v, persisted) = IF p \in Rules!Policies THEN w ELSE u
  BY <1>6, <1>7, <1>8, <1>9, Zenon
<1>11. u \in AnySettings /\ u.policy = p /\ Agree(u, v, Fields \ {"policy"})
  BY <1>2, <1>7, OneField, Zenon
<1>12. t \in AnySettings /\ t.skip = skip /\ Agree(t, u, Fields \ {"skip"})
  BY <1>8, <1>11, OneField, Zenon
<1>13. w \in AnySettings /\ w.backup = backup /\ Agree(w, t, Fields \ {"backup"})
  BY <1>9, <1>12, OneField, Zenon
<1>14. /\ u.language = v.language /\ u.appearance = v.appearance /\ u.confirm = v.confirm
            /\ u.num = v.num
       /\ w.language = v.language /\ w.appearance = v.appearance /\ w.confirm = v.confirm
            /\ w.num = v.num
       /\ w.policy = p /\ w.skip = skip /\ w.backup = backup
  BY <1>11, <1>12, <1>13, SMT DEF Agree, Fields
<1> QED
  BY <1>2, <1>3, <1>4, <1>10, <1>11, <1>13, <1>14

\* Numbers out of range are replaced by some within it.
LEMMA InRangeFacts ==
    ASSUME NEW num \in [Rules!Numbers -> Int]
    PROVE  /\ Rules!InRange(num) \in [Rules!Numbers -> Int]
           /\ \A n \in Rules!Numbers : Rules!Within(n, Rules!InRange(num)[n])
           /\ (\A n \in Rules!Numbers : Rules!Within(n, num[n])) => Rules!InRange(num) = num
  BY SMT DEF Rules!InRange, Rules!DefaultSettings, Rules!Within, Rules!Low, Rules!High,
     Rules!Numbers

\* Whatever was read is canonical afterwards.
LEMMA NormalizeIsCanonical ==
    ASSUME NEW v \in AnySettings
    PROVE  CanonicalSettings(Rules!Normalize(v))
<1> DEFINE language == Rules!NormalizeLanguage(v.language)
           num == Rules!InRange(v.num)
           appearance == IF v.appearance \in Rules!Appearances THEN v.appearance ELSE "dark"
<1>1. language \in Texts /\ language \in Rules!Languages
  BY DEF AnySettings, Texts, Rules!NormalizeLanguage, Rules!Languages
<1>2. appearance \in Texts /\ appearance \in Rules!Appearances
  BY DEF AnySettings, Texts, Rules!Appearances
<1>3. num \in [Rules!Numbers -> Int] /\ \A n \in Rules!Numbers : Rules!Within(n, num[n])
  BY InRangeFacts DEF AnySettings
<1>4. Rules!Normalize(v) =
          Rules!MigrateConflict([v EXCEPT !.language = language, !.num = num,
            !.appearance = appearance], TRUE)
  BY Zenon DEF Rules!Normalize
<1> HIDE DEF language, num, appearance
<1>5. PICK a : a = [v EXCEPT !.language = language]
  OBVIOUS
<1>6. PICK b : b = [a EXCEPT !.num = num]
  OBVIOUS
<1>7. PICK c : c = [b EXCEPT !.appearance = appearance]
  OBVIOUS
<1>8. a \in AnySettings /\ a.language = language /\ Agree(a, v, Fields \ {"language"})
  BY <1>1, <1>5, OneField, Zenon
<1>9. b \in AnySettings /\ b.num = num /\ Agree(b, a, Fields \ {"num"})
  BY <1>3, <1>6, <1>8, OneField, Zenon
<1>10. c \in AnySettings /\ c.appearance = appearance /\ Agree(c, b, Fields \ {"appearance"})
  BY <1>2, <1>7, <1>9, OneField, Zenon
<1>11. c.language = language /\ c.num = num
  BY <1>8, <1>9, <1>10 DEF Agree, Fields
<1>12. Rules!Normalize(v) = Rules!MigrateConflict(c, TRUE)
  BY <1>4, <1>5, <1>6, <1>7, Zenon
<1>13. /\ Rules!Normalize(v) \in AnySettings /\ Rules!Normalize(v).policy \in Rules!Policies
       /\ Rules!Normalize(v).language = language /\ Rules!Normalize(v).num = num
       /\ Rules!Normalize(v).appearance = appearance
       /\ Rules!Normalize(v).skip <=> Rules!Normalize(v).policy = "skip"
       /\ Rules!Normalize(v).backup <=> Rules!Normalize(v).policy # "replace"
  <2>1. LET w == Rules!MigrateConflict(c, TRUE) IN
        /\ w \in AnySettings
        /\ w.language = c.language /\ w.appearance = c.appearance /\ w.num = c.num
        /\ w.policy \in Rules!Policies
        /\ (w.skip <=> w.policy = "skip") /\ (w.backup <=> w.policy # "replace")
    <3>1. TRUE \in BOOLEAN
      OBVIOUS
    <3> QED
      BY <1>10, <3>1, MigrateFacts, Zenon
  <2> QED
    BY <1>10, <1>11, <1>12, <2>1
<1> QED
  BY <1>1, <1>2, <1>3, <1>13 DEF CanonicalSettings, Rules!Valid

\* Filling in what is missing changes nothing that is valid.
LEMMA FilledFacts ==
    ASSUME NEW v \in AnySettings
    PROVE  /\ Rules!Filled(v) \in AnySettings
           /\ Rules!Valid(v) => Agree(Rules!Filled(v), v, Fields)
<1> DEFINE language == IF v.language = "" THEN "en" ELSE v.language
           appearance == IF v.appearance = "" THEN "dark" ELSE v.appearance
           num == [n \in Rules!Numbers |-> IF v.num[n] = 0 /\ n \in {"parallel", "timeout",
             "delay"}
                                           THEN Rules!DefaultSettings.num[n] ELSE v.num[n]]
<1>1. language \in Texts /\ appearance \in Texts
  BY DEF AnySettings, Texts
<1>2. num \in [Rules!Numbers -> Int]
  BY SMT DEF AnySettings, Rules!DefaultSettings, Rules!Numbers
<1>3. Rules!Valid(v) => num = v.num
  BY SMT DEF Rules!Valid, Rules!Within, Rules!Low, Rules!Numbers, AnySettings
<1>4. Rules!Valid(v) => language = v.language /\ appearance = v.appearance
  BY DEF Rules!Valid, Rules!Languages, Rules!Appearances
<1>5. Rules!Filled(v) = [v EXCEPT !.language = language, !.appearance = appearance, !.num = num]
  BY Zenon DEF Rules!Filled
<1> HIDE DEF language, appearance, num
<1>6. PICK a : a = [v EXCEPT !.language = language]
  OBVIOUS
<1>7. PICK b : b = [a EXCEPT !.appearance = appearance]
  OBVIOUS
<1>8. PICK c : c = [b EXCEPT !.num = num]
  OBVIOUS
<1>9. a \in AnySettings /\ a.language = language /\ Agree(a, v, Fields \ {"language"})
  BY <1>1, <1>6, OneField, Zenon
<1>10. b \in AnySettings /\ b.appearance = appearance /\ Agree(b, a, Fields \ {"appearance"})
  BY <1>1, <1>7, <1>9, OneField, Zenon
<1>11. c \in AnySettings /\ c.num = num /\ Agree(c, b, Fields \ {"num"})
  BY <1>2, <1>8, <1>10, OneField, Zenon
<1>12. Rules!Filled(v) = c
  BY <1>5, <1>6, <1>7, <1>8, Zenon
<1>13. Rules!Valid(v) => Agree(c, v, Fields)
  BY <1>3, <1>4, <1>9, <1>10, <1>11 DEF Agree, Fields
<1> QED
  BY <1>11, <1>12, <1>13

\* What is stored is canonical, whatever was to be stored; and what is valid is stored
\* as it is.
LEMMA SetResultFacts ==
    ASSUME NEW v \in AnySettings, NEW old, CanonicalSettings(old)
    PROVE  /\ CanonicalSettings(Rules!SetResult(v, old))
           /\ Rules!Valid(v) => /\ Rules!Valid(Rules!MigrateConflict(Rules!Filled(v), FALSE))
                                /\ SameChoices(Rules!SetResult(v, old), v)
<1> DEFINE w == Rules!MigrateConflict(Rules!Filled(v), FALSE)
<1> DEFINE u == Rules!Filled(v)
<1>0. /\ u \in AnySettings /\ (Rules!Valid(v) => Agree(u, v, Fields)) /\ FALSE \in BOOLEAN
  BY FilledFacts
<1>a. w = Rules!MigrateConflict(u, FALSE)
  OBVIOUS
<1> HIDE DEF u, w
<1>b. /\ w \in AnySettings
      /\ w.language = u.language /\ w.appearance = u.appearance /\ w.confirm = u.confirm
           /\ w.num = u.num
      /\ u.policy \in Rules!Policies => w.policy = u.policy
      /\ w.policy \in Rules!Policies => (w.skip <=> w.policy = "skip")
           /\ (w.backup <=> w.policy # "replace")
  BY <1>0, <1>a, MigrateFacts, Zenon
<1>1. /\ w \in AnySettings
      /\ w.policy \in Rules!Policies => (w.skip <=> w.policy = "skip")
           /\ (w.backup <=> w.policy # "replace")
  BY <1>b
<1>2. Rules!Valid(v) => SameChoices(w, v)
  BY <1>0, <1>b DEF SameChoices, Rules!Valid, Agree, Fields
<1>3. Rules!Valid(v) => Rules!Valid(w)
  BY <1>2 DEF SameChoices, Rules!Valid
<1>4. Rules!Valid(w) => CanonicalSettings(w)
  BY <1>1 DEF CanonicalSettings, Rules!Valid
<1> HIDE DEF w
<1>5. Rules!SetResult(v, old) = IF Rules!Valid(w) THEN w ELSE old
  BY DEF Rules!SetResult, w, u
<1> QED
  BY <1>2, <1>3, <1>4, <1>5 DEF w, u

\* The list of the dialog stands for the policy it was chosen from.
LEMMA ApplyConflictFacts ==
    ASSUME NEW v \in AnySettings, v.policy \in Rules!Policies
    PROVE  LET u == Rules!ApplyConflict(v, Rules!ConflictIndex(v)) IN u \in AnySettings
           /\ SameChoices(u, v)
<1>1. v.policy = "skip" \/ v.policy = "replace" \/ v.policy = "replace_backup"
  BY DEF Rules!Policies
<1>2. Rules!ConflictIndex(v) = IF v.policy = "skip" THEN 0 ELSE IF v.policy
        = "replace" THEN 1 ELSE 2
  BY <1>1 DEF Rules!ConflictIndex
<1>3. PICK skip \in BOOLEAN : skip = (v.policy = "skip")
  BY Zenon
<1>4. PICK backup \in BOOLEAN : backup = (v.policy # "replace")
  BY Zenon
<1>5. Rules!ApplyConflict(v, Rules!ConflictIndex(v)) = [v EXCEPT !.policy = v.policy,
        !.skip = skip, !.backup = backup]
  <2>1. v.policy = IF Rules!ConflictIndex(v) = 0 THEN "skip"
                   ELSE IF Rules!ConflictIndex(v) = 1 THEN "replace" ELSE "replace_backup"
    BY <1>1, <1>2, SMT
  <2>2. PICK p : p = IF Rules!ConflictIndex(v) = 0 THEN "skip"
                     ELSE IF Rules!ConflictIndex(v) = 1 THEN "replace" ELSE "replace_backup"
    OBVIOUS
  <2>3. Rules!ApplyConflict(v, Rules!ConflictIndex(v)) = [v EXCEPT !.policy = p,
          !.skip = (p = "skip"), !.backup = (p # "replace")]
    BY <2>2, Zenon DEF Rules!ApplyConflict
  <2>4. p = v.policy
    BY <2>1, <2>2, Zenon
  <2> QED
    BY <2>3, <2>4, <1>3, <1>4, Zenon
<1>6. PICK a : a = [v EXCEPT !.policy = v.policy]
  OBVIOUS
<1>7. PICK b : b = [a EXCEPT !.skip = skip]
  OBVIOUS
<1>8. PICK c : c = [b EXCEPT !.backup = backup]
  OBVIOUS
<1>9. v.policy \in Texts
  BY DEF AnySettings
<1>10. a \in AnySettings /\ a.policy = v.policy /\ Agree(a, v, Fields \ {"policy"})
  BY <1>9, <1>6, OneField, Zenon
<1>11. b \in AnySettings /\ Agree(b, a, Fields \ {"skip"})
  BY <1>7, <1>10, OneField, Zenon
<1>12. c \in AnySettings /\ Agree(c, b, Fields \ {"backup"})
  BY <1>8, <1>11, OneField, Zenon
<1>13. Rules!ApplyConflict(v, Rules!ConflictIndex(v)) = c
  BY <1>5, <1>6, <1>7, <1>8, Zenon
<1>14. SameChoices(c, v)
  BY <1>10, <1>11, <1>12 DEF Agree, Fields, SameChoices
<1> QED
  BY <1>12, <1>13, <1>14

(***************************************************************************)
(* Settings: the steps of a limit and its shares                           *)
(***************************************************************************)

\* The presets in order.
Ladder ==
    <<0, 64, 128, 256, 512, 1024, 2048, 4096, 8192, 16384, 32768, 65536, 131072, 262144, 524288,
      1048576>>

\* The highest limit.
Fastest == Ladder[16]
\* The limit one step up.
Up(x) == Rules!StepLimit(x, TRUE)
\* The limit one step down.
Down(x) == Rules!StepLimit(x, FALSE)

\* The presets are the rungs.
LEMMA LadderFacts ==
    /\ \A p : p \in Rules!Presets <=> \E i \in 1..16 : p = Ladder[i]
    /\ \A i \in 1..16 : Ladder[i] \in Int
    /\ Ladder[1] = 0 /\ Fastest = 1048576 /\ Fastest = Ladder[16]
         /\ Rules!High["upload"] = Fastest
    /\ Rules!Low["upload"] = 0
  BY SMT DEF Rules!Presets, Ladder, Fastest, Rules!High, Rules!Low

\* The rungs rise.
LEMMA LadderRises == \A i \in 1..16, j \in 1..16 : i < j => Ladder[i] < Ladder[j]
<1> SUFFICES ASSUME NEW i \in 1..16, NEW j \in 1..16, i < j PROVE Ladder[i] < Ladder[j]
  OBVIOUS
<1> QED
  BY SMT DEF Ladder

\* Every limit stands on a rung or between two.
LEMMA Rungs ==
    ASSUME NEW x \in Int, 0 <= x, x <= Fastest
    PROVE  /\ x < Fastest => \E i \in 1..15 : Ladder[i] <= x /\ x < Ladder[i + 1]
           /\ 0 < x => \E i \in 1..15 : Ladder[i] < x /\ x <= Ladder[i + 1]
  BY SMT DEF Ladder, Fastest

\* A step up goes to the next rung.
LEMMA StepUp ==
    ASSUME NEW x \in Int, NEW i \in 1..15, Ladder[i] <= x, x < Ladder[i + 1]
    PROVE  Up(x) = Ladder[i + 1]
<1> DEFINE next == {p \in Rules!Presets : IF TRUE THEN p > x ELSE p < x}
<1>1. Ladder[i + 1] \in next
  BY LadderFacts, SMT
<1>2. \A y \in next : Ladder[i + 1] <= y
  <2>1. ASSUME NEW j \in 1..16, Ladder[j] > x PROVE Ladder[i + 1] <= Ladder[j]
    <3>1. j > i
      BY <2>1, LadderRises, LadderFacts, SMT
    <3> QED
      BY <3>1, LadderRises, LadderFacts, SMT
  <2> QED
    BY <2>1, LadderFacts, SMT
<1>3. \A y \in next : y \in Int
  BY LadderFacts, SMT
<1> HIDE DEF next
<1>4. Rules!Min(next) = Ladder[i + 1]
  BY <1>1, <1>2, <1>3, SMT DEF Rules!Min
<1> QED
  BY <1>1, <1>4, SMT DEF Rules!StepLimit, next, Up

\* A step down goes to the rung below.
LEMMA StepDown ==
    ASSUME NEW x \in Int, NEW i \in 1..15, Ladder[i] < x, x <= Ladder[i + 1]
    PROVE  Down(x) = Ladder[i]
<1> DEFINE next == {p \in Rules!Presets : IF FALSE THEN p > x ELSE p < x}
<1>1. Ladder[i] \in next
  BY LadderFacts, SMT
<1>2. \A y \in next : y <= Ladder[i]
  <2>1. ASSUME NEW j \in 1..16, Ladder[j] < x PROVE Ladder[j] <= Ladder[i]
    <3>1. j <= i
      BY <2>1, LadderRises, LadderFacts, SMT
    <3> QED
      BY <3>1, LadderRises, LadderFacts, SMT
  <2> QED
    BY <2>1, LadderFacts, SMT
<1>3. \A y \in next : y \in Int
  BY LadderFacts, SMT
<1> HIDE DEF next
<1>4. Rules!Max(next) = Ladder[i]
  BY <1>1, <1>2, <1>3, SMT DEF Rules!Max
<1> QED
  BY <1>1, <1>4, SMT DEF Rules!StepLimit, next, Down

\* A step down stays within the range.
LEMMA DownInRange ==
    ASSUME NEW x \in Int, 0 <= x, x <= Fastest
    PROVE  Down(x) \in Int /\ 0 <= Down(x) /\ Down(x) <= Fastest
<1>1. CASE 0 < x
  <2>1. PICK i \in 1..15 : Ladder[i] < x /\ x <= Ladder[i + 1]
    BY <1>1, Rungs, SMT
  <2>2. Down(x) = Ladder[i]
    BY <2>1, StepDown, SMT
  <2>3. Ladder[i] \in Int /\ 0 <= Ladder[i] /\ Ladder[i] < Fastest
    BY LadderRises, LadderFacts, SMT
  <2> QED
    BY <2>2, <2>3, LadderFacts, SMT
<1>2. CASE x = 0
  <2>1. {p \in Rules!Presets : IF FALSE THEN p > x ELSE p < x} = {}
    BY <1>2, SMT DEF Rules!Presets
  <2>2. Down(x) = 0
    BY <2>1, LadderFacts, SMT DEF Rules!StepLimit, Down
  <2> QED
    BY <2>2, LadderFacts, SMT
<1> QED
  BY <1>1, <1>2

\* A step from a limit in range ends in range.
LEMMA StepLimitInRange ==
    ASSUME NEW x \in Int, 0 <= x, x <= Fastest
    PROVE  /\ Up(x) \in Int /\ 0 <= Up(x) /\ Up(x) <= Fastest
           /\ Down(x) \in Int /\ 0 <= Down(x) /\ Down(x) <= Fastest
<1>1. CASE x < Fastest
  <2>1. PICK i \in 1..15 : Ladder[i] <= x /\ x < Ladder[i + 1]
    BY <1>1, Rungs, SMT
  <2>2. Up(x) = Ladder[i + 1]
    BY <2>1, StepUp, SMT
  <2>3. Ladder[i + 1] \in Int /\ Ladder[i + 1] <= Fastest
    BY LadderRises, LadderFacts, SMT
  <2> QED
    BY <2>1, <2>2, <2>3, DownInRange, SMT
<1>2. CASE x = Fastest
  <2>1. {p \in Rules!Presets : IF TRUE THEN p > x ELSE p < x} = {}
    BY <1>2, SMT DEF Rules!Presets, Fastest, Ladder
  <2>2. Up(x) = Fastest
    BY <2>1, LadderFacts, SMT DEF Rules!StepLimit, Up
  <2> QED
    BY <1>2, <2>2, LadderFacts, DownInRange, SMT
<1> QED
  BY <1>1, <1>2, LadderFacts, SMT

\* A step up from a preset and one down is none, and a step down lowers a limit.
LEMMA StepsReturnFacts ==
    /\ \A x \in Rules!Presets \ {Fastest} : Down(Up(x)) = x
    /\ \A x \in Int : 0 < x /\ x <= Fastest => Down(x) < x
<1>1. ASSUME NEW x \in Rules!Presets \ {Fastest}
      PROVE  Down(Up(x)) = x
  <2>1. PICK i \in 1..15 : x = Ladder[i]
    BY LadderFacts, SMT
  <2>2. Ladder[i] < Ladder[i + 1] /\ Ladder[i] \in Int /\ Ladder[i + 1] \in Int
    BY LadderRises, LadderFacts, SMT
  <2>3. Up(x) = Ladder[i + 1]
    BY <2>1, <2>2, StepUp, SMT
  <2>4. Down(Ladder[i + 1]) = Ladder[i]
    BY <2>2, StepDown, SMT
  <2> QED
    BY <2>1, <2>3, <2>4
<1>2. ASSUME NEW x \in Int, 0 < x, x <= Fastest PROVE Down(x) < x
  <2>1. PICK i \in 1..15 : Ladder[i] < x /\ x <= Ladder[i + 1]
    BY <1>2, Rungs, SMT
  <2> QED
    BY <2>1, StepDown, SMT
<1> QED
  BY <1>1, <1>2

\* The share of a limit is a share, and the kilobits of it are no more than it is.
LEMMA ShareFacts ==
    ASSUME NEW v \in AnySettings, Rules!Valid(v), NEW n \in {"upload", "download"}
    PROVE  LET share == Rules!Share(v, n)  slots == v.num["parallel"] IN
           /\ v.num[n] > 0 <=> Rules!Kbit(share) > 0
           /\ slots * share <= v.num[n] * 1024
           /\ slots * Rules!Kbit(share) * 125 <= v.num[n] * 1024
<1> DEFINE limit == v.num[n]
           slots == v.num["parallel"]
           share == Rules!Share(v, n)
<1>1. limit \in Int /\ 0 <= limit /\ limit <= 1048576 /\ slots \in 1..8
  BY SMT DEF AnySettings, Rules!Valid, Rules!Within, Rules!Low, Rules!High, Rules!Numbers
<1>2. share = IF limit <= 0 THEN 0 ELSE (limit * 1024) \div slots
  BY <1>1, SMT DEF Rules!Share, Rules!Within, Rules!Low, Rules!High
<1>3. CASE limit = 0
  <2>1. share = 0 /\ Rules!Kbit(share) = 0
    BY <1>2, <1>3, SMT DEF Rules!Kbit
  <2> QED
    BY <1>1, <1>3, <2>1, SMT
<1>4. CASE limit > 0
  <2> HIDE DEF limit, slots, share
  <2>1. share \in Int /\ share >= 128 /\ slots * share <= limit * 1024
    BY <1>1, <1>2, <1>4, SMT
  <2>2. Rules!Kbit(share) = share \div 125
    <3> DEFINE k == share \div 125
    <3>1. k \in Int /\ 1 <= k
      BY <2>1, SMT
    <3>2. Rules!Max({1, k}) = k
      <4> HIDE DEF k
      <4> QED
        BY <3>1, SMT DEF Rules!Max
    <3> QED
      BY <2>1, <3>2, SMT DEF Rules!Kbit
  <2>3. (share \div 125) \in Int /\ share \div 125 >= 1 /\ (share \div 125) * 125 <= share
    BY <2>1, SMT
  <2>4. slots * ((share \div 125) * 125) <= slots * share
    BY <1>1, <2>1, <2>3, SMT
  <2>5. slots * (share \div 125) * 125 = slots * ((share \div 125) * 125)
    BY <1>1, <2>3, SMT
  <2>6. /\ limit > 0 <=> Rules!Kbit(share) > 0
        /\ slots * share <= limit * 1024
        /\ slots * Rules!Kbit(share) * 125 <= limit * 1024
    BY <1>1, <1>4, <2>1, <2>2, <2>3, <2>4, <2>5, SMT
  <2> QED
    BY <2>6, SMT DEF limit, slots, share
<1> QED
  BY <1>1, <1>3, <1>4, SMT

(***************************************************************************)
(* Settings: what an editor shows                                          *)
(***************************************************************************)

\* What the user chooses, the flags derived from the policy left out.
Choices == {"language", "appearance", "policy", "confirm"}

\* Settings an editor can show: every choice is one of its list.
Shown(v) ==
    v \in AnySettings /\ v.language \in Rules!Languages /\ v.appearance \in Rules!Appearances
    /\ v.policy \in Rules!Policies

\* Two settings differ at most in what is given.
DifferIn(v, w, what) ==
    /\ \A n \in Rules!Numbers \ what : w.num[n] = v.num[n]
    /\ Agree(w, v, Choices \ what)

\* All numbers are in range.
AllWithin(v) == \A n \in Rules!Numbers : Rules!Within(n, v.num[n])

\* The inductive invariant of an editor: the store is canonical, and an open editor
\* differs from it in what the user touched; the Linux panel holds numbers in range only.
EditorOk(stored, draft, editor, touched) ==
    /\ CanonicalSettings(stored) /\ draft \in AnySettings
         /\ editor \in {"none", "linux", "windows"}
    /\ editor # "none" => Shown(draft) /\ DifferIn(stored, draft, touched)
    /\ editor = "linux" => AllWithin(draft)

\* The invariant of the editors of the numbers.
RulesInv == EditorOk(rulesStored, rulesDraft, rulesEditor, rulesTouched)
\* The invariant of the editors of the other options.
PolicyInv == EditorOk(policyStored, policyDraft, policyEditor, policyTouched)

\* What an editor shows is valid when its numbers are in range.
LEMMA ShownWithinIsValid ==
    ASSUME NEW v, Shown(v), AllWithin(v) PROVE Rules!Valid(v)
  BY DEF Shown, AllWithin, Rules!Valid

\* An editor can show what is stored.
LEMMA CanonicalIsShown ==
    ASSUME NEW v, CanonicalSettings(v) PROVE Shown(v) /\ AllWithin(v)
  BY DEF Shown, AllWithin, Rules!Valid, CanonicalSettings

\* An edit adds what it changes to what was touched.
LEMMA EditKeepsEditor ==
    ASSUME NEW stored, NEW draft, NEW editor, NEW touched, NEW next, NEW what,
           EditorOk(stored, draft, editor, touched), editor # "none",
           Shown(next), DifferIn(draft, next, what), editor = "linux" => AllWithin(next)
    PROVE  EditorOk(stored, next, editor, touched \cup what)
  BY DEF EditorOk, Shown, DifferIn, Agree

\* Choosing another value changes that option only.
LEMMA EditChoice ==
    ASSUME NEW v, Shown(v)
    PROVE  /\ \A x \in Rules!Languages : LET w == [v EXCEPT !.language = x] IN
                 Shown(w) /\ DifferIn(v, w, {"language"}) /\ w.num = v.num
           /\ \A x \in Rules!Appearances : LET w == [v EXCEPT !.appearance = x] IN
                 Shown(w) /\ DifferIn(v, w, {"appearance"}) /\ w.num = v.num
           /\ \A x \in Rules!Policies : LET w == [v EXCEPT !.policy = x] IN
                 Shown(w) /\ DifferIn(v, w, {"policy"}) /\ w.num = v.num
           /\ LET w == [v EXCEPT !.confirm = ~@] IN
                 Shown(w) /\ DifferIn(v, w, {"confirm"}) /\ w.num = v.num
<1>1. v \in AnySettings
  BY DEF Shown
<1>2. Rules!Languages \cup Rules!Appearances \cup Rules!Policies \subseteq Texts
  BY DEF Rules!Languages, Rules!Appearances, Rules!Policies, Texts
<1>3. ASSUME NEW x \in Rules!Languages
      PROVE  LET w == [v EXCEPT !.language = x] IN Shown(w) /\ DifferIn(v, w, {"language"})
             /\ w.num = v.num
  <2>1. PICK w : w = [v EXCEPT !.language = x]
    OBVIOUS
  <2>2. w \in AnySettings /\ w.language = x /\ Agree(w, v, Fields \ {"language"})
    BY <1>1, <1>2, <2>1, OneField, Zenon
  <2>3. Shown(w) /\ DifferIn(v, w, {"language"}) /\ w.num = v.num
    BY <2>2 DEF Shown, DifferIn, Agree, Fields, Choices
  <2> QED
    BY <2>1, <2>3, Zenon
<1>4. ASSUME NEW x \in Rules!Appearances
      PROVE  LET w == [v EXCEPT !.appearance = x] IN Shown(w) /\ DifferIn(v, w, {"appearance"})
             /\ w.num = v.num
  <2>1. PICK w : w = [v EXCEPT !.appearance = x]
    OBVIOUS
  <2>2. w \in AnySettings /\ w.appearance = x /\ Agree(w, v, Fields \ {"appearance"})
    BY <1>1, <1>2, <2>1, OneField, Zenon
  <2>3. Shown(w) /\ DifferIn(v, w, {"appearance"}) /\ w.num = v.num
    BY <2>2 DEF Shown, DifferIn, Agree, Fields, Choices
  <2> QED
    BY <2>1, <2>3, Zenon
<1>5. ASSUME NEW x \in Rules!Policies
      PROVE  LET w == [v EXCEPT !.policy = x] IN Shown(w) /\ DifferIn(v, w, {"policy"})
             /\ w.num = v.num
  <2>1. PICK w : w = [v EXCEPT !.policy = x]
    OBVIOUS
  <2>2. w \in AnySettings /\ w.policy = x /\ Agree(w, v, Fields \ {"policy"})
    BY <1>1, <1>2, <2>1, OneField, Zenon
  <2>3. Shown(w) /\ DifferIn(v, w, {"policy"}) /\ w.num = v.num
    BY <2>2 DEF Shown, DifferIn, Agree, Fields, Choices
  <2> QED
    BY <2>1, <2>3, Zenon
<1>6. LET w == [v EXCEPT !.confirm = ~@] IN Shown(w) /\ DifferIn(v, w, {"confirm"})
        /\ w.num = v.num
  <2>1. PICK w : w = [v EXCEPT !.confirm = ~@]
    OBVIOUS
  <2>2. (~v.confirm) \in BOOLEAN
    OBVIOUS
  <2>3. w \in AnySettings /\ Agree(w, v, Fields \ {"confirm"})
    BY <1>1, <2>1, <2>2, OneField, Zenon
  <2>4. Shown(w) /\ DifferIn(v, w, {"confirm"}) /\ w.num = v.num
    BY <2>3 DEF Shown, DifferIn, Agree, Fields, Choices
  <2> QED
    BY <2>1, <2>4, Zenon
<1> QED
  BY <1>3, <1>4, <1>5, <1>6, Zenon

\* Entering a number changes that number only.
LEMMA EditNumber ==
    ASSUME NEW v, Shown(v), NEW n \in Rules!Numbers, NEW x \in Int
    PROVE  LET w == [v EXCEPT !.num[n] = x] IN
           /\ Shown(w) /\ DifferIn(v, w, {n}) /\ w.num[n] = x
           /\ AllWithin(v) /\ Rules!Within(n, x) => AllWithin(w)
<1>1. PICK num : num = [v.num EXCEPT ![n] = x]
  OBVIOUS
<1>2. PICK w : w = [v EXCEPT !.num = num]
  OBVIOUS
<1>3. w = [v EXCEPT !.num[n] = x]
  BY <1>1, <1>2, Zenon
<1>4. /\ num \in [Rules!Numbers -> Int] /\ num[n] = x
      /\ \A m \in Rules!Numbers \ {n} : num[m] = v.num[m]
  BY <1>1 DEF Shown, AnySettings
<1>5. w \in AnySettings /\ w.num = num /\ Agree(w, v, Fields \ {"num"})
  BY <1>2, <1>4, OneField, Zenon DEF Shown
<1>6. Shown(w) /\ DifferIn(v, w, {n}) /\ w.num[n] = x
  BY <1>4, <1>5 DEF Shown, DifferIn, Agree, Fields, Choices
<1>7. AllWithin(v) /\ Rules!Within(n, x) => AllWithin(w)
  BY <1>4, <1>5 DEF AllWithin
<1> QED
  BY <1>3, <1>6, <1>7, Zenon

\* Resetting shows the defaults, on Linux with the language that was chosen.
LEMMA EditDefaults ==
    ASSUME NEW v, Shown(v)
    PROVE  /\ Shown(Rules!DefaultSettings)
              /\ DifferIn(v, Rules!DefaultSettings, Rules!Options \cup Rules!Numbers)
           /\ LET w == Rules!Reset(v) IN
              /\ Shown(w) /\ AllWithin(w)
              /\ DifferIn(v, w, (Rules!Options \cup Rules!Numbers) \ {"language"})
<1>1. Shown(Rules!DefaultSettings) /\ AllWithin(Rules!DefaultSettings)
  BY DefaultIsCanonical, CanonicalIsShown
<1>2. DifferIn(v, Rules!DefaultSettings, Rules!Options \cup Rules!Numbers)
  BY DEF DifferIn, Agree, Choices, Rules!Options
<1>3. PICK w : w = Rules!Reset(v)
  OBVIOUS
<1>4. v.language \in Texts /\ v.language \in Rules!Languages
  BY DEF Shown, AnySettings
<1>5. w \in AnySettings /\ w.language = v.language
        /\ Agree(w, Rules!DefaultSettings, Fields \ {"language"})
  <2>1. Rules!DefaultSettings \in AnySettings
          /\ w = [Rules!DefaultSettings EXCEPT !.language = v.language]
    BY <1>1, <1>3, Zenon DEF Rules!Reset, Shown
  <2> QED
    BY <1>4, <2>1, OneField, Zenon
<1>6. Shown(w) /\ AllWithin(w)
  BY <1>1, <1>4, <1>5 DEF Shown, AllWithin, Agree, Fields
<1>7. DifferIn(v, w, (Rules!Options \cup Rules!Numbers) \ {"language"})
  <2>1. "language" \notin Rules!Numbers /\ Choices = Rules!Options
    BY DEF Rules!Numbers, Choices, Rules!Options
  <2> QED
    BY <1>5, <2>1 DEF DifferIn, Agree, Choices, Rules!Options
<1> QED
  BY <1>1, <1>2, <1>3, <1>6, <1>7, Zenon

\* What is stored of a valid draft is the draft.
LEMMA StoredIsDraft ==
    ASSUME NEW stored, NEW draft, NEW editor, NEW touched,
           EditorOk(stored, draft, editor, touched),
           editor # "none", AllWithin(draft), NEW sent, sent \in AnySettings,
             SameChoices(sent, draft)
    PROVE  LET next == Rules!SetResult(sent, stored) IN
           /\ Rules!Valid(Rules!MigrateConflict(Rules!Filled(sent), FALSE))
           /\ CanonicalSettings(next) /\ SameChoices(next, draft)
                /\ DifferIn(stored, next, touched)
<1>1. Rules!Valid(sent)
  BY ShownWithinIsValid DEF EditorOk, SameChoices, Rules!Valid
<1>2. /\ CanonicalSettings(Rules!SetResult(sent, stored))
           /\ SameChoices(Rules!SetResult(sent, stored), sent)
      /\ Rules!Valid(Rules!MigrateConflict(Rules!Filled(sent), FALSE))
  BY <1>1, SetResultFacts, Zenon DEF EditorOk
<1>3. SameChoices(Rules!SetResult(sent, stored), draft)
  BY <1>2 DEF SameChoices
<1>4. DifferIn(stored, Rules!SetResult(sent, stored), touched)
  BY <1>3 DEF SameChoices, EditorOk, DifferIn, Agree, Choices
<1> QED
  BY <1>2, <1>3, <1>4, Zenon

\* The numbers of the two panels.
LEMMA ClampFacts ==
    ASSUME NEW n \in Rules!Numbers, NEW x \in Int
    PROVE  Rules!Clamp(x, n) \in Int /\ Rules!Within(n, Rules!Clamp(x, n))
  BY SMT DEF Rules!Clamp, Rules!Within, Rules!Low, Rules!High, Rules!Numbers

(***************************************************************************)
(* Settings: the Linux panel, the Windows dialog and the terminal          *)
(***************************************************************************)

\* Both instances of the settings have the same rules.
LEMMA PolicyIsRules ==
    /\ Policy!Languages = Rules!Languages /\ Policy!Appearances = Rules!Appearances
    /\ Policy!Policies = Rules!Policies /\ Policy!Numbers = Rules!Numbers
         /\ Policy!Options = Rules!Options
    /\ Policy!DefaultSettings = Rules!DefaultSettings /\ Policy!Low = Rules!Low
         /\ Policy!High = Rules!High
    /\ \A n, x : Policy!Within(n, x) <=> Rules!Within(n, x)
    /\ \A v : Policy!Valid(v) <=> Rules!Valid(v)
    /\ \A v, p : Policy!MigrateConflict(v, p) = Rules!MigrateConflict(v, p)
    /\ \A v : Policy!Normalize(v) = Rules!Normalize(v)
    /\ \A v : Policy!Filled(v) = Rules!Filled(v)
    /\ \A v, old : Policy!SetResult(v, old) = Rules!SetResult(v, old)
    /\ \A v : Policy!Reset(v) = Rules!Reset(v)
    /\ \A v, i : Policy!ApplyConflict(v, i) = Rules!ApplyConflict(v, i)
    /\ \A v : Policy!ConflictIndex(v) = Rules!ConflictIndex(v)
    /\ \A x, up : Policy!StepLimit(x, up) = Rules!StepLimit(x, up)
    /\ \A x, n : Policy!Clamp(x, n) = Rules!Clamp(x, n)
    /\ \A l : Policy!NormalizeLanguage(l) = Rules!NormalizeLanguage(l)
    /\ \A v : Policy!PromptSettings(v) = Rules!PromptSettings(v)
<1>1. /\ Policy!Languages = Rules!Languages /\ Policy!Appearances = Rules!Appearances
      /\ Policy!Policies = Rules!Policies /\ Policy!Numbers = Rules!Numbers
           /\ Policy!Options = Rules!Options
  BY SMT DEF Policy!Languages, Rules!Languages, Policy!Appearances, Rules!Appearances,
     Policy!Policies, Rules!Policies,
     Policy!Numbers, Rules!Numbers, Policy!Options, Rules!Options
<1>2. Policy!DefaultSettings = Rules!DefaultSettings
  BY SMT DEF Policy!DefaultSettings, Rules!DefaultSettings
<1>3. Policy!Low = Rules!Low /\ Policy!High = Rules!High
  BY SMT DEF Policy!Low, Rules!Low, Policy!High, Rules!High
<1>4. \A n, x : Policy!Within(n, x) <=> Rules!Within(n, x)
  BY <1>3, Zenon DEF Policy!Within, Rules!Within
<1>5. \A v : Policy!Valid(v) <=> Rules!Valid(v)
  BY <1>1, <1>4, Zenon DEF Policy!Valid, Rules!Valid
<1>6. \A v, p : Policy!MigrateConflict(v, p) = Rules!MigrateConflict(v, p)
  BY Zenon DEF Policy!MigrateConflict, Rules!MigrateConflict, Policy!Policies, Rules!Policies
<1>7. \A num : Policy!InRange(num) = Rules!InRange(num)
  BY <1>1, <1>2, <1>4, SMT DEF Policy!InRange, Rules!InRange
<1>8. \A l : Policy!NormalizeLanguage(l) = Rules!NormalizeLanguage(l)
  BY <1>1, Zenon DEF Policy!NormalizeLanguage, Rules!NormalizeLanguage
<1>9. \A v : Policy!Normalize(v) = Rules!Normalize(v)
  BY <1>1, <1>6, <1>7, <1>8, Zenon DEF Policy!Normalize, Rules!Normalize
<1>10. \A v : Policy!Filled(v) = Rules!Filled(v)
  BY <1>1, <1>2, Zenon DEF Policy!Filled, Rules!Filled
<1>11. \A v, old : Policy!SetResult(v, old) = Rules!SetResult(v, old)
  BY <1>5, <1>6, <1>10, Zenon DEF Policy!SetResult, Rules!SetResult
<1>12. \A v : Policy!Reset(v) = Rules!Reset(v)
  BY <1>2, Zenon DEF Policy!Reset, Rules!Reset
<1>13. \A v, i : Policy!ApplyConflict(v, i) = Rules!ApplyConflict(v, i)
  BY Zenon DEF Policy!ApplyConflict, Rules!ApplyConflict
<1>14. \A v : Policy!ConflictIndex(v) = Rules!ConflictIndex(v)
  BY Zenon DEF Policy!ConflictIndex, Rules!ConflictIndex
<1>15. Policy!Presets = Rules!Presets
  BY SMT DEF Policy!Presets, Rules!Presets
<1>16. \A S : Policy!Min(S) = Rules!Min(S) /\ Policy!Max(S) = Rules!Max(S)
  BY Zenon DEF Policy!Min, Rules!Min, Policy!Max, Rules!Max
<1>17. \A x, up : Policy!StepLimit(x, up) = Rules!StepLimit(x, up)
  BY <1>3, <1>15, <1>16, Zenon DEF Policy!StepLimit, Rules!StepLimit
<1>18. \A x, n : Policy!Clamp(x, n) = Rules!Clamp(x, n)
  BY <1>3, Zenon DEF Policy!Clamp, Rules!Clamp
<1>19. \A v : Policy!PromptSettings(v) = Rules!PromptSettings(v)
  BY <1>7, Zenon DEF Policy!PromptSettings, Rules!PromptSettings
<1> QED
  BY <1>1, <1>2, <1>3, <1>4, <1>5, <1>6, <1>8, <1>9, <1>10, <1>11, <1>12, <1>13, <1>14, <1>17,
     <1>18, <1>19, Zenon

\* An editor opens with what is stored.
LEMMA OpenFacts ==
    ASSUME NEW v, CanonicalSettings(v)
    PROVE  /\ LET w == [v EXCEPT !.language = Rules!NormalizeLanguage(@),
                                 !.appearance = IF @ \in Rules!Appearances THEN @ ELSE "dark"] IN
              Shown(w) /\ AllWithin(w) /\ DifferIn(v, w, {})
           /\ LET w == Rules!PromptSettings(v) IN Shown(w) /\ AllWithin(w) /\ DifferIn(v, w, {})
<1>1. /\ v \in AnySettings /\ v.language \in Rules!Languages /\ v.appearance \in Rules!Appearances
      /\ v.policy \in Rules!Policies /\ AllWithin(v) /\ v.num \in [Rules!Numbers -> Int]
      /\ v.language \in Texts /\ v.appearance \in Texts
  BY DEF CanonicalSettings, Rules!Valid, AnySettings, AllWithin
<1>2. Rules!NormalizeLanguage(v.language) = v.language
  BY <1>1 DEF Rules!NormalizeLanguage
<1>3. (IF v.appearance \in Rules!Appearances THEN v.appearance ELSE "dark") = v.appearance
  BY <1>1, Zenon
<1>4. v.appearance # ""
  BY <1>1 DEF Rules!Appearances
<1>5. Rules!InRange(v.num) = v.num
  BY <1>1, InRangeFacts DEF AllWithin
<1>6. PICK a : a = [v EXCEPT !.language = v.language]
  OBVIOUS
<1>7. PICK b : b = [a EXCEPT !.appearance = v.appearance]
  OBVIOUS
<1>8. a \in AnySettings /\ a.language = v.language /\ Agree(a, v, Fields \ {"language"})
  BY <1>1, <1>6, OneField, Zenon
<1>9. b \in AnySettings /\ b.appearance = v.appearance /\ Agree(b, a, Fields \ {"appearance"})
  BY <1>1, <1>7, <1>8, OneField, Zenon
<1>10. Shown(b) /\ AllWithin(b) /\ DifferIn(v, b, {})
  BY <1>1, <1>8, <1>9 DEF Shown, AllWithin, DifferIn, Agree, Fields, Choices
<1>11. b = [v EXCEPT !.language = Rules!NormalizeLanguage(@),
                     !.appearance = IF @ \in Rules!Appearances THEN @ ELSE "dark"]
  <2>1. PICK x : x = Rules!NormalizeLanguage(v.language)
    OBVIOUS
  <2>2. PICK y : y = IF v.appearance \in Rules!Appearances THEN v.appearance ELSE "dark"
    OBVIOUS
  <2>3. x = v.language /\ y = v.appearance
    BY <1>2, <1>3, <2>1, <2>2, Zenon
  <2>4. b = [v EXCEPT !.language = x, !.appearance = y]
    BY <1>6, <1>7, <2>3, Zenon
  <2> QED
    BY <2>1, <2>2, <2>4, Zenon
<1>12. PICK c : c = [v EXCEPT !.num = v.num]
  OBVIOUS
<1>13. PICK d : d = [c EXCEPT !.appearance = v.appearance]
  OBVIOUS
<1>14. c \in AnySettings /\ c.num = v.num /\ Agree(c, v, Fields \ {"num"})
  BY <1>1, <1>12, OneField, Zenon
<1>15. d \in AnySettings /\ d.appearance = v.appearance /\ Agree(d, c, Fields \ {"appearance"})
  BY <1>1, <1>13, <1>14, OneField, Zenon
<1>16. Shown(d) /\ AllWithin(d) /\ DifferIn(v, d, {})
  BY <1>1, <1>14, <1>15 DEF Shown, AllWithin, DifferIn, Agree, Fields, Choices
<1>17. d = Rules!PromptSettings(v)
  <2>1. PICK x : x = Rules!InRange(v.num)
    OBVIOUS
  <2>2. PICK y : y = IF v.appearance = "" THEN "dark" ELSE v.appearance
    OBVIOUS
  <2>3. x = v.num /\ y = v.appearance
    BY <1>4, <1>5, <2>1, <2>2, Zenon
  <2>4. d = [v EXCEPT !.num = x, !.appearance = y]
    BY <1>12, <1>13, <2>3, Zenon
  <2> QED
    BY <2>1, <2>2, <2>4, Zenon DEF Rules!PromptSettings
<1> QED
  BY <1>10, <1>11, <1>16, <1>17, Zenon

\* What the terminal sends to the store.
LEMMA TerminalSends ==
    ASSUME NEW v, CanonicalSettings(v)
    PROVE  /\ \A n \in Rules!Numbers, x \in Int : [v EXCEPT !.num[n] = x] \in AnySettings
           /\ \A p \in Rules!Policies \cup {"", "other"} : [v EXCEPT !.policy = p] \in AnySettings
           /\ \A b \in BOOLEAN : [v EXCEPT !.confirm = b] \in AnySettings
           /\ \A l \in Rules!Languages : [v EXCEPT !.language = l] \in AnySettings
<1>1. v \in AnySettings /\ Shown(v)
  BY CanonicalIsShown DEF Shown
<1>2. Rules!Policies \cup {"", "other"} \cup Rules!Languages \subseteq Texts
  BY DEF Rules!Languages, Rules!Policies, Texts
<1>3. \A n \in Rules!Numbers, x \in Int : [v EXCEPT !.num[n] = x] \in AnySettings
  BY <1>1, EditNumber, Zenon DEF Shown
<1> QED
  BY <1>1, <1>2, <1>3, OneField, Zenon

-----------------------------------------------------------------------------
\* Every file the settings may have been in has their shape.
LEMMA RulesFilesAreSettings == Rules!Files \subseteq AnySettings
<1>1. \A what, all : (\E x : x \in all) => Rules!Varies(what, all) \subseteq all
  BY Zenon DEF Rules!Varies
<1> SUFFICES ASSUME NEW f \in Rules!Files PROVE f \in AnySettings
  OBVIOUS
<1> DEFINE languages == Rules!Varies("language", {"", "hr", "xx"})
           policies == Rules!Varies("policy", Rules!Policies \cup {"", "other"})
           flags == Rules!Varies("policy", BOOLEAN)
           damaged == UNION {{[Rules!DefaultSettings.num EXCEPT ![n] = x] : x \in {-1, 0, 1, 8,
             9, 61}} :
                               n \in Rules!Numbers \cap PanelChoices}
           nums == {Rules!DefaultSettings.num} \cup damaged
<1>2. f \in [language : languages, appearance : {"", "grey"}, policy : policies, skip : flags,
        backup : flags,
             confirm : {TRUE}, num : nums]
  BY Zenon DEF Rules!Files
<1>3. languages \subseteq Texts
  <2>1. languages \subseteq {"", "hr", "xx"}
    BY <1>1, Zenon
  <2>2. {"", "hr", "xx"} \subseteq Texts
    BY DEF Texts
  <2> QED
    BY <2>1, <2>2, Zenon
<1>4. policies \subseteq Texts
  <2>1. policies \subseteq Rules!Policies \cup {"", "other"}
    BY <1>1, Zenon
  <2>2. Rules!Policies \cup {"", "other"} \subseteq Texts
    BY DEF Texts, Rules!Policies
  <2> QED
    BY <2>1, <2>2, Zenon
<1>5. flags \subseteq BOOLEAN
  BY <1>1, Zenon
<1>6. nums \subseteq [Rules!Numbers -> Int]
  <2>1. Rules!DefaultSettings.num \in [Rules!Numbers -> Int]
    BY SMT DEF Rules!DefaultSettings, Rules!Numbers
  <2>2. PICK d : d = Rules!DefaultSettings.num
    OBVIOUS
  <2>a. d \in [Rules!Numbers -> Int]
    BY <2>1, <2>2, Zenon
  <2>3. \A n \in Rules!Numbers, x \in Int : [d EXCEPT ![n] = x] \in [Rules!Numbers -> Int]
    <3> SUFFICES ASSUME NEW n \in Rules!Numbers,
                        NEW x \in Int PROVE [d EXCEPT ![n] = x] \in [Rules!Numbers -> Int]
      OBVIOUS
    <3> QED
      BY <2>a
  <2>b. Rules!Numbers = Rules!Numbers
    OBVIOUS
  <2>4. {-1, 0, 1, 8, 9, 61} \subseteq Int
    BY SMT
  <2>5. damaged \subseteq [Rules!Numbers -> Int]
    <3> SUFFICES ASSUME NEW g \in damaged PROVE g \in [Rules!Numbers -> Int]
      OBVIOUS
    <3>1. PICK n \in Rules!Numbers : g \in {[Rules!DefaultSettings.num EXCEPT ![n] = x] :
            x \in {-1, 0, 1, 8, 9, 61}}
      OBVIOUS
    <3>2. PICK x \in {-1, 0, 1, 8, 9, 61} : g = [Rules!DefaultSettings.num EXCEPT ![n] = x]
      BY <3>1
    <3>3. g = [d EXCEPT ![n] = x] /\ n \in Rules!Numbers /\ x \in Int
      BY <2>2, <2>4, <2>b, <3>2, Zenon
    <3> QED
      BY <2>3, <3>3, Zenon
  <2> QED
    BY <2>1, <2>5, Zenon
<1>7. {"", "grey"} \subseteq Texts /\ {TRUE} \subseteq BOOLEAN
  BY DEF Texts
<1> HIDE DEF languages, policies, flags, damaged, nums
<1>8. /\ f.language \in languages /\ f.appearance \in {"", "grey"} /\ f.policy \in policies
           /\ f.num \in nums
      /\ f.skip \in flags /\ f.backup \in flags /\ f.confirm \in {TRUE}
      /\ f = [language |-> f.language, appearance |-> f.appearance, policy |-> f.policy,
           skip |-> f.skip,
               backup |-> f.backup, confirm |-> f.confirm, num |-> f.num]
  BY <1>2
<1>9. /\ f.language \in Texts /\ f.appearance \in Texts /\ f.policy \in Texts
      /\ f.num \in [Rules!Numbers -> Int]
      /\ f.skip \in BOOLEAN /\ f.backup \in BOOLEAN /\ f.confirm \in BOOLEAN
  BY <1>3, <1>4, <1>5, <1>6, <1>7, <1>8, Zenon
<1> QED
  BY <1>8, <1>9 DEF AnySettings

\* What was read is canonical at the start.
LEMMA RulesStarts == ASSUME Rules!Init PROVE RulesInv
<1>1. PICK f \in Rules!Files : rulesStored = Rules!Normalize(f) /\ rulesDraft = rulesStored
  BY DEF Rules!Init
<1>2. f \in AnySettings
  BY RulesFilesAreSettings
<1>3. CanonicalSettings(rulesStored)
  BY <1>1, <1>2, NormalizeIsCanonical, Zenon
<1> QED
  BY <1>1, <1>3 DEF Rules!Init, RulesInv, EditorOk, CanonicalSettings

\* An editor opens with what is stored.
LEMMA RulesOpens ==
    ASSUME RulesInv, Rules!OpenLinux \/ Rules!OpenWindows
    PROVE  RulesInv' /\ Rules!OnlyTouchedStep /\ Rules!AcceptedIsStoredStep
<1>1. CanonicalSettings(rulesStored) /\ rulesStored' = rulesStored /\ rulesTouched' = {}
        /\ rulesEditor = "none" /\ rulesEditor' \in {"linux", "windows"}
  BY DEF RulesInv, EditorOk, Rules!OpenLinux, Rules!OpenWindows
<1>2. Shown(rulesDraft') /\ AllWithin(rulesDraft') /\ DifferIn(rulesStored, rulesDraft', {})
  BY <1>1, OpenFacts, Zenon DEF Rules!OpenLinux, Rules!OpenWindows
<1>3. rulesDraft' \in AnySettings /\ DifferIn(rulesStored', rulesDraft', rulesTouched')
  BY <1>1, <1>2 DEF Shown
<1> QED
  BY <1>1, <1>2, <1>3 DEF RulesInv, EditorOk, Rules!OnlyTouchedStep, Rules!AcceptedIsStoredStep

\* A click on a number keeps it in range.
LEMMA RulesStepsInRange ==
    ASSUME RulesInv, rulesEditor = "linux", NEW n \in Rules!Numbers, NEW up \in BOOLEAN
    PROVE  Rules!StepNumber(n, up) \in Int /\ Rules!Within(n, Rules!StepNumber(n, up))
<1>1. rulesDraft.num \in [Rules!Numbers -> Int] /\ Rules!Within(n, rulesDraft.num[n])
        /\ rulesDraft.num[n] \in Int
  BY DEF RulesInv, EditorOk, AnySettings, AllWithin
<1>2. CASE n \in {"upload", "download"}
  <2>1. 0 <= rulesDraft.num[n] /\ rulesDraft.num[n] <= Fastest
    BY <1>1, <1>2, LadderFacts, SMT DEF Rules!Within, Rules!Low, Rules!High
  <2>2. Rules!StepNumber(n, up) = Up(rulesDraft.num[n])
          \/ Rules!StepNumber(n, up) = Down(rulesDraft.num[n])
    BY <1>2, Zenon DEF Rules!StepNumber, Up, Down
  <2>3. Rules!StepNumber(n, up) \in Int /\ 0 <= Rules!StepNumber(n, up)
          /\ Rules!StepNumber(n, up) <= Fastest
    BY <1>1, <2>1, <2>2, StepLimitInRange, SMT
  <2> QED
    BY <1>2, <2>3, LadderFacts, SMT DEF Rules!Within, Rules!Low, Rules!High
<1>3. CASE n \notin {"upload", "download"}
  <2>1. \E by \in {5, 1, -5, -1} : Rules!StepNumber(n, up) = Rules!Step(rulesDraft.num[n], n, by)
    BY <1>3, Zenon DEF Rules!StepNumber
  <2>2. \E x \in Int : Rules!StepNumber(n, up) = Rules!Clamp(x, n)
    BY <1>1, <2>1, SMT DEF Rules!Step
  <2>3. \E x \in Int : Rules!StepNumber(n, up) = Rules!Clamp(x, n)
    BY <2>2, Zenon
  <2> QED
    BY <2>3, ClampFacts, Zenon
<1> QED
  BY <1>2, <1>3

\* An edit in either editor.
LEMMA RulesEditKeeps ==
    ASSUME RulesInv, rulesEditor # "none", NEW next, NEW what, Rules!Edit(next, what),
           Shown(next), DifferIn(rulesDraft, next, what), rulesEditor = "linux" => AllWithin(next)
    PROVE  RulesInv' /\ Rules!OnlyTouchedStep /\ Rules!AcceptedIsStoredStep
<1>1. rulesDraft' = next /\ rulesTouched' = rulesTouched \cup what /\ rulesStored' = rulesStored
        /\ rulesEditor' = rulesEditor
  BY DEF Rules!Edit
<1>2. EditorOk(rulesStored, next, rulesEditor, rulesTouched \cup what)
  BY EditKeepsEditor DEF RulesInv
<1> QED
  BY <1>1, <1>2 DEF RulesInv, Rules!OnlyTouchedStep, Rules!AcceptedIsStoredStep

\* Every click in the Linux panel keeps the invariant.
LEMMA RulesLinuxClick ==
    ASSUME RulesInv, Rules!LinuxClick
    PROVE  RulesInv' /\ Rules!OnlyTouchedStep /\ Rules!AcceptedIsStoredStep
<1>1. rulesEditor = "linux" /\ Shown(rulesDraft) /\ AllWithin(rulesDraft)
  BY DEF RulesInv, EditorOk, Rules!LinuxClick
<1>2. \A w : Shown(w) /\ w.num = rulesDraft.num => AllWithin(w)
  BY <1>1 DEF AllWithin
<1>3. CASE \E l \in Rules!Languages : Rules!Edit([rulesDraft EXCEPT !.language = l], {"language"})
  <2>1. PICK l \in Rules!Languages : Rules!Edit([rulesDraft EXCEPT !.language = l], {"language"})
    BY <1>3
  <2>2. PICK w : w = [rulesDraft EXCEPT !.language = l]
    OBVIOUS
  <2>3. Shown(w) /\ DifferIn(rulesDraft, w, {"language"}) /\ AllWithin(w)
          /\ Rules!Edit(w, {"language"})
    BY <1>1, <1>2, <2>1, <2>2, EditChoice, Zenon
  <2> QED
    BY <1>1, <2>3, RulesEditKeeps, "linux" # "none", Zenon
<1>4. CASE Rules!Edit([rulesDraft EXCEPT !.appearance = IF @ = "dark" THEN "light" ELSE "dark"],
           {"appearance"})
  <2>1. PICK a : a = IF rulesDraft.appearance = "dark" THEN "light" ELSE "dark"
    OBVIOUS
  <2>2. a \in Rules!Appearances
    BY <2>1 DEF Rules!Appearances
  <2>3. PICK w : w = [rulesDraft EXCEPT !.appearance = a]
    OBVIOUS
  <2>4. Rules!Edit(w, {"appearance"})
    BY <1>4, <2>1, <2>3, Zenon
  <2>5. Shown(w) /\ DifferIn(rulesDraft, w, {"appearance"}) /\ AllWithin(w)
    BY <1>1, <1>2, <2>2, <2>3, EditChoice, Zenon
  <2> QED
    BY <1>1, <2>4, <2>5, RulesEditKeeps, "linux" # "none", Zenon
<1>5. CASE \E n \in Rules!Numbers \cap PanelChoices, up \in BOOLEAN :
               Rules!Edit([rulesDraft EXCEPT !.num[n] = Rules!StepNumber(n, up)], {n})
  <2>1. PICK n \in Rules!Numbers,
          up \in BOOLEAN : Rules!Edit([rulesDraft EXCEPT !.num[n] = Rules!StepNumber(n, up)], {n})
    BY <1>5, Zenon
  <2>2. PICK x : x = Rules!StepNumber(n, up)
    OBVIOUS
  <2>3. x \in Int /\ Rules!Within(n, x)
    BY <1>1, <2>2, RulesStepsInRange, Zenon
  <2>4. PICK w : w = [rulesDraft EXCEPT !.num[n] = x]
    OBVIOUS
  <2>5. Rules!Edit(w, {n})
    BY <2>1, <2>2, <2>4, Zenon
  <2>6. Shown(w) /\ DifferIn(rulesDraft, w, {n}) /\ AllWithin(w)
    BY <1>1, <2>3, <2>4, EditNumber, Zenon
  <2> QED
    BY <1>1, <2>5, <2>6, RulesEditKeeps, "linux" # "none", Zenon
<1>6. CASE Rules!Edit([rulesDraft EXCEPT !.policy = Rules!NextPolicy(@)], {"policy"})
  <2>1. PICK p : p = Rules!NextPolicy(rulesDraft.policy)
    OBVIOUS
  <2>2. p \in Rules!Policies
    BY <2>1 DEF Rules!NextPolicy, Rules!Policies
  <2>3. PICK w : w = [rulesDraft EXCEPT !.policy = p]
    OBVIOUS
  <2>4. Rules!Edit(w, {"policy"})
    BY <1>6, <2>1, <2>3, Zenon
  <2>5. Shown(w) /\ DifferIn(rulesDraft, w, {"policy"}) /\ AllWithin(w)
    BY <1>1, <1>2, <2>2, <2>3, EditChoice, Zenon
  <2> QED
    BY <1>1, <2>4, <2>5, RulesEditKeeps, "linux" # "none", Zenon
<1>7. CASE Rules!Edit([rulesDraft EXCEPT !.confirm = ~@], {"confirm"})
  <2>1. PICK w : w = [rulesDraft EXCEPT !.confirm = ~@]
    OBVIOUS
  <2>2. Shown(w) /\ DifferIn(rulesDraft, w, {"confirm"}) /\ AllWithin(w)
          /\ Rules!Edit(w, {"confirm"})
    BY <1>1, <1>2, <1>7, <2>1, EditChoice, Zenon
  <2> QED
    BY <1>1, <2>2, RulesEditKeeps, "linux" # "none", Zenon
<1>8. CASE Rules!Edit(Rules!Reset(rulesDraft), (Rules!Options \cup Rules!Numbers) \ {"language"})
  <2>1. PICK w : w = Rules!Reset(rulesDraft)
    OBVIOUS
  <2>2. Rules!Edit(w, (Rules!Options \cup Rules!Numbers) \ {"language"})
    BY <1>8, <2>1, Zenon
  <2>3. Shown(w) /\ AllWithin(w)
          /\ DifferIn(rulesDraft, w, (Rules!Options \cup Rules!Numbers) \ {"language"})
    BY <1>1, <2>1, EditDefaults, Zenon
  <2> QED
    BY <1>1, <2>2, <2>3, RulesEditKeeps, "linux" # "none", Zenon
<1> QED
  BY <1>3, <1>4, <1>5, <1>6, <1>7, <1>8 DEF Rules!LinuxClick

\* Every entry in the Windows dialog keeps the invariant.
LEMMA RulesWindowsEdit ==
    ASSUME RulesInv, Rules!WindowsEdit
    PROVE  RulesInv' /\ Rules!OnlyTouchedStep /\ Rules!AcceptedIsStoredStep
<1>1. rulesEditor = "windows" /\ Shown(rulesDraft)
  BY DEF RulesInv, EditorOk, Rules!WindowsEdit
<1>2. rulesEditor # "none" /\ rulesEditor # "linux"
  BY <1>1
<1>3. CASE \E l \in Rules!Languages : Rules!Edit([rulesDraft EXCEPT !.language = l], {"language"})
  <2>1. PICK w : Shown(w) /\ DifferIn(rulesDraft, w, {"language"}) /\ Rules!Edit(w, {"language"})
    BY <1>1, <1>3, EditChoice, Zenon
  <2> QED
    BY <1>2, <2>1, RulesEditKeeps, Zenon
<1>4. CASE \E a \in Rules!Appearances : Rules!Edit([rulesDraft EXCEPT !.appearance = a],
           {"appearance"})
  <2>1. PICK w : Shown(w) /\ DifferIn(rulesDraft, w, {"appearance"})
          /\ Rules!Edit(w, {"appearance"})
    BY <1>1, <1>4, EditChoice, Zenon
  <2> QED
    BY <1>2, <2>1, RulesEditKeeps, Zenon
<1>5. CASE \E n \in Rules!Numbers \cap PanelChoices : \E x \in Rules!Typed(n) :
               Rules!Edit([rulesDraft EXCEPT !.num[n] = x], {n})
  <2>1. PICK n \in Rules!Numbers : \E x \in Rules!Typed(n) :
          Rules!Edit([rulesDraft EXCEPT !.num[n] = x], {n})
    BY <1>5, Zenon
  <2>2. PICK x \in Rules!Typed(n) : Rules!Edit([rulesDraft EXCEPT !.num[n] = x], {n})
    BY <2>1
  <2>3. x \in Int
    BY SMT DEF Rules!Typed, Rules!Low, Rules!High, Rules!DefaultSettings, Rules!Numbers
  <2>4. PICK w : Shown(w) /\ DifferIn(rulesDraft, w, {n}) /\ Rules!Edit(w, {n})
    BY <1>1, <2>2, <2>3, EditNumber, Zenon
  <2> QED
    BY <1>2, <2>4, RulesEditKeeps, Zenon
<1>6. CASE \E p \in Rules!Policies : Rules!Edit([rulesDraft EXCEPT !.policy = p], {"policy"})
  <2>1. PICK w : Shown(w) /\ DifferIn(rulesDraft, w, {"policy"}) /\ Rules!Edit(w, {"policy"})
    BY <1>1, <1>6, EditChoice, Zenon
  <2> QED
    BY <1>2, <2>1, RulesEditKeeps, Zenon
<1>7. CASE Rules!Edit([rulesDraft EXCEPT !.confirm = ~@], {"confirm"})
  <2>1. PICK w : Shown(w) /\ DifferIn(rulesDraft, w, {"confirm"}) /\ Rules!Edit(w, {"confirm"})
    BY <1>1, <1>7, EditChoice, Zenon
  <2> QED
    BY <1>2, <2>1, RulesEditKeeps, Zenon
<1>8. CASE Rules!Edit(Rules!DefaultSettings, Rules!Options \cup Rules!Numbers)
  <2>1. Rules!Edit(Rules!DefaultSettings, Rules!Options \cup Rules!Numbers)
    BY <1>8, Zenon
  <2> QED
    BY <1>1, <1>2, <2>1, EditDefaults, RulesEditKeeps, Zenon
<1> QED
  BY <1>3, <1>4, <1>5, <1>6, <1>7, <1>8 DEF Rules!WindowsEdit

\* Whatever is stored, the editor it comes from is closed or stays as it was.
LEMMA RulesCloses ==
    ASSUME RulesInv, Rules!Closed, CanonicalSettings(rulesStored')
    PROVE  RulesInv'
  BY DEF RulesInv, EditorOk, Rules!Closed, CanonicalSettings

\* Stored settings that differ in what was touched differ in nothing else.
LEMMA RulesTouchedOnly ==
    ASSUME DifferIn(rulesStored, rulesStored', rulesTouched) PROVE Rules!OnlyTouchedStep
  BY DEF DifferIn, Agree, Choices, Rules!OnlyTouchedStep

\* The Linux panel stores its draft.
LEMMA RulesSaves ==
    ASSUME RulesInv, Rules!SaveLinux
    PROVE  RulesInv' /\ Rules!OnlyTouchedStep /\ Rules!AcceptedIsStoredStep
<1>1. rulesEditor = "linux" /\ rulesEditor # "none" /\ AllWithin(rulesDraft)
        /\ rulesDraft \in AnySettings /\ rulesStored' = Rules!SetResult(rulesDraft, rulesStored)
  BY PolicyIsRules DEF RulesInv, EditorOk, Rules!SaveLinux
<1>2. SameChoices(rulesDraft, rulesDraft)
  BY DEF SameChoices
<1>3. /\ Rules!Valid(Rules!MigrateConflict(Rules!Filled(rulesDraft), FALSE))
      /\ CanonicalSettings(rulesStored') /\ DifferIn(rulesStored, rulesStored', rulesTouched)
  BY <1>1, <1>2, StoredIsDraft, Zenon DEF RulesInv
<1>4. Rules!Closed
  BY <1>3, Zenon DEF Rules!SaveLinux
<1> QED
  BY <1>1, <1>3, <1>4, RulesCloses, RulesTouchedOnly DEF Rules!AcceptedIsStoredStep

\* The Windows dialog stores its draft when the numbers are in range.
LEMMA RulesAccepts ==
    ASSUME RulesInv, Rules!AcceptWindows
    PROVE  RulesInv' /\ Rules!OnlyTouchedStep /\ Rules!AcceptedIsStoredStep
<1>1. /\ rulesEditor = "windows" /\ rulesEditor # "none" /\ AllWithin(rulesDraft)
           /\ rulesDraft \in AnySettings /\ Rules!Closed
      /\ rulesDraft.policy \in Rules!Policies
  BY PolicyIsRules DEF RulesInv, EditorOk, Shown, AllWithin, Rules!AcceptWindows
<1>2. PICK sent : sent = Rules!ApplyConflict(rulesDraft, Rules!ConflictIndex(rulesDraft))
  OBVIOUS
<1>3. sent \in AnySettings /\ SameChoices(sent, rulesDraft)
  BY <1>1, <1>2, ApplyConflictFacts, Zenon
<1>4. rulesStored' = Rules!SetResult(sent, rulesStored)
  BY <1>2, Zenon DEF Rules!AcceptWindows
<1>5. CanonicalSettings(rulesStored') /\ SameChoices(rulesStored', rulesDraft)
        /\ DifferIn(rulesStored, rulesStored', rulesTouched)
  BY <1>1, <1>3, <1>4, StoredIsDraft, Zenon DEF RulesInv
<1> QED
  BY <1>1, <1>5, RulesCloses, RulesTouchedOnly DEF Rules!AcceptedIsStoredStep, SameChoices

\* Closing without saving stores nothing.
LEMMA RulesCancels ==
    ASSUME RulesInv, Rules!Cancel
    PROVE  RulesInv' /\ Rules!OnlyTouchedStep /\ Rules!AcceptedIsStoredStep
<1>1. rulesStored' = rulesStored /\ Rules!Closed /\ CanonicalSettings(rulesStored')
  BY DEF Rules!Cancel, RulesInv, EditorOk
<1> QED
  BY <1>1, RulesCloses DEF Rules!OnlyTouchedStep, Rules!AcceptedIsStoredStep

\* What the terminal sends is stored in canonical form.
LEMMA RulesTerminalSets ==
    ASSUME RulesInv, Rules!TerminalSet
    PROVE  RulesInv' /\ Rules!OnlyTouchedStep /\ Rules!AcceptedIsStoredStep
<1>1. rulesEditor = "none" /\ Rules!Closed /\ CanonicalSettings(rulesStored)
  BY DEF Rules!TerminalSet, RulesInv, EditorOk
<1>2. \A n \in {"parallel", "retries", "delay", "timeout"} : n \in Rules!Numbers
        /\ Rules!Typed(n) \subseteq Int
  BY SMT DEF Rules!Typed, Rules!Low, Rules!High, Rules!DefaultSettings, Rules!Numbers
<1>3. \E v \in AnySettings : rulesStored' = Rules!SetResult(v, rulesStored)
  <2>1. CASE \E n \in PanelChoices \cap {"parallel", "retries", "delay",
             "timeout"} : \E x \in Rules!Typed(n) :
                 rulesStored' = Rules!SetResult([rulesStored EXCEPT !.num[n] = x], rulesStored)
    <3>1. PICK n \in {"parallel", "retries", "delay", "timeout"} : \E x \in Rules!Typed(n) :
              rulesStored' = Rules!SetResult([rulesStored EXCEPT !.num[n] = x], rulesStored)
      BY <2>1, Zenon
    <3>2. PICK x \in Rules!Typed(n) : rulesStored'
            = Rules!SetResult([rulesStored EXCEPT !.num[n] = x], rulesStored)
      BY <3>1
    <3>3. [rulesStored EXCEPT !.num[n] = x] \in AnySettings
      BY <1>1, <1>2, TerminalSends, Zenon
    <3> QED
      BY <3>2, <3>3, Zenon
  <2>2. CASE \E p \in Rules!Policies \cup {"",
             "other"} : rulesStored' = Rules!SetResult([rulesStored EXCEPT !.policy = p],
             rulesStored)
    BY <1>1, <2>2, TerminalSends, Zenon
  <2>3. CASE \E b \in BOOLEAN : rulesStored' = Rules!SetResult([rulesStored EXCEPT !.confirm
             = b], rulesStored)
    BY <1>1, <2>3, TerminalSends, Zenon
  <2>4. CASE \E l \in Rules!Languages : rulesStored'
             = Rules!SetResult([rulesStored EXCEPT !.language = l], rulesStored)
    BY <1>1, <2>4, TerminalSends, Zenon
  <2> QED
    BY <2>1, <2>2, <2>3, <2>4, Zenon DEF Rules!TerminalSet
<1>4. CanonicalSettings(rulesStored')
  BY <1>1, <1>3, SetResultFacts, Zenon
<1> QED
  BY <1>1, <1>4, RulesCloses DEF Rules!OnlyTouchedStep, Rules!AcceptedIsStoredStep

\* What the settings promise.
LEMMA RulesPromises == ASSUME RulesInv PROVE Rules!PanelAccepted /\ Rules!ShareWithinBudget
  /\ Rules!StepsReturn
<1>1. Rules!PanelAccepted
  <2> SUFFICES ASSUME rulesEditor = "linux"
               PROVE  Rules!SetResult(rulesDraft,
                      [rulesDraft EXCEPT !.policy = "none"]).policy # "none"
    BY DEF Rules!PanelAccepted
  <2>1. rulesEditor # "none" /\ AllWithin(rulesDraft) /\ rulesDraft \in AnySettings
          /\ Shown(rulesDraft) /\ SameChoices(rulesDraft, rulesDraft)
    BY DEF RulesInv, EditorOk, SameChoices
  <2>2. Rules!Valid(rulesDraft) /\ CanonicalSettings(rulesStored)
    BY <2>1, ShownWithinIsValid DEF RulesInv, EditorOk
  <2>3. PICK w : w = Rules!MigrateConflict(Rules!Filled(rulesDraft), FALSE)
    OBVIOUS
  <2>4. Rules!Valid(w)
    BY <2>1, <2>2, <2>3, SetResultFacts, Zenon
  <2>5. Rules!SetResult(rulesDraft, [rulesDraft EXCEPT !.policy = "none"]) = w
    BY <2>3, <2>4, Zenon DEF Rules!SetResult
  <2>6. w.policy # "none"
    BY <2>4 DEF Rules!Valid, Rules!Policies
  <2> QED
    BY <2>5, <2>6, Zenon
<1>2. Rules!ShareWithinBudget
  <2>1. rulesStored \in AnySettings /\ Rules!Valid(rulesStored)
    BY DEF RulesInv, EditorOk, CanonicalSettings
  <2> QED
    BY <2>1, ShareFacts, SMT DEF Rules!ShareWithinBudget
<1>3. Rules!StepsReturn
  <2> SUFFICES ASSUME rulesEditor = "linux"
               PROVE  /\ \A x \in Rules!Presets \ {Rules!High["upload"]} :
                            Rules!StepLimit(Rules!StepLimit(x, TRUE), FALSE) = x
                      /\ rulesDraft.num["upload"] > 0 =>
                            Rules!StepLimit(rulesDraft.num["upload"],
                              FALSE) < rulesDraft.num["upload"]
    BY Zenon DEF Rules!StepsReturn
  <2>1. \A x \in Rules!Presets \ {Rules!High["upload"]} : Rules!StepLimit(Rules!StepLimit(x,
          TRUE), FALSE) = x
    <3>1. Rules!High["upload"] = Fastest
      BY LadderFacts, SMT
    <3> QED
      BY <3>1, StepsReturnFacts, Zenon DEF Up, Down
  <2>2. PICK x : x = rulesDraft.num["upload"]
    OBVIOUS
  <2>3. x \in Int /\ x <= Fastest
    BY <2>2, LadderFacts, SMT DEF RulesInv, EditorOk, AllWithin, Rules!Within, Rules!Numbers,
       AnySettings
  <2>4. x > 0 => Down(x) < x
    BY <2>3, StepsReturnFacts, SMT
  <2> QED
    BY <2>1, <2>2, <2>4, Zenon DEF Down
<1> QED
  BY <1>1, <1>2, <1>3

-----------------------------------------------------------------------------
\* Every file the settings may have been in has their shape.
LEMMA PolicyFilesAreSettings == Policy!Files \subseteq AnySettings
<1>1. \A what, all : (\E x : x \in all) => Policy!Varies(what, all) \subseteq all
  BY Zenon DEF Policy!Varies
<1> SUFFICES ASSUME NEW f \in Policy!Files PROVE f \in AnySettings
  OBVIOUS
<1> DEFINE languages == Policy!Varies("language", {"", "hr", "xx"})
           policies == Policy!Varies("policy", Policy!Policies \cup {"", "other"})
           flags == Policy!Varies("policy", BOOLEAN)
           damaged == UNION {{[Policy!DefaultSettings.num EXCEPT ![n] = x] : x \in {-1, 0, 1, 8,
             9, 61}} :
                               n \in Policy!Numbers \cap PolicyChoices}
           nums == {Policy!DefaultSettings.num} \cup damaged
<1>2. f \in [language : languages, appearance : {"", "grey"}, policy : policies, skip : flags,
        backup : flags,
             confirm : {TRUE}, num : nums]
  BY Zenon DEF Policy!Files
<1>3. languages \subseteq Texts
  <2>1. languages \subseteq {"", "hr", "xx"}
    BY <1>1, Zenon
  <2>2. {"", "hr", "xx"} \subseteq Texts
    BY DEF Texts
  <2> QED
    BY <2>1, <2>2, Zenon
<1>4. policies \subseteq Texts
  <2>1. policies \subseteq Policy!Policies \cup {"", "other"}
    BY <1>1, Zenon
  <2>2. Policy!Policies \cup {"", "other"} \subseteq Texts
    BY DEF Texts, Policy!Policies
  <2> QED
    BY <2>1, <2>2, Zenon
<1>5. flags \subseteq BOOLEAN
  BY <1>1, Zenon
<1>6. nums \subseteq [Rules!Numbers -> Int]
  <2>1. Policy!DefaultSettings.num \in [Rules!Numbers -> Int]
    BY SMT DEF Policy!DefaultSettings, Rules!Numbers
  <2>2. PICK d : d = Policy!DefaultSettings.num
    OBVIOUS
  <2>a. d \in [Rules!Numbers -> Int]
    BY <2>1, <2>2, Zenon
  <2>3. \A n \in Rules!Numbers, x \in Int : [d EXCEPT ![n] = x] \in [Rules!Numbers -> Int]
    <3> SUFFICES ASSUME NEW n \in Rules!Numbers,
                        NEW x \in Int PROVE [d EXCEPT ![n] = x] \in [Rules!Numbers -> Int]
      OBVIOUS
    <3> QED
      BY <2>a
  <2>b. Policy!Numbers = Rules!Numbers
    BY PolicyIsRules
  <2>4. {-1, 0, 1, 8, 9, 61} \subseteq Int
    BY SMT
  <2>5. damaged \subseteq [Rules!Numbers -> Int]
    <3> SUFFICES ASSUME NEW g \in damaged PROVE g \in [Rules!Numbers -> Int]
      OBVIOUS
    <3>1. PICK n \in Policy!Numbers : g \in {[Policy!DefaultSettings.num EXCEPT ![n] = x] :
            x \in {-1, 0, 1, 8, 9, 61}}
      OBVIOUS
    <3>2. PICK x \in {-1, 0, 1, 8, 9, 61} : g = [Policy!DefaultSettings.num EXCEPT ![n] = x]
      BY <3>1
    <3>3. g = [d EXCEPT ![n] = x] /\ n \in Rules!Numbers /\ x \in Int
      BY <2>2, <2>4, <2>b, <3>2, Zenon
    <3> QED
      BY <2>3, <3>3, Zenon
  <2> QED
    BY <2>1, <2>5, Zenon
<1>7. {"", "grey"} \subseteq Texts /\ {TRUE} \subseteq BOOLEAN
  BY DEF Texts
<1> HIDE DEF languages, policies, flags, damaged, nums
<1>8. /\ f.language \in languages /\ f.appearance \in {"", "grey"} /\ f.policy \in policies
           /\ f.num \in nums
      /\ f.skip \in flags /\ f.backup \in flags /\ f.confirm \in {TRUE}
      /\ f = [language |-> f.language, appearance |-> f.appearance, policy |-> f.policy,
           skip |-> f.skip,
               backup |-> f.backup, confirm |-> f.confirm, num |-> f.num]
  BY <1>2
<1>9. /\ f.language \in Texts /\ f.appearance \in Texts /\ f.policy \in Texts
      /\ f.num \in [Rules!Numbers -> Int]
      /\ f.skip \in BOOLEAN /\ f.backup \in BOOLEAN /\ f.confirm \in BOOLEAN
  BY <1>3, <1>4, <1>5, <1>6, <1>7, <1>8, Zenon
<1> QED
  BY <1>8, <1>9 DEF AnySettings

\* What was read is canonical at the start.
LEMMA PolicyStarts == ASSUME Policy!Init PROVE PolicyInv
<1>1. PICK f \in Policy!Files : policyStored = Policy!Normalize(f) /\ policyDraft = policyStored
  BY DEF Policy!Init
<1>2. f \in AnySettings
  BY PolicyFilesAreSettings
<1>3. CanonicalSettings(policyStored)
  BY <1>1, <1>2, NormalizeIsCanonical, PolicyIsRules, Zenon
<1> QED
  BY <1>1, <1>3 DEF Policy!Init, PolicyInv, EditorOk, CanonicalSettings

\* An editor opens with what is stored.
LEMMA PolicyOpens ==
    ASSUME PolicyInv, Policy!OpenLinux \/ Policy!OpenWindows
    PROVE  PolicyInv' /\ Policy!OnlyTouchedStep /\ Policy!AcceptedIsStoredStep
<1>1. CanonicalSettings(policyStored) /\ policyStored' = policyStored /\ policyTouched' = {}
        /\ policyEditor = "none" /\ policyEditor' \in {"linux", "windows"}
  BY DEF PolicyInv, EditorOk, Policy!OpenLinux, Policy!OpenWindows
<1>2. Shown(policyDraft') /\ AllWithin(policyDraft') /\ DifferIn(policyStored, policyDraft', {})
  BY <1>1, OpenFacts, PolicyIsRules, Zenon DEF Policy!OpenLinux, Policy!OpenWindows
<1>3. policyDraft' \in AnySettings /\ DifferIn(policyStored', policyDraft', policyTouched')
  BY <1>1, <1>2 DEF Shown
<1> QED
  BY <1>1, <1>2, <1>3 DEF PolicyInv, EditorOk, Policy!OnlyTouchedStep, Policy!AcceptedIsStoredStep

\* A click on a number keeps it in range.
LEMMA PolicyStepsInRange ==
    ASSUME PolicyInv, policyEditor = "linux", NEW n \in Rules!Numbers, NEW up \in BOOLEAN
    PROVE  Policy!StepNumber(n, up) \in Int /\ Rules!Within(n, Policy!StepNumber(n, up))
<1>1. policyDraft.num \in [Rules!Numbers -> Int] /\ Rules!Within(n, policyDraft.num[n])
        /\ policyDraft.num[n] \in Int
  BY DEF PolicyInv, EditorOk, AnySettings, AllWithin
<1>2. CASE n \in {"upload", "download"}
  <2>1. 0 <= policyDraft.num[n] /\ policyDraft.num[n] <= Fastest
    BY <1>1, <1>2, LadderFacts, SMT DEF Rules!Within, Rules!Low, Rules!High
  <2>2. Policy!StepNumber(n, up) = Up(policyDraft.num[n])
          \/ Policy!StepNumber(n, up) = Down(policyDraft.num[n])
    BY <1>2, PolicyIsRules, Zenon DEF Policy!StepNumber, Up, Down
  <2>3. Policy!StepNumber(n, up) \in Int /\ 0 <= Policy!StepNumber(n, up)
          /\ Policy!StepNumber(n, up) <= Fastest
    BY <1>1, <2>1, <2>2, StepLimitInRange, SMT
  <2> QED
    BY <1>2, <2>3, LadderFacts, SMT DEF Rules!Within, Rules!Low, Rules!High
<1>3. CASE n \notin {"upload", "download"}
  <2>1. \E by \in {5, 1, -5, -1} : Policy!StepNumber(n, up) = Policy!Step(policyDraft.num[n], n,
          by)
    BY <1>3, Zenon DEF Policy!StepNumber
  <2>2. \E x \in Int : Policy!StepNumber(n, up) = Policy!Clamp(x, n)
    BY <1>1, <2>1, SMT DEF Policy!Step
  <2>3. \E x \in Int : Policy!StepNumber(n, up) = Rules!Clamp(x, n)
    BY <2>2, PolicyIsRules, Zenon
  <2> QED
    BY <2>3, ClampFacts, Zenon
<1> QED
  BY <1>2, <1>3

\* An edit in either editor.
LEMMA PolicyEditKeeps ==
    ASSUME PolicyInv, policyEditor # "none", NEW next, NEW what, Policy!Edit(next, what),
           Shown(next), DifferIn(policyDraft, next, what), policyEditor = "linux"
             => AllWithin(next)
    PROVE  PolicyInv' /\ Policy!OnlyTouchedStep /\ Policy!AcceptedIsStoredStep
<1>1. policyDraft' = next /\ policyTouched' = policyTouched \cup what
        /\ policyStored' = policyStored /\ policyEditor' = policyEditor
  BY DEF Policy!Edit
<1>2. EditorOk(policyStored, next, policyEditor, policyTouched \cup what)
  BY EditKeepsEditor DEF PolicyInv
<1> QED
  BY <1>1, <1>2 DEF PolicyInv, Policy!OnlyTouchedStep, Policy!AcceptedIsStoredStep

\* Every click in the Linux panel keeps the invariant.
LEMMA PolicyLinuxClick ==
    ASSUME PolicyInv, Policy!LinuxClick
    PROVE  PolicyInv' /\ Policy!OnlyTouchedStep /\ Policy!AcceptedIsStoredStep
<1>1. policyEditor = "linux" /\ Shown(policyDraft) /\ AllWithin(policyDraft)
  BY DEF PolicyInv, EditorOk, Policy!LinuxClick
<1>2. \A w : Shown(w) /\ w.num = policyDraft.num => AllWithin(w)
  BY <1>1 DEF AllWithin
<1>3. CASE \E l \in Policy!Languages : Policy!Edit([policyDraft EXCEPT !.language = l],
           {"language"})
  <2>1. PICK l \in Policy!Languages : Policy!Edit([policyDraft EXCEPT !.language = l],
          {"language"})
    BY <1>3
  <2>2. PICK w : w = [policyDraft EXCEPT !.language = l]
    OBVIOUS
  <2>3. Shown(w) /\ DifferIn(policyDraft, w, {"language"}) /\ AllWithin(w)
          /\ Policy!Edit(w, {"language"})
    BY <1>1, <1>2, <2>1, <2>2, EditChoice, PolicyIsRules, Zenon
  <2> QED
    BY <1>1, <2>3, PolicyEditKeeps, "linux" # "none", Zenon
<1>4. CASE Policy!Edit([policyDraft EXCEPT !.appearance = IF @ = "dark" THEN "light"
           ELSE "dark"], {"appearance"})
  <2>1. PICK a : a = IF policyDraft.appearance = "dark" THEN "light" ELSE "dark"
    OBVIOUS
  <2>2. a \in Rules!Appearances
    BY <2>1 DEF Rules!Appearances
  <2>3. PICK w : w = [policyDraft EXCEPT !.appearance = a]
    OBVIOUS
  <2>4. Policy!Edit(w, {"appearance"})
    BY <1>4, <2>1, <2>3, Zenon
  <2>5. Shown(w) /\ DifferIn(policyDraft, w, {"appearance"}) /\ AllWithin(w)
    BY <1>1, <1>2, <2>2, <2>3, EditChoice, Zenon
  <2> QED
    BY <1>1, <2>4, <2>5, PolicyEditKeeps, "linux" # "none", Zenon
<1>5. CASE \E n \in Policy!Numbers \cap PolicyChoices, up \in BOOLEAN :
               Policy!Edit([policyDraft EXCEPT !.num[n] = Policy!StepNumber(n, up)], {n})
  <2>1. PICK n \in Rules!Numbers,
          up \in BOOLEAN : Policy!Edit([policyDraft EXCEPT !.num[n] = Policy!StepNumber(n, up)],
          {n})
    BY <1>5, PolicyIsRules, Zenon
  <2>2. PICK x : x = Policy!StepNumber(n, up)
    OBVIOUS
  <2>3. x \in Int /\ Rules!Within(n, x)
    BY <1>1, <2>2, PolicyStepsInRange, Zenon
  <2>4. PICK w : w = [policyDraft EXCEPT !.num[n] = x]
    OBVIOUS
  <2>5. Policy!Edit(w, {n})
    BY <2>1, <2>2, <2>4, Zenon
  <2>6. Shown(w) /\ DifferIn(policyDraft, w, {n}) /\ AllWithin(w)
    BY <1>1, <2>3, <2>4, EditNumber, Zenon
  <2> QED
    BY <1>1, <2>5, <2>6, PolicyEditKeeps, "linux" # "none", Zenon
<1>6. CASE Policy!Edit([policyDraft EXCEPT !.policy = Policy!NextPolicy(@)], {"policy"})
  <2>1. PICK p : p = Policy!NextPolicy(policyDraft.policy)
    OBVIOUS
  <2>2. p \in Rules!Policies
    BY <2>1 DEF Policy!NextPolicy, Rules!Policies
  <2>3. PICK w : w = [policyDraft EXCEPT !.policy = p]
    OBVIOUS
  <2>4. Policy!Edit(w, {"policy"})
    BY <1>6, <2>1, <2>3, Zenon
  <2>5. Shown(w) /\ DifferIn(policyDraft, w, {"policy"}) /\ AllWithin(w)
    BY <1>1, <1>2, <2>2, <2>3, EditChoice, Zenon
  <2> QED
    BY <1>1, <2>4, <2>5, PolicyEditKeeps, "linux" # "none", Zenon
<1>7. CASE Policy!Edit([policyDraft EXCEPT !.confirm = ~@], {"confirm"})
  <2>1. PICK w : w = [policyDraft EXCEPT !.confirm = ~@]
    OBVIOUS
  <2>2. Shown(w) /\ DifferIn(policyDraft, w, {"confirm"}) /\ AllWithin(w)
          /\ Policy!Edit(w, {"confirm"})
    BY <1>1, <1>2, <1>7, <2>1, EditChoice, Zenon
  <2> QED
    BY <1>1, <2>2, PolicyEditKeeps, "linux" # "none", Zenon
<1>8. CASE Policy!Edit(Policy!Reset(policyDraft),
           (Policy!Options \cup Policy!Numbers) \ {"language"})
  <2>1. PICK w : w = Rules!Reset(policyDraft)
    OBVIOUS
  <2>2. Policy!Edit(w, (Rules!Options \cup Rules!Numbers) \ {"language"})
    BY <1>8, <2>1, PolicyIsRules, Zenon
  <2>3. Shown(w) /\ AllWithin(w)
          /\ DifferIn(policyDraft, w, (Rules!Options \cup Rules!Numbers) \ {"language"})
    BY <1>1, <2>1, EditDefaults, Zenon
  <2> QED
    BY <1>1, <2>2, <2>3, PolicyEditKeeps, "linux" # "none", Zenon
<1> QED
  BY <1>3, <1>4, <1>5, <1>6, <1>7, <1>8 DEF Policy!LinuxClick

\* Every entry in the Windows dialog keeps the invariant.
LEMMA PolicyWindowsEdit ==
    ASSUME PolicyInv, Policy!WindowsEdit
    PROVE  PolicyInv' /\ Policy!OnlyTouchedStep /\ Policy!AcceptedIsStoredStep
<1>1. policyEditor = "windows" /\ Shown(policyDraft)
  BY DEF PolicyInv, EditorOk, Policy!WindowsEdit
<1>2. policyEditor # "none" /\ policyEditor # "linux"
  BY <1>1
<1>3. CASE \E l \in Policy!Languages : Policy!Edit([policyDraft EXCEPT !.language = l],
           {"language"})
  <2>1. PICK w : Shown(w) /\ DifferIn(policyDraft, w, {"language"})
          /\ Policy!Edit(w, {"language"})
    BY <1>1, <1>3, EditChoice, PolicyIsRules, Zenon
  <2> QED
    BY <1>2, <2>1, PolicyEditKeeps, Zenon
<1>4. CASE \E a \in Policy!Appearances : Policy!Edit([policyDraft EXCEPT !.appearance = a],
           {"appearance"})
  <2>1. PICK w : Shown(w) /\ DifferIn(policyDraft, w, {"appearance"})
          /\ Policy!Edit(w, {"appearance"})
    BY <1>1, <1>4, EditChoice, PolicyIsRules, Zenon
  <2> QED
    BY <1>2, <2>1, PolicyEditKeeps, Zenon
<1>5. CASE \E n \in Policy!Numbers \cap PolicyChoices : \E x \in Policy!Typed(n) :
               Policy!Edit([policyDraft EXCEPT !.num[n] = x], {n})
  <2>1. PICK n \in Rules!Numbers : \E x \in Policy!Typed(n) :
          Policy!Edit([policyDraft EXCEPT !.num[n] = x], {n})
    BY <1>5, PolicyIsRules, Zenon
  <2>2. PICK x \in Policy!Typed(n) : Policy!Edit([policyDraft EXCEPT !.num[n] = x], {n})
    BY <2>1
  <2>3. x \in Int
    BY SMT DEF Policy!Typed, Policy!Low, Policy!High, Policy!DefaultSettings, Rules!Numbers
  <2>4. PICK w : Shown(w) /\ DifferIn(policyDraft, w, {n}) /\ Policy!Edit(w, {n})
    BY <1>1, <2>2, <2>3, EditNumber, Zenon
  <2> QED
    BY <1>2, <2>4, PolicyEditKeeps, Zenon
<1>6. CASE \E p \in Policy!Policies : Policy!Edit([policyDraft EXCEPT !.policy = p], {"policy"})
  <2>1. PICK w : Shown(w) /\ DifferIn(policyDraft, w, {"policy"}) /\ Policy!Edit(w, {"policy"})
    BY <1>1, <1>6, EditChoice, PolicyIsRules, Zenon
  <2> QED
    BY <1>2, <2>1, PolicyEditKeeps, Zenon
<1>7. CASE Policy!Edit([policyDraft EXCEPT !.confirm = ~@], {"confirm"})
  <2>1. PICK w : Shown(w) /\ DifferIn(policyDraft, w, {"confirm"}) /\ Policy!Edit(w, {"confirm"})
    BY <1>1, <1>7, EditChoice, Zenon
  <2> QED
    BY <1>2, <2>1, PolicyEditKeeps, Zenon
<1>8. CASE Policy!Edit(Policy!DefaultSettings, Policy!Options \cup Policy!Numbers)
  <2>1. Policy!Edit(Rules!DefaultSettings, Rules!Options \cup Rules!Numbers)
    BY <1>8, PolicyIsRules, Zenon
  <2> QED
    BY <1>1, <1>2, <2>1, EditDefaults, PolicyEditKeeps, Zenon
<1> QED
  BY <1>3, <1>4, <1>5, <1>6, <1>7, <1>8 DEF Policy!WindowsEdit

\* Whatever is stored, the editor it comes from is closed or stays as it was.
LEMMA PolicyCloses ==
    ASSUME PolicyInv, Policy!Closed, CanonicalSettings(policyStored')
    PROVE  PolicyInv'
  BY DEF PolicyInv, EditorOk, Policy!Closed, CanonicalSettings

\* Stored settings that differ in what was touched differ in nothing else.
LEMMA PolicyTouchedOnly ==
    ASSUME DifferIn(policyStored, policyStored', policyTouched) PROVE Policy!OnlyTouchedStep
  BY PolicyIsRules DEF DifferIn, Agree, Choices, Policy!OnlyTouchedStep

\* The Linux panel stores its draft.
LEMMA PolicySaves ==
    ASSUME PolicyInv, Policy!SaveLinux
    PROVE  PolicyInv' /\ Policy!OnlyTouchedStep /\ Policy!AcceptedIsStoredStep
<1>1. policyEditor = "linux" /\ policyEditor # "none" /\ AllWithin(policyDraft)
        /\ policyDraft \in AnySettings
        /\ policyStored' = Rules!SetResult(policyDraft, policyStored)
  BY PolicyIsRules DEF PolicyInv, EditorOk, Policy!SaveLinux
<1>2. SameChoices(policyDraft, policyDraft)
  BY DEF SameChoices
<1>3. /\ Rules!Valid(Rules!MigrateConflict(Rules!Filled(policyDraft), FALSE))
      /\ CanonicalSettings(policyStored') /\ DifferIn(policyStored, policyStored', policyTouched)
  BY <1>1, <1>2, StoredIsDraft, Zenon DEF PolicyInv
<1>4. Policy!Closed
  BY <1>3, PolicyIsRules, Zenon DEF Policy!SaveLinux
<1> QED
  BY <1>1, <1>3, <1>4, PolicyCloses, PolicyTouchedOnly DEF Policy!AcceptedIsStoredStep

\* The Windows dialog stores its draft when the numbers are in range.
LEMMA PolicyAccepts ==
    ASSUME PolicyInv, Policy!AcceptWindows
    PROVE  PolicyInv' /\ Policy!OnlyTouchedStep /\ Policy!AcceptedIsStoredStep
<1>1. /\ policyEditor = "windows" /\ policyEditor # "none" /\ AllWithin(policyDraft)
           /\ policyDraft \in AnySettings /\ Policy!Closed
      /\ policyDraft.policy \in Rules!Policies
  BY PolicyIsRules DEF PolicyInv, EditorOk, Shown, AllWithin, Policy!AcceptWindows
<1>2. PICK sent : sent = Rules!ApplyConflict(policyDraft, Rules!ConflictIndex(policyDraft))
  OBVIOUS
<1>3. sent \in AnySettings /\ SameChoices(sent, policyDraft)
  BY <1>1, <1>2, ApplyConflictFacts, Zenon
<1>4. policyStored' = Rules!SetResult(sent, policyStored)
  BY <1>2, PolicyIsRules, Zenon DEF Policy!AcceptWindows
<1>5. CanonicalSettings(policyStored') /\ SameChoices(policyStored', policyDraft)
        /\ DifferIn(policyStored, policyStored', policyTouched)
  BY <1>1, <1>3, <1>4, StoredIsDraft, Zenon DEF PolicyInv
<1> QED
  BY <1>1, <1>5, PolicyCloses, PolicyTouchedOnly DEF Policy!AcceptedIsStoredStep, SameChoices

\* Closing without saving stores nothing.
LEMMA PolicyCancels ==
    ASSUME PolicyInv, Policy!Cancel
    PROVE  PolicyInv' /\ Policy!OnlyTouchedStep /\ Policy!AcceptedIsStoredStep
<1>1. policyStored' = policyStored /\ Policy!Closed /\ CanonicalSettings(policyStored')
  BY DEF Policy!Cancel, PolicyInv, EditorOk
<1> QED
  BY <1>1, PolicyCloses DEF Policy!OnlyTouchedStep, Policy!AcceptedIsStoredStep

\* What the terminal sends is stored in canonical form.
LEMMA PolicyTerminalSets ==
    ASSUME PolicyInv, Policy!TerminalSet
    PROVE  PolicyInv' /\ Policy!OnlyTouchedStep /\ Policy!AcceptedIsStoredStep
<1>1. policyEditor = "none" /\ Policy!Closed /\ CanonicalSettings(policyStored)
  BY DEF Policy!TerminalSet, PolicyInv, EditorOk
<1>2. \A n \in {"parallel", "retries", "delay", "timeout"} : n \in Rules!Numbers
        /\ Policy!Typed(n) \subseteq Int
  BY SMT DEF Policy!Typed, Policy!Low, Policy!High, Policy!DefaultSettings, Rules!Numbers
<1>3. \E v \in AnySettings : policyStored' = Policy!SetResult(v, policyStored)
  <2>1. CASE \E n \in PolicyChoices \cap {"parallel", "retries", "delay",
             "timeout"} : \E x \in Policy!Typed(n) :
                 policyStored' = Policy!SetResult([policyStored EXCEPT !.num[n] = x],
                   policyStored)
    <3>1. PICK n \in {"parallel", "retries", "delay", "timeout"} : \E x \in Policy!Typed(n) :
              policyStored' = Policy!SetResult([policyStored EXCEPT !.num[n] = x], policyStored)
      BY <2>1, Zenon
    <3>2. PICK x \in Policy!Typed(n) : policyStored'
            = Policy!SetResult([policyStored EXCEPT !.num[n] = x], policyStored)
      BY <3>1
    <3>3. [policyStored EXCEPT !.num[n] = x] \in AnySettings
      BY <1>1, <1>2, TerminalSends, Zenon
    <3> QED
      BY <3>2, <3>3, Zenon
  <2>2. CASE \E p \in Policy!Policies \cup {"",
             "other"} : policyStored' = Policy!SetResult([policyStored EXCEPT !.policy = p],
             policyStored)
    BY <1>1, <2>2, TerminalSends, PolicyIsRules, Zenon
  <2>3. CASE \E b \in BOOLEAN : policyStored' = Policy!SetResult([policyStored EXCEPT !.confirm
             = b], policyStored)
    BY <1>1, <2>3, TerminalSends, Zenon
  <2>4. CASE \E l \in Policy!Languages : policyStored'
             = Policy!SetResult([policyStored EXCEPT !.language = l], policyStored)
    BY <1>1, <2>4, TerminalSends, PolicyIsRules, Zenon
  <2> QED
    BY <2>1, <2>2, <2>3, <2>4, Zenon DEF Policy!TerminalSet
<1>4. CanonicalSettings(policyStored')
  BY <1>1, <1>3, SetResultFacts, PolicyIsRules, Zenon
<1> QED
  BY <1>1, <1>4, PolicyCloses DEF Policy!OnlyTouchedStep, Policy!AcceptedIsStoredStep

\* What the settings promise.
LEMMA PolicyPromises == ASSUME PolicyInv PROVE Policy!StoredCanonical /\ Policy!PanelAccepted
<1>1. Policy!PanelAccepted
  <2> SUFFICES ASSUME policyEditor = "linux"
               PROVE  Policy!SetResult(policyDraft,
                      [policyDraft EXCEPT !.policy = "none"]).policy # "none"
    BY DEF Policy!PanelAccepted
  <2>1. policyEditor # "none" /\ AllWithin(policyDraft) /\ policyDraft \in AnySettings
          /\ Shown(policyDraft) /\ SameChoices(policyDraft, policyDraft)
    BY DEF PolicyInv, EditorOk, SameChoices
  <2>2. Rules!Valid(policyDraft) /\ CanonicalSettings(policyStored)
    BY <2>1, ShownWithinIsValid DEF PolicyInv, EditorOk
  <2>3. PICK w : w = Rules!MigrateConflict(Rules!Filled(policyDraft), FALSE)
    OBVIOUS
  <2>4. Rules!Valid(w)
    BY <2>1, <2>2, <2>3, SetResultFacts, Zenon
  <2>5. Policy!SetResult(policyDraft, [policyDraft EXCEPT !.policy = "none"]) = w
    BY <2>3, <2>4, PolicyIsRules, Zenon DEF Rules!SetResult
  <2>6. w.policy # "none"
    BY <2>4 DEF Rules!Valid, Rules!Policies
  <2> QED
    BY <2>5, <2>6, Zenon
<1>2. Policy!StoredCanonical
  BY PolicyIsRules DEF PolicyInv, EditorOk, CanonicalSettings, Policy!StoredCanonical
<1> QED
  BY <1>1, <1>2

\* Every step of the settings editors keeps the invariant, changes only what was touched and
\* stores what was accepted.
LEMMA RulesSteps ==
    ASSUME RulesInv, [Rules!Next]_(Rules!vars)
    PROVE  RulesInv' /\ Rules!OnlyTouchedStep /\ Rules!AcceptedIsStoredStep
<1>1. ASSUME UNCHANGED Rules!vars
      PROVE  RulesInv' /\ Rules!OnlyTouchedStep /\ Rules!AcceptedIsStoredStep
  BY <1>1 DEF Rules!vars, RulesInv, EditorOk, Rules!OnlyTouchedStep, Rules!AcceptedIsStoredStep
<1> QED
  BY <1>1, RulesOpens, RulesLinuxClick, RulesSaves, RulesWindowsEdit, RulesAccepts, RulesCancels,
     RulesTerminalSets DEF Rules!Next

\* Every step of the editors of the other options keeps the invariant, changes only what
\* was touched and
\* stores what was accepted.
LEMMA PolicySteps ==
    ASSUME PolicyInv, [Policy!Next]_(Policy!vars)
    PROVE  PolicyInv' /\ Policy!OnlyTouchedStep /\ Policy!AcceptedIsStoredStep
<1>1. ASSUME UNCHANGED Policy!vars
      PROVE  PolicyInv' /\ Policy!OnlyTouchedStep /\ Policy!AcceptedIsStoredStep
  BY <1>1 DEF Policy!vars, PolicyInv, EditorOk, Policy!OnlyTouchedStep,
     Policy!AcceptedIsStoredStep
<1> QED
  BY <1>1, PolicyOpens, PolicyLinuxClick, PolicySaves, PolicyWindowsEdit, PolicyAccepts,
     PolicyCancels,
     PolicyTerminalSets DEF Policy!Next

(***************************************************************************)
(* Settings: the window, the store and the file                            *)
(***************************************************************************)

\* The settings of the model of the window.
WrittenSettings == [lang : 0..1, policy : Writers!Policies, par : 0..1, skip : BOOLEAN]

\* A write under way: it changes what the user changed and leaves the rest as the store
\* has it; what the window gets back is what the store holds.
CallOk(c) ==
    /\ c.kind \in {"language", "dialog"} /\ c.state \in {"runs", "ok", "failed"}
    /\ c.state = "runs" =>
          c.next \in WrittenSettings
            /\ \A f \in Writers!Fields \ c.changed : c.next[f] = writersCache[f]
    /\ c.state = "ok" => c.saved = writersCache
    /\ c.state # "ok" =>
          IF c.kind = "language" THEN c.old = writersCache ELSE writersUi = writersCache

\* The inductive invariant of the window without the site manager: one write at a time,
\* the controls disabled and no dialog open while it is under way.
WritersInv ==
    /\ {writersDisk, writersCache, writersUi} \subseteq WrittenSettings
    /\ writersModal \in {{}, {"dialog"}} /\ writersEnabled \in BOOLEAN
    /\ writersCalls = {} \/ \E c : writersCalls = {c}
    /\ writersCalls # {} => ~writersEnabled /\ writersModal = {}
    /\ \A c \in writersCalls : CallOk(c)
    /\ writersModal = {"dialog"} => writersDraft = writersCache
    /\ Writers!WindowShowsStore

\* The window starts with what the store has read.
LEMMA WritersStarts == ASSUME Writers!Init PROVE WritersInv
  BY DEF Writers!Init, WritersInv, WrittenSettings, Writers!Policies, Writers!WindowShowsStore

\* The language is shown at once and written with what the store has.
LEMMA WindowLanguage == ASSUME WritersInv, Writers!Language
                  PROVE WritersInv' /\ Writers!NoStaleWriteStep
<1>a. PICK next : next = [writersUi EXCEPT !.lang = 1 - @]
  OBVIOUS
<1>b. PICK call :
          call = [kind |-> "language", state |-> "runs", next |-> next, old |-> writersUi,
            changed |-> {"lang"}]
  OBVIOUS
<1>1. /\ writersCalls = {} /\ writersUi = writersCache /\ writersCache \in WrittenSettings
      /\ writersUi' = next /\ writersEnabled' = FALSE /\ writersCalls' = {call}
      /\ UNCHANGED <<writersDisk, writersCache, writersModal, writersDraft>> /\ writersModal = {}
  BY <1>a, <1>b DEF Writers!Language, WritersInv, Writers!WindowShowsStore, Writers!store
<1>2. next \in WrittenSettings /\ \A f \in Writers!Fields \ {"lang"} : next[f] = writersCache[f]
  BY <1>a, <1>1 DEF WrittenSettings, Writers!Fields
<1>3. CallOk(call)'
  BY <1>b, <1>1, <1>2 DEF CallOk
<1> QED
  BY <1>1, <1>2, <1>3 DEF WritersInv, Writers!WindowShowsStore, Writers!NoStaleWriteStep

\* The dialog opens with what the store has.
LEMMA WindowOpenDialog == ASSUME WritersInv, Writers!OpenDialog
                  PROVE WritersInv' /\ Writers!NoStaleWriteStep
  BY DEF Writers!OpenDialog, WritersInv, CallOk, WrittenSettings, Writers!Policies,
     Writers!Fields, Writers!WindowShowsStore,
     Writers!NoStaleWriteStep, Writers!store

\* What the dialog accepts differs from the store in what the user changed.
LEMMA WindowAccept == ASSUME WritersInv, Writers!Accept
                  PROVE WritersInv' /\ Writers!NoStaleWriteStep
<1>1. PICK l \in 0..1, p \in Writers!Policies, n \in 0..1 :
          Writers!DialogAccepted(Writers!Canonical([writersDraft EXCEPT !.lang = l, !.policy = p,
            !.par = n]))
  BY DEF Writers!Accept
<1>a. PICK next : next = Writers!Canonical([writersDraft EXCEPT !.lang = l, !.policy = p,
  !.par = n])
  OBVIOUS
<1>b. PICK call : call = [kind |-> "dialog", state |-> "runs", next |-> next,
  old |-> writersDraft,
                          changed |-> {f \in Writers!Fields : next[f] # writersDraft[f]}]
  OBVIOUS
<1>2. /\ writersCalls = {} /\ writersUi = writersCache /\ writersCache \in WrittenSettings
      /\ writersDraft = writersCache /\ writersModal' = {}
      /\ UNCHANGED <<writersUi, writersDisk, writersCache, writersDraft>>
  BY DEF Writers!Accept, WritersInv, Writers!WindowShowsStore, Writers!store
<1>3. writersEnabled' = FALSE /\ writersCalls' = {call}
  BY <1>a, <1>b, <1>1, <1>2 DEF Writers!DialogAccepted
<1>4. next \in WrittenSettings
  BY <1>a, <1>2 DEF WrittenSettings, Writers!Canonical
<1>5. CallOk(call)'
  BY <1>b, <1>2, <1>4 DEF CallOk
<1> QED
  BY <1>2, <1>3, <1>5 DEF WritersInv, Writers!WindowShowsStore, Writers!NoStaleWriteStep

\* Closing the dialog changes nothing.
LEMMA WindowCancelDialog == ASSUME WritersInv, Writers!CancelDialog
                  PROVE WritersInv' /\ Writers!NoStaleWriteStep
  BY DEF Writers!CancelDialog, WritersInv, CallOk, WrittenSettings, Writers!Policies,
     Writers!Fields, Writers!WindowShowsStore,
     Writers!NoStaleWriteStep, Writers!store

\* Without the site manager its window does not open.
LEMMA WindowSite == ASSUME WritersInv, Writers!Site
                  PROVE WritersInv' /\ Writers!NoStaleWriteStep
  BY DEF Writers!Site, WritersInv, CallOk, WrittenSettings, Writers!Policies, Writers!Fields,
     Writers!WindowShowsStore,
     Writers!NoStaleWriteStep, Writers!store

\* Nor does it choose a preset.
LEMMA WindowPreset == ASSUME WritersInv, Writers!Preset
                  PROVE WritersInv' /\ Writers!NoStaleWriteStep
  BY DEF Writers!Preset, WritersInv, CallOk, WrittenSettings, Writers!Policies, Writers!Fields,
     Writers!WindowShowsStore,
     Writers!NoStaleWriteStep, Writers!store, Writers!Set, Writers!User, Writers!SetNow,
     Writers!Canonical

\* Nor does it write its option.
LEMMA WindowSyncOption == ASSUME WritersInv, Writers!SyncOption
                  PROVE WritersInv' /\ Writers!NoStaleWriteStep
  BY DEF Writers!SyncOption, WritersInv, CallOk, WrittenSettings, Writers!Policies,
     Writers!Fields, Writers!WindowShowsStore,
     Writers!NoStaleWriteStep, Writers!Set, Writers!User

\* A write that runs puts its settings on disk and into the store, or fails.
LEMMA WindowRuns == ASSUME NEW c \in writersCalls, WritersInv, Writers!Runs(c)
                  PROVE WritersInv' /\ Writers!NoStaleWriteStep
<1>1. writersCalls = {c} /\ CallOk(c) /\ c.state = "runs" /\ c.kind # "load"
        /\ c.next \in WrittenSettings
  BY DEF WritersInv, CallOk, Writers!Runs
<1>2. PICK ok \in BOOLEAN :
          /\ Writers!Set(c.next, ok)
          /\ writersCalls' = (writersCalls \ {c}) \cup
                {[kind |-> c.kind, old |-> c.old, saved |-> writersCache',
                  state |-> IF ok THEN "ok" ELSE "failed"]}
  BY <1>1 DEF Writers!Runs
<1>a. PICK answer :
          answer = [kind |-> c.kind, old |-> c.old, saved |-> writersCache',
            state |-> IF ok THEN "ok" ELSE "failed"]
  OBVIOUS
<1>3. /\ UNCHANGED <<writersUi, writersEnabled, writersModal, writersDraft>>
      /\ ~writersEnabled /\ writersModal = {} /\ writersCalls' = {answer}
  BY <1>a, <1>1, <1>2 DEF Writers!Runs, WritersInv
<1>4. Writers!Canonical(c.next) \in WrittenSettings
      /\ \A f \in Writers!Fields : Writers!Canonical(c.next)[f] = c.next[f]
  BY <1>1 DEF WrittenSettings, Writers!Fields, Writers!Canonical
<1>5. {writersDisk', writersCache'} \subseteq WrittenSettings
  BY <1>2, <1>4 DEF Writers!Set, WritersInv
<1>6. \A f \in Writers!Fields \ c.changed : writersCache'[f] = writersCache[f]
  BY <1>1, <1>2, <1>4 DEF Writers!Set, CallOk
<1>7. CallOk(answer)'
  <2>1. answer.saved = writersCache' /\ answer.kind = c.kind /\ answer.old = c.old
        /\ answer.state \in {"ok", "failed"} /\ (answer.state = "failed" => ~ok)
    BY <1>a
  <2>2. ~ok => writersCache' = writersCache
    BY <1>2 DEF Writers!Set
  <2> QED
    BY <1>1, <1>3, <2>1, <2>2 DEF CallOk
<1> QED
  BY <1>1, <1>3, <1>5, <1>6, <1>7 DEF WritersInv, Writers!WindowShowsStore,
     Writers!NoStaleWriteStep

\* The window takes the answer, or goes back to what the store has.
LEMMA WindowResult == ASSUME NEW c \in writersCalls, WritersInv, Writers!Result(c)
                  PROVE WritersInv' /\ Writers!NoStaleWriteStep
  BY DEF Writers!Result, WritersInv, CallOk, WrittenSettings, Writers!Policies, Writers!Fields,
     Writers!WindowShowsStore,
     Writers!NoStaleWriteStep, Writers!store

\* After a restart the window shows what was on disk.
LEMMA WindowRestart == ASSUME WritersInv, Writers!Restart
                  PROVE WritersInv' /\ Writers!NoStaleWriteStep
  BY DEF Writers!Restart, WritersInv, CallOk, WrittenSettings, Writers!Policies,
     Writers!Fields, Writers!WindowShowsStore,
     Writers!NoStaleWriteStep

\* Whoever writes: what takes effect is on disk.
LEMMA WindowStoresFirst == ASSUME Writers!Next PROVE Writers!InEffectIsOnDiskStep
<1>1. \A v, ok : Writers!Set(v, ok) => writersDisk' = writersCache' \/ UNCHANGED writersCache
  BY DEF Writers!Set
<1>2. ASSUME NEW c \in writersCalls, Writers!Runs(c)
             \/ Writers!Result(c) PROVE Writers!InEffectIsOnDiskStep
  BY <1>1, <1>2 DEF Writers!InEffectIsOnDiskStep, Writers!Runs, Writers!Result, Writers!store
<1>3. ASSUME Writers!Preset \/ Writers!SyncOption PROVE Writers!InEffectIsOnDiskStep
  BY <1>1, <1>3 DEF Writers!InEffectIsOnDiskStep, Writers!Preset, Writers!SyncOption,
     Writers!SetNow
<1>4. ASSUME Writers!Language \/ Writers!OpenDialog \/ Writers!Accept \/ Writers!CancelDialog
             \/ Writers!Site \/ Writers!Restart
      PROVE  Writers!InEffectIsOnDiskStep
  BY <1>4 DEF Writers!InEffectIsOnDiskStep, Writers!store, Writers!Language,
     Writers!OpenDialog, Writers!Accept, Writers!CancelDialog,
     Writers!Site, Writers!Restart
<1> QED
  BY <1>2, <1>3, <1>4 DEF Writers!Next

\* Whoever writes: what takes effect is on disk.
LEMMA ManagerStoresFirst == ASSUME SiteWriters!Next PROVE SiteWriters!InEffectIsOnDiskStep
<1>1. \A v, ok : SiteWriters!Set(v, ok) => sitesDisk' = sitesCache' \/ UNCHANGED sitesCache
  BY DEF SiteWriters!Set
<1>2. ASSUME NEW c \in sitesCalls, SiteWriters!Runs(c)
             \/ SiteWriters!Result(c) PROVE SiteWriters!InEffectIsOnDiskStep
  BY <1>1, <1>2 DEF SiteWriters!InEffectIsOnDiskStep, SiteWriters!Runs, SiteWriters!Result,
     SiteWriters!store
<1>3. ASSUME SiteWriters!Preset \/ SiteWriters!SyncOption PROVE SiteWriters!InEffectIsOnDiskStep
  BY <1>1, <1>3 DEF SiteWriters!InEffectIsOnDiskStep, SiteWriters!Preset,
     SiteWriters!SyncOption, SiteWriters!SetNow
<1>4. ASSUME SiteWriters!Language \/ SiteWriters!OpenDialog \/ SiteWriters!Accept
             \/ SiteWriters!CancelDialog \/ SiteWriters!Site \/ SiteWriters!Restart
      PROVE  SiteWriters!InEffectIsOnDiskStep
  BY <1>4 DEF SiteWriters!InEffectIsOnDiskStep, SiteWriters!store, SiteWriters!Language,
     SiteWriters!OpenDialog, SiteWriters!Accept, SiteWriters!CancelDialog,
     SiteWriters!Site, SiteWriters!Restart
<1> QED
  BY <1>2, <1>3, <1>4 DEF SiteWriters!Next

\* Every step of the window, of its writes and of the store keeps the invariant; nothing
\* takes effect before it is on disk, and no write carries what the user did not change.
LEMMA WritersSteps ==
    ASSUME WritersInv, [Writers!Next]_(Writers!vars)
    PROVE  /\ WritersInv'
           /\ Writers!NoStaleWriteStep
           /\ Writers!Next => Writers!InEffectIsOnDiskStep
<1>1. ASSUME UNCHANGED Writers!vars
      PROVE  WritersInv' /\ Writers!NoStaleWriteStep
  BY <1>1 DEF Writers!vars, Writers!store, WritersInv, CallOk, Writers!WindowShowsStore,
     Writers!NoStaleWriteStep
<1> QED
  BY <1>1, WindowStoresFirst, WindowLanguage, WindowOpenDialog, WindowAccept,
     WindowCancelDialog, WindowSite, WindowPreset, WindowSyncOption, WindowRuns, WindowResult,
       WindowRestart
     DEF Writers!Next

(***************************************************************************)
(* The suite                                                               *)
(***************************************************************************)

\* The component a behaviour is about begins in its own initial states.
LEMMA PartStarts ==
    ASSUME Init
    PROVE  /\ part = "profiles" => Profile!Init
           /\ part = "binding" => Binding!Init
           /\ part = "marks" => Marks!Init
           /\ part = "visits" => Visits!Init
           /\ part = "rules" => Rules!Init
           /\ part = "policy" => Policy!Init
           /\ part = "writers" => Writers!Init
           /\ part = "install" => Install!Init
           /\ part = "removal" => Removal!Init
  BY DEF Init

\* A step is one of the component the behaviour is about.
LEMMA PartMoves ==
    ASSUME Next
    PROVE  /\ part' = part
           /\ part = "profiles" => Profile!Next
           /\ part = "binding" => Binding!Next
           /\ part = "marks" => Marks!Next
           /\ part = "visits" => Visits!Next
           /\ part = "rules" => Rules!Next
           /\ part = "policy" => Policy!Next
           /\ part = "writers" => Writers!Next
           /\ part = "sites" => SiteWriters!Next
           /\ part = "install" => Install!Next
           /\ part = "removal" => Removal!Next
  BY DEF Next, OnlyProfile, OnlyBinding, OnlyMarks, OnlyVisits, OnlyRules, OnlyPolicy,
         OnlyWriters, OnlySiteWriters, OnlyInstall, OnlyRemoval

\* Every step is one of that component, or leaves its variables alone.
LEMMA PartSteps ==
    ASSUME [Next]_vars
    PROVE  /\ part' = part
           /\ part = "profiles" => [Profile!Next]_(Profile!vars)
           /\ part = "binding" => [Binding!Next]_(Binding!vars)
           /\ part = "marks" => [Marks!Next]_(Marks!vars)
           /\ part = "visits" => [Visits!Next]_(Visits!vars)
           /\ part = "rules" => [Rules!Next]_(Rules!vars)
           /\ part = "policy" => [Policy!Next]_(Policy!vars)
           /\ part = "writers" => [Writers!Next]_(Writers!vars)
           /\ part = "install" => [Install!Next]_(Install!vars)
           /\ part = "removal" => [Removal!Next]_(Removal!vars)
<1>1. CASE Next
  BY <1>1, PartMoves
<1>2. CASE UNCHANGED vars
  <2>1. UNCHANGED Profile!vars
    BY <1>2 DEF vars, ProfileVars, Profile!vars, Profile!fileVars, Profile!secVars,
       Profile!callVars, Profile!history, Profile!bounds
  <2>2. UNCHANGED Binding!vars
    BY <1>2 DEF vars, BindingVars, Binding!vars
  <2>3. UNCHANGED Marks!vars
    BY <1>2 DEF vars, MarksVars, Marks!vars
  <2>4. UNCHANGED Visits!vars
    BY <1>2 DEF vars, VisitsVars, Visits!vars
  <2>5. UNCHANGED Rules!vars
    BY <1>2 DEF vars, RulesVars, Rules!vars
  <2>6. UNCHANGED Policy!vars
    BY <1>2 DEF vars, PolicyVars, Policy!vars
  <2>7. UNCHANGED Writers!vars
    BY <1>2 DEF vars, WritersVars, Writers!vars, Writers!store
  <2>8. UNCHANGED Install!vars
    BY <1>2 DEF vars, InstallVars, Install!vars, Install!tx, Install!counts
  <2>9. UNCHANGED Removal!vars
    BY <1>2 DEF vars, RemovalVars, Removal!vars, Removal!files, Removal!counts
  <2>10. part' = part
    BY <1>2 DEF vars
  <2> QED
    BY <2>1, <2>2, <2>3, <2>4, <2>5, <2>6, <2>7, <2>8, <2>9, <2>10
<1> QED
  BY <1>1, <1>2

\* The inductive invariant of a behaviour: that of the component it is about.
StoresInv ==
    /\ part = "profiles" => ProfileInv
    /\ part = "binding" => BindingInv
    /\ part = "marks" => MarksInv
    /\ part = "visits" => VisitsInv
    /\ part = "rules" => RulesInv
    /\ part = "policy" => PolicyInv
    /\ part = "writers" => WritersInv
    /\ part = "install" => InstallInv
    /\ part = "removal" => RemovalInv

\* Every behaviour begins in it.
LEMMA StoresStart ==
    ASSUME Init
    PROVE  StoresInv
  BY PartStarts, ProfileStarts, BindingStarts, MarksStarts, VisitsStarts, RulesStarts,
     PolicyStarts, WritersStarts, InstallStarts, RemovalStarts DEF StoresInv

\* Every step stays in it.
LEMMA StoresStep ==
    ASSUME StoresInv, [Next]_vars
    PROVE  StoresInv'
<1>1. part' = part
  BY PartSteps
<1>2. part = "profiles" => ProfileInv'
  BY PartSteps, ProfileSteps DEF StoresInv
<1>3. part = "binding" => BindingInv'
  BY PartSteps, BindingSteps DEF StoresInv
<1>4. part = "marks" => MarksInv'
  BY PartSteps, MarksSteps DEF StoresInv
<1>5. part = "visits" => VisitsInv'
  BY PartSteps, VisitsSteps DEF StoresInv
<1>6. part = "rules" => RulesInv'
  BY PartSteps, RulesSteps DEF StoresInv
<1>7. part = "policy" => PolicyInv'
  BY PartSteps, PolicySteps DEF StoresInv
<1>8. part = "writers" => WritersInv'
  BY PartSteps, WritersSteps DEF StoresInv
<1>9. part = "install" => InstallInv'
  BY PartSteps, InstallSteps DEF StoresInv
<1>10. part = "removal" => RemovalInv'
  BY PartSteps, RemovalSteps DEF StoresInv
<1> QED
  BY <1>1, <1>2, <1>3, <1>4, <1>5, <1>6, <1>7, <1>8, <1>9, <1>10 DEF StoresInv

\* A behaviour of the suite keeps the inductive invariant of its component.
THEOREM StoresInvariant == Spec => []StoresInv
  BY StoresStart, StoresStep, PTL DEF Spec

\* What was acknowledged is kept, for every number of profiles, keys, bookmarks and
\* faults: profiles through crashes and damage, bookmarks through writes that fail
\* (profiles.go, bookmarks.go).
THEOREM AcknowledgedStaysKept == Spec => []AcknowledgedIsKept
<1>1. StoresInv => AcknowledgedIsKept
  BY ProfileImplies, MarksImplies DEF StoresInv, AcknowledgedIsKept
<1> QED
  BY <1>1, StoresInvariant, PTL

\* The settings in effect are canonical, every panel accepts them, the shares of a rate
\* stay within it, and the window shows what the store has (settings.go).
THEOREM SettingsAlwaysAgree == Spec => []SettingsAgree
<1>1. StoresInv => SettingsAgree
  BY RulesPromises, PolicyPromises DEF StoresInv, SettingsAgree, WritersInv
<1> QED
  BY <1>1, StoresInvariant, PTL

\* A secret, a pin and the rows of a bookmark stay with the account they were given for,
\* whatever sites, hosts, keys and accounts there are (profiles.go, bookmarks.go).
THEOREM SecretsStayWithTheirAccount == Spec => []SecretsBelong
<1>1. StoresInv => SecretsBelong
  BY BindingImplies DEF StoresInv, SecretsBelong, VisitsInv
<1> QED
  BY <1>1, StoresInvariant, PTL

\* Setup installs the whole program or leaves what was there, through any number of
\* faults, crashes and other programs (transaction.go); a removal begins at the
\* registration and leaves no shortcut unreported (integrated_uninstall_windows.go).
THEOREM InstallationIsWhole == Spec => []RollbackRestores
<1>1. StoresInv => RollbackRestores
  BY InstallImplies DEF StoresInv, RollbackRestores, RemovalInv
<1> QED
  BY <1>1, StoresInvariant, PTL

\* Every write of a store is the change that was asked for (profiles.go, bookmarks.go,
\* settings.go).
THEOREM WritesChangeOne == Spec => WritesOneChange
<1> DEFINE Step ==
        /\ part = "profiles" => Profile!UnreadableIsKeptStep
        /\ part = "marks" => Marks!OneChangeStep
        /\ part = "rules" => Rules!AcceptedIsStoredStep
        /\ part = "policy" => Policy!OnlyTouchedStep /\ Policy!AcceptedIsStoredStep
        /\ part = "writers" => Writers!InEffectIsOnDiskStep /\ Writers!NoStaleWriteStep
        /\ part = "sites" => SiteWriters!InEffectIsOnDiskStep
<1>1. ASSUME StoresInv, Next
      PROVE  Step
  <2>1. part = "profiles" => Profile!UnreadableIsKeptStep
    BY <1>1, PartMoves, ProfileSteps DEF StoresInv
  <2>2. part = "marks" => Marks!OneChangeStep
    BY <1>1, PartMoves, MarksSteps DEF StoresInv
  <2>3. part = "rules" => Rules!AcceptedIsStoredStep
    BY <1>1, PartMoves, RulesSteps DEF StoresInv
  <2>4. part = "policy" => Policy!OnlyTouchedStep /\ Policy!AcceptedIsStoredStep
    BY <1>1, PartMoves, PolicySteps DEF StoresInv
  <2>5. part = "writers" => Writers!InEffectIsOnDiskStep /\ Writers!NoStaleWriteStep
    BY <1>1, PartMoves, WritersSteps DEF StoresInv
  <2>6. part = "sites" => SiteWriters!InEffectIsOnDiskStep
    BY <1>1, PartMoves, ManagerStoresFirst
  <2> QED
    BY <2>1, <2>2, <2>3, <2>4, <2>5, <2>6
<1>2. StoresInv /\ [Next]_vars => [Step]_vars
  BY <1>1
<1>3. []StoresInv /\ [][Next]_vars => [][Step]_vars
  BY <1>2, PTL
<1> QED
  BY <1>3, StoresInvariant, PTL DEF Spec, WritesOneChange

\* Setup never leaves the path of a program empty and spares what it has not seen;
\* removal takes a shortcut only as it was recorded, and deletes only the program
\* (transaction.go, integrated_uninstall_windows.go).
THEOREM OnlyTheProgramChanges == Spec => OnlyTheProgram
<1> DEFINE Step ==
        /\ part = "install" => Install!ProgramStaysStep /\ Install!OthersKeptStep
        /\ part = "removal" => Removal!OnlyRecordedLinksStep /\ Removal!OnlyTheProgramStep
<1>1. ASSUME StoresInv, Next
      PROVE  Step
  <2>1. part = "install" => Install!ProgramStaysStep /\ Install!OthersKeptStep
    BY <1>1, PartMoves, InstallSteps DEF StoresInv
  <2>2. part = "removal" => Removal!OnlyRecordedLinksStep /\ Removal!OnlyTheProgramStep
    BY <1>1, PartMoves, RemovalSteps DEF StoresInv
  <2> QED
    BY <2>1, <2>2
<1>2. StoresInv /\ [Next]_vars => [Step]_vars
  BY <1>1
<1>3. []StoresInv /\ [][Next]_vars => [][Step]_vars
  BY <1>2, PTL
<1> QED
  BY <1>3, StoresInvariant, PTL DEF Spec, OnlyTheProgram
=============================================================================
