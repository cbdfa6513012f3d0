------------------------------ MODULE SecretBroker ------------------------------
(***************************************************************************)
(* The secrets of running sessions on Linux.  An SFTP session keeps its    *)
(* password and passphrase in the broker of internal/security/             *)
(* dpapi_other.go, behind a socket and with an expiry; ssh gets them from  *)
(* an AskPass helper (cmd/ghostftp/main.go), which asks the broker.  An    *)
(* FTP session keeps its password in runtime_secret_other.go, in memory    *)
(* and without an expiry.                                                  *)
(*                                                                         *)
(* Clock ticks divide linuxSecretTTL; a helper's own deadlines are far     *)
(* shorter than a tick and appear as TimesOut.                             *)
(***************************************************************************)
EXTENDS Naturals, FiniteSets

CONSTANTS Sftp, Ftp,  \* the sessions of each transport (bound)
          Helpers,    \* AskPass processes (bound)
          Tokens,     \* random tokens, drawn once each (bound)
          TTL,        \* linuxSecretTTL in ticks
          Limit,      \* runtimeSecretLimit
          NoToken

\* What every instance has to satisfy.
BrokerAssumption ==
    /\ TTL \in Nat \ {0} /\ Limit \in Nat \ {0}
    /\ NoToken \notin Tokens /\ Sftp \cap Ftp = {}

Kinds == {"password", "passphrase"}
Words == {"password", "passphrase", "code"}  \* "code": any of isBlockedAskpassPrompt

VARIABLES
    trusted,   \* StableAskPassExecutable found a path ssh may run
    listening, \* linuxSecretBroker.listener # nil
    left,      \* the entries, with the ticks left to each; past 0 it is expired
    values,    \* runtimeValues.values
    drawn,     \* history: tokens that were drawn
    pc,        \* what each session is doing
    want,      \* the kinds of secret it was given
    blob,      \* the handles it owns
    since,     \* history: ticks since the session began to be built, or since the
               \*   last prompt that was answered came up
    helper     \* the AskPass processes

vars == <<trusted, listening, left, values, drawn, pc, want, blob, since, helper>>

Sessions == Sftp \cup Ftp
Idle == [at |-> "idle", for |-> CHOOSE s \in Sessions : TRUE, words |-> {},
         blob |-> [k \in Kinds |-> NoToken], got |-> {}, answer |-> "none", age |-> 0]

Init ==
    /\ trusted \in BOOLEAN
    /\ listening = FALSE
    /\ left = [t \in {} |-> 0] /\ values = {} /\ drawn = {}
    /\ pc = [s \in Sessions |-> "none"]
    /\ want = [s \in Sessions |-> {}]
    /\ blob = [s \in Sessions |-> [k \in Kinds |-> NoToken]]
    /\ since = [s \in Sessions |-> 0]
    /\ helper = [h \in Helpers |-> Idle]

-----------------------------------------------------------------------------
(* The stores *)

\* purgeExpiredLinuxSecretsLocked
Purged == [t \in {u \in DOMAIN left : left[u] > 0} |-> left[t]]

\* ForgetProtectedSecret of the handles in H; those the broker does not know
\* are ignored.
ForgetProtected(H) == left' = [t \in DOMAIN left \ H |-> left[t]]

Fresh == CHOOSE t \in Tokens : t \notin drawn

\* ProtectBytes: the broker starts with the first secret, and takes a new
\* entry when the live ones leave room.
HasRoom(entries) == Cardinality(DOMAIN entries) < Limit

Protect ==
    /\ Tokens # drawn
    /\ HasRoom(Purged)
    /\ left' = [u \in DOMAIN Purged \cup {Fresh} |-> IF u = Fresh THEN TTL + 1 ELSE left[u]]
    /\ drawn' = drawn \cup {Fresh} /\ listening' = TRUE

-----------------------------------------------------------------------------
(* Sessions *)

\* newSFTPWithProtectedSecrets or newCurlFTPWithProtectedSecret is called with
\* secrets of kinds K.
Build(s, K) ==
    /\ pc[s] = "none"
    /\ s \in Ftp => K = {"password"}
    /\ pc' = [pc EXCEPT ![s] = "password"]
    /\ want' = [want EXCEPT ![s] = K]
    /\ UNCHANGED <<trusted, listening, left, values, drawn, blob, since, helper>>

NextKind == [password |-> "passphrase", passphrase |-> "files"]

\* One of the two secrets of an SFTP session goes to the broker.
ProtectFor(s, k) ==
    /\ s \in Sftp /\ pc[s] = k
    /\ IF k \in want[s]
       THEN Protect /\ blob' = [blob EXCEPT ![s][k] = Fresh]
       ELSE UNCHANGED <<left, drawn, listening, blob>>
    /\ pc' = [pc EXCEPT ![s] = NextKind[k]]
    /\ UNCHANGED <<trusted, values, want, since, helper>>

OwnedBy(s) == {blob[s][k] : k \in Kinds} \ {NoToken}

\* forgetOwnedSecrets: the private directory of the socket, a token, the copy of
\* the key or the session's ssh configuration cannot be made.
BuildFails(s) ==
    /\ s \in Sftp /\ pc[s] \in Kinds \cup {"files"}
    /\ pc' = [pc EXCEPT ![s] = "closed"]
    /\ ForgetProtected(OwnedBy(s))
    /\ blob' = [blob EXCEPT ![s] = [k \in Kinds |-> NoToken]]
    /\ UNCHANGED <<trusted, listening, values, drawn, want, since, helper>>

\* ProtectBytes refuses: every place is taken.
BuildRefused(s) ==
    /\ s \in Sftp /\ pc[s] \in Kinds /\ pc[s] \in want[s]
    /\ ~HasRoom(Purged)
    /\ pc' = [pc EXCEPT ![s] = "refused"]
    /\ left' = [t \in DOMAIN Purged \ OwnedBy(s) |-> left[t]]
    /\ blob' = [blob EXCEPT ![s] = [k \in Kinds |-> NoToken]]
    /\ UNCHANGED <<trusted, listening, values, drawn, want, since, helper>>

Opened(s) ==
    /\ s \in Sftp /\ pc[s] = "files"
    /\ pc' = [pc EXCEPT ![s] = "open"]
    /\ UNCHANGED <<trusted, listening, left, values, drawn, want, blob, since, helper>>

\* ProtectRuntimeString, and the session around it.
OpenFtp(s) ==
    /\ s \in Ftp /\ pc[s] = "password"
    /\ Tokens # drawn
    /\ drawn' = drawn \cup {Fresh}
    /\ IF Cardinality(values) < Limit
       THEN /\ values' = values \cup {Fresh}
            /\ blob' = [blob EXCEPT ![s]["password"] = Fresh]
            /\ pc' = [pc EXCEPT ![s] = "open"]
       ELSE pc' = [pc EXCEPT ![s] = "refused"] /\ UNCHANGED <<values, blob>>
    /\ UNCHANGED <<trusted, listening, left, want, since, helper>>

\* SFTP.Close
CloseSftp(s) ==
    /\ s \in Sftp /\ pc[s] = "open"
    /\ pc' = [pc EXCEPT ![s] = "closed"]
    /\ ForgetProtected(OwnedBy(s))
    /\ blob' = [blob EXCEPT ![s] = [k \in Kinds |-> NoToken]]
    /\ UNCHANGED <<trusted, listening, values, drawn, want, since, helper>>

\* CurlFTP.Close
CloseFtp(s) ==
    /\ s \in Ftp /\ pc[s] = "open"
    /\ pc' = [pc EXCEPT ![s] = "closed"]
    /\ values' = values \ OwnedBy(s)
    /\ blob' = [blob EXCEPT ![s] = [k \in Kinds |-> NoToken]]
    /\ UNCHANGED <<trusted, listening, left, drawn, want, since, helper>>

-----------------------------------------------------------------------------
(* AskPass *)

\* A command of an open session starts ssh with the session's handles in the
\* environment, and ssh starts the helper.  Without a path ssh can be given, a
\* session with secrets starts nothing (askpassEnvironment).
Asks(h, s) ==
    /\ helper[h].at = "idle"
    /\ s \in Sftp /\ pc[s] = "open" /\ OwnedBy(s) # {} /\ trusted
    /\ helper' = [helper EXCEPT ![h] = [Idle EXCEPT !.at = "password", !.for = s,
                                        !.blob = blob[s]]]
    /\ UNCHANGED <<trusted, listening, left, values, drawn, pc, want, blob, since>>

\* handleLinuxSecretRequest knows the token: it copies the secret and prolongs
\* the entry, and UnprotectBytes returns it.
Served(h, k) ==
    /\ helper[h].at = k /\ helper[h].blob[k] \in DOMAIN Purged
    /\ left' = [Purged EXCEPT ![helper[h].blob[k]] = TTL + 1]
    /\ helper' = [helper EXCEPT ![h].at = NextKind[k], ![h].got = @ \cup {k}]
    /\ UNCHANGED <<trusted, listening, values, drawn, pc, want, blob, since>>

\* The session has no such secret: nothing is asked for.
NotAsked(h, k) ==
    /\ helper[h].at = k /\ helper[h].blob[k] = NoToken
    /\ helper' = [helper EXCEPT ![h].at = NextKind[k]]
    /\ UNCHANGED <<trusted, listening, left, values, drawn, pc, want, blob, since>>

\* The token is not known (any more): the helper gives up, also when the prompt
\* was for the other secret.
Unknown(h, k) ==
    /\ helper[h].at = k /\ helper[h].blob[k] \notin DOMAIN Purged \cup {NoToken}
    /\ left' = Purged
    /\ helper' = [helper EXCEPT ![h] = [Idle EXCEPT !.at = "failed"]]
    /\ UNCHANGED <<trusted, listening, values, drawn, pc, want, blob, since>>

\* The dial or the exchange meets its deadline.
TimesOut(h) ==
    /\ helper[h].at \in Kinds
    /\ helper' = [helper EXCEPT ![h] = [Idle EXCEPT !.at = "failed"]]
    /\ UNCHANGED <<trusted, listening, left, values, drawn, pc, want, blob, since>>

\* Mutant: a passphrase that was not saved is answered with the password.
selectAskpassSecretAny(words, got) ==
    IF "code" \in words THEN "none"
    ELSE IF "passphrase" \in words /\ "passphrase" \in got THEN "passphrase"
    ELSE IF words # {} /\ "password" \in got THEN "password"
    ELSE "none"

selectAskpassSecret(words, got) ==
    IF "code" \in words THEN "none"
    ELSE IF "passphrase" \in words THEN IF "passphrase" \in got THEN "passphrase" ELSE "none"
    ELSE IF "password" \in words /\ "password" \in got THEN "password"
    ELSE "none"

\* The end of askpassMode, for a prompt with the words in P.
Answers(h, P) ==
    /\ helper[h].at = "files"
    /\ LET a == selectAskpassSecret(P, helper[h].got)
           s == helper[h].for
       IN /\ helper' = [helper EXCEPT ![h] =
                IF a = "none" THEN [Idle EXCEPT !.at = "failed"]
                ELSE [Idle EXCEPT !.at = "done", !.words = P, !.answer = a]]
          /\ since' = [since EXCEPT ![s] = IF a # "none" /\ helper[h].age < @
                                           THEN helper[h].age ELSE @]
    /\ UNCHANGED <<trusted, listening, left, values, drawn, pc, want, blob>>

Exits(h) ==
    /\ helper[h].at \in {"done", "failed"}
    /\ helper' = [helper EXCEPT ![h] = Idle]
    /\ UNCHANGED <<trusted, listening, left, values, drawn, pc, want, blob, since>>

-----------------------------------------------------------------------------

Up(n) == IF n < TTL + 2 THEN n + 1 ELSE n

Tick ==
    /\ left' = [t \in DOMAIN left |-> IF left[t] > 0 THEN left[t] - 1 ELSE 0]
    /\ since' = [s \in Sessions |-> IF s \in Sftp /\ pc[s] \in Kinds \cup {"files", "open"}
                                 THEN Up(since[s]) ELSE 0]
    /\ helper' = [h \in Helpers |-> IF helper[h].at \in Kinds \cup {"files"}
                                    THEN [helper[h] EXCEPT !.age = Up(@)] ELSE helper[h]]
    /\ UNCHANGED <<trusted, listening, values, drawn, pc, want, blob>>

HelperStep(h) ==
    \/ \E k \in Kinds : Served(h, k) \/ NotAsked(h, k) \/ Unknown(h, k)
    \/ TimesOut(h)
    \/ \E P \in SUBSET Words : Answers(h, P)

Next ==
    \/ \E s \in Sessions :
        \/ \E K \in SUBSET Kinds : Build(s, K)
        \/ \E k \in Kinds : ProtectFor(s, k)
        \/ BuildFails(s) \/ BuildRefused(s) \/ Opened(s)
        \/ OpenFtp(s) \/ CloseSftp(s) \/ CloseFtp(s)
    \/ \E h \in Helpers :
        \/ \E s \in Sftp : Asks(h, s)
        \/ HelperStep(h) \/ Exits(h)
    \/ Tick

Spec == Init /\ [][Next]_vars

-----------------------------------------------------------------------------

TypeOK ==
    /\ trusted \in BOOLEAN /\ listening \in BOOLEAN
    /\ DOMAIN left \subseteq drawn /\ values \subseteq drawn /\ drawn \subseteq Tokens
    /\ \A t \in DOMAIN left : left[t] \in 0..TTL + 1
    /\ pc \in [Sessions -> Kinds \cup {"none", "files", "open", "closed", "refused"}]
    /\ blob \in [Sessions -> [Kinds -> Tokens \cup {NoToken}]]

\* No secret outlives its session: what either store holds belongs to a session
\* that is being built or is open, whichever step of building it failed.
NoLeak ==
    DOMAIN left \cup values \subseteq UNION {OwnedBy(s) : s \in Sessions}

\* A session keeps its secrets as long as it is used: an SFTP session that was
\* built, or had a prompt answered, no longer than the time to live ago still
\* has every secret; an FTP session always has its own.
UsedIsKept ==
    \A s \in Sessions : pc[s] = "open" =>
        /\ s \in Sftp /\ since[s] <= TTL => OwnedBy(s) \subseteq DOMAIN Purged
        /\ s \in Ftp => OwnedBy(s) \subseteq values

\* Neither store ever holds more than its limit.
WithinLimit == Cardinality(DOMAIN left) <= Limit /\ Cardinality(values) <= Limit

\* A helper hands out what the prompt names: never the password for a
\* passphrase, and nothing at all for a code.
AnswersThePrompt ==
    \A h \in Helpers : helper[h].at = "done" =>
        /\ helper[h].answer \in helper[h].words
        /\ "code" \notin helper[h].words
        /\ "passphrase" \in helper[h].words => helper[h].answer = "passphrase"
=============================================================================
