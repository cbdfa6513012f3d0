------------------------------ MODULE SftpSession ------------------------------
(***************************************************************************)
(* internal/remote/sftp.go: what an SFTP session keeps on disk for the     *)
(* OpenSSH programs - the server's accepted key, a private copy of the     *)
(* user's key and a configuration - from Connect in manager.go, which      *)
(* creates it, to Close.                                                   *)
(*                                                                         *)
(* SessionManager has the rest of Connect and Disconnect.  Here an attempt *)
(* to connect is one call after another under opMu; a disconnect that      *)
(* times out leaves its session closing while commands still run in it.    *)
(* A file that cannot be removed stays until a later sweep.                *)
(***************************************************************************)
EXTENDS Naturals, FiniteSets

CONSTANTS Sessions,   \* attempts to connect, in any order (bound)
          HostKeys,   \* keys the server, or somebody in its place, may show
          Rank,       \* how ScanFingerprint prefers their algorithms
          NoKey, None,
          Sweeps      \* stale files are removed before a connection: on Windows

\* What every instance has to satisfy.
SftpAssumption ==
    /\ Sweeps \in BOOLEAN /\ Rank \in [HostKeys -> Nat]
    /\ NoKey \notin HostKeys /\ None \notin Sessions

Kinds == {"known", "key", "config"}

VARIABLES
    disk,      \* the files: a set of <<kind, session>>
    known,     \* the host key in each session's known-hosts file
    pinned,    \* the key the user has accepted or saved, if any
    pc, now,   \* the connection under way and its session
    scanned,   \* the key it has scanned
    live,      \* the attached session
    closing,   \* a detached session whose commands have not ended
    used,      \* sessions an attempt was made for
    stale,     \* history: files whose owner died or could not remove them
    reached    \* history: <<session, key>> of the servers commands were run on

vars == <<disk, known, pinned, pc, now, scanned, live, closing, used, stale, reached>>

Init ==
    /\ disk = {} /\ known = [s \in Sessions |-> NoKey] /\ pinned \in HostKeys \cup {NoKey}
    /\ pc = "idle" /\ now = None /\ scanned = NoKey /\ live = None /\ closing = None
    /\ used = {} /\ stale = {} /\ reached = {}

Own(s) == {<<k, s>> : k \in Kinds}

\* Files of S are removed; a removal that fails leaves its file behind.
Remove(S) ==
    \E left \in SUBSET (S \cap disk) :
        /\ disk' = (disk \ S) \cup left
        /\ stale' = (stale \ S) \cup left

\* Connect is refused while a session is attached or closing; otherwise
\* cleanupStaleSFTPArtifacts removes what others left.
Connect(s) ==
    /\ pc = "idle" /\ s \notin used /\ live = None /\ closing = None
    /\ IF Sweeps THEN Remove(disk) ELSE UNCHANGED <<disk, stale>>
    /\ pc' = "scan" /\ now' = s /\ used' = used \cup {s}
    /\ UNCHANGED <<known, pinned, scanned, live, closing, reached>>

ConnectEnds == pc' = "idle" /\ now' = None /\ scanned' = NoKey

\* ScanFingerprint takes the first key with the best algorithm of those shown, in
\* the order the server chose.
Selected(shown) == {k \in shown : \A l \in shown : Rank[l] <= Rank[k]}

\* The key must be the pinned one; without one the user is asked and the
\* connection is made again with the answer.
Scan(shown) ==
    /\ pc = "scan"
    /\ \E k \in Selected(shown) :
       \/ pinned = k /\ scanned' = k /\ pc' = "known" /\ UNCHANGED <<pinned, now>>
       \/ pinned = NoKey /\ ConnectEnds /\ pinned' \in {k, NoKey}
       \/ pinned # k /\ pinned # NoKey /\ ConnectEnds /\ UNCHANGED pinned
    /\ UNCHANGED <<disk, known, live, closing, used, stale, reached>>

\* writePrivateTempFile: a file that could not be written is removed again.
WriteFile(kind, next) ==
    /\ disk' = disk \cup {<<kind, now>>} /\ pc' = next
    /\ UNCHANGED <<now, scanned, stale>>

\* Mutant: a failed construction leaves the copy of the user's key.
GiveUpKeepingKey ==
    /\ Remove(Own(now) \ {<<"key", now>>}) /\ ConnectEnds

\* The construction fails: its files are removed and the call ends.
GiveUp == Remove(Own(now)) /\ ConnectEnds

\* The accepted key is written for the session ...
WriteKnown ==
    /\ pc = "known"
    /\ \/ WriteFile("known", "key") /\ known' = [known EXCEPT ![now] = scanned]
       \/ GiveUp /\ UNCHANGED known
    /\ UNCHANGED <<pinned, live, closing, used, reached>>

\* ... snapshotPrivateKey copies the user's key unless it changes meanwhile ...
CopyKey ==
    /\ pc = "key"
    /\ \/ WriteFile("key", "config")
       \/ pc' = "config" /\ UNCHANGED <<disk, stale, now, scanned>>
       \/ GiveUp
    /\ UNCHANGED <<known, pinned, live, closing, used, reached>>

\* ... and createSSHSessionConfig writes a configuration that names both.
WriteConfig ==
    /\ pc = "config"
    /\ WriteFile("config", "probe") \/ GiveUp
    /\ UNCHANGED <<known, pinned, live, closing, used, reached>>

\* A command reaches a server only if it shows the key of the session's
\* known-hosts file (StrictHostKeyChecking): run, as OpenSSH carries it out.
Reaches(s, k) == <<"known", s>> \in disk /\ <<"config", s>> \in disk /\ known[s] = k

Probe(k) ==
    /\ pc = "probe"
    /\ \/ Reaches(now, k) /\ reached' = reached \cup {<<now, k>>}
          /\ live' = now /\ ConnectEnds /\ UNCHANGED <<disk, stale>>
       \/ GiveUp /\ UNCHANGED <<live, reached>>
    /\ UNCHANGED <<known, pinned, closing, used>>

Command(s, k) ==
    /\ s \in {live, closing} \ {None} /\ Reaches(s, k)
    /\ reached' = reached \cup {<<s, k>>}
    /\ UNCHANGED <<disk, known, pinned, pc, now, scanned, live, closing, used, stale>>

\* Disconnect detaches the session; its commands may still run.
Detach ==
    /\ pc = "idle" /\ live # None
    /\ closing' = live /\ live' = None
    /\ UNCHANGED <<disk, known, pinned, pc, now, scanned, used, stale, reached>>

\* Close, when they have ended.
Close ==
    /\ closing # None /\ Remove(Own(closing)) /\ closing' = None
    /\ UNCHANGED <<known, pinned, pc, now, scanned, live, used, reached>>

\* The client is killed.
Kill ==
    /\ stale' = disk /\ ConnectEnds /\ live' = None /\ closing' = None
    /\ UNCHANGED <<disk, known, pinned, used, reached>>

Next ==
    \/ \E s \in Sessions : Connect(s)
    \/ \E shown \in SUBSET HostKeys : Scan(shown)
    \/ WriteKnown \/ CopyKey \/ WriteConfig \/ Detach \/ Close \/ Kill
    \/ \E k \in HostKeys : Probe(k) \/ \E s \in Sessions : Command(s, k)

Spec == Init /\ [][Next]_vars

-----------------------------------------------------------------------------
(* Properties *)

\* The bookkeeping of the one connection and the one session.
TypeOK ==
    /\ disk \subseteq UNION {Own(s) : s \in Sessions} /\ stale \subseteq disk
    /\ known \in [Sessions -> HostKeys \cup {NoKey}] /\ pinned \in HostKeys \cup {NoKey}
    /\ pc \in {"idle", "scan", "known", "key", "config", "probe"}
    /\ pc = "idle" <=> now = None
    /\ {live, closing, now} \subseteq used \cup {None} /\ used \subseteq Sessions
    /\ Cardinality({live, closing, now} \ {None}) <= 1
    /\ scanned \in HostKeys \cup {NoKey}
    /\ reached \subseteq Sessions \X HostKeys

\* Every file belongs to the session in use or to the one being built, or it
\* is one that a killed client or a failed removal left: no path of the
\* construction forgets the copy of the user's key.
FilesAreOwned ==
    disk \ stale \subseteq UNION {Own(s) : s \in {live, closing, now} \cap Sessions}

\* A session in use keeps the files its commands need, also while it closes
\* and the user already tries to connect again.
LiveHasItsFiles ==
    \A s \in {live, closing} \cap Sessions : {<<"known", s>>, <<"config", s>>} \subseteq disk

\* Commands reach only servers that show the key the user has accepted.
OnlyAcceptedServer == \A r \in reached : r[2] = pinned
=============================================================================
