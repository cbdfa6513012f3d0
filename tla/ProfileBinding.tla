----------------------------- MODULE ProfileBinding -----------------------------
(***************************************************************************)
(* What a saved site may keep when it is edited: Save, Remove and          *)
(* UpdateFingerprint of internal/config/profiles.go with the rules of      *)
(* internal/profilebinding, the bundles of internal/api/profile_bundle.go, *)
(* and what Connect of internal/remote/manager.go takes from the site and  *)
(* writes back to it.                                                      *)
(*                                                                         *)
(* A stored secret or start path is the account, and the key, it was typed *)
(* for (None: no secret, the default path); a pin is the endpoint it was   *)
(* seen at and the key shown there.  The desktop locks editing while it    *)
(* connects; cancelling unlocks it although the call goes on.  The file    *)
(* that keeps the sites is ProfileStore's matter: a saveAll that fails     *)
(* changes nothing here.                                                   *)
(***************************************************************************)
EXTENDS Naturals, FiniteSets

CONSTANTS Ids,         \* identities of saved sites (bound)
          Hosts,       \* ways to write host and port
          Canon,       \* EndpointKey: the endpoint each of them means
          Users, Keys, HostKeys, None,
          Drafts,      \* what the window's fields may hold
          Forms        \* how <<path, password, passphrase>> are entered

Protocols == {"ftp", "sftp"}

\* What every instance has to satisfy.
BindingAssumption ==
    /\ Canon \in [Hosts -> Hosts]
    /\ Drafts \subseteq [protocol : Protocols, host : Hosts, user : Users, key : Keys \cup {None}]
    /\ None \notin UNION {Ids, Hosts, Users, Keys, HostKeys}
    /\ Forms \subseteq {"typed", "kept"} \X {"typed", "kept", "cleared"}
                                            \X {"typed", "kept", "cleared"}

VARIABLES
    saved,      \* the sites by identity, None where there is none
    locked,     \* the desktop refuses to edit sites: connectionBusy, busy
    pc,         \* of Connect: "idle", "resolved", "scanned"
    call,       \* its configuration, profile copy, trusted key
    shown,      \* the key it has scanned
    asked,      \* the key the user is asked to trust
    session     \* account, key, secrets and server key in use

vars == <<saved, locked, pc, call, shown, asked, session>>

Endpoint(p) == <<p.protocol, Canon[p.host]>>
Account(p) == <<p.protocol, Canon[p.host], p.user>>
SameAccount(p, q) == Account(p) = Account(q)

\* PrivateKeyMatches: never without a key.
SamePrivateKey(p, q) == SameAccount(p, q) /\ p.key = q.key /\ p.key # None

\* Only SFTP has one.
KeyOf(in) == IF in.protocol = "sftp" THEN in.key ELSE None

NoSite == [path |-> None, password |-> None, passphrase |-> None, pin |-> None]

\* Save of the fields in over the site old (None for a new one).  The path
\* and the secrets are typed, kept or cleared; a kept path is the one shown.
Written(old, in, path, password, passphrase, requested) ==
    LET new == old = None
        kept == IF new THEN NoSite ELSE old
        same == ~new /\ SameAccount(old, in)
        sameKey == ~new /\ SamePrivateKey(old, in)
        sftp == in.protocol = "sftp"
        Choice(how, typed, may, was) ==
            IF how = "typed" THEN typed ELSE IF how = "kept" /\ may THEN was ELSE None
    IN [protocol |-> in.protocol, host |-> in.host, user |-> in.user, key |-> KeyOf(in),
        path |-> Choice(path, Account(in), same, kept.path),
        password |-> Choice(password, Account(in), same, kept.password),
        passphrase |-> IF KeyOf(in) = None THEN None
                       ELSE Choice(passphrase, <<Account(in), in.key>>, sameKey, kept.passphrase),
        pin |-> CASE ~sftp -> None
                  [] sftp /\ requested # None -> [endpoint |-> Endpoint(in), key |-> requested]
                  [] OTHER -> IF ~new /\ Endpoint(old) = Endpoint(in) THEN kept.pin ELSE None]

Init ==
    /\ saved = [i \in Ids |-> None] /\ locked = FALSE
    /\ pc = "idle" /\ call = None /\ shown = None /\ asked = None /\ session = None

Live == {i \in Ids : saved[i] # None}

\* Mutant: the stored password survives any edit of the site.
SaveKeepingPassword(i, in, path, password, passphrase, requested) ==
    /\ ~locked
    /\ saved' = [saved EXCEPT ![i] =
          [Written(@, in, path, password, passphrase, requested) EXCEPT
              !.password = IF password = "kept" /\ saved[i] # None THEN saved[i].password ELSE @]]
    /\ UNCHANGED <<locked, pc, call, shown, asked, session>>

\* Save: a passphrase needs a key to unlock.
Save(i, in, path, password, passphrase, requested) ==
    /\ ~locked
    /\ ~(in.protocol = "sftp" /\ in.key = None /\ passphrase = "typed")
    /\ saved' = [saved EXCEPT ![i] = Written(@, in, path, password, passphrase, requested)]
    /\ UNCHANGED <<locked, pc, call, shown, asked, session>>

Remove(i) ==
    /\ ~locked /\ i \in Live
    /\ saved' = [saved EXCEPT ![i] = None]
    /\ UNCHANGED <<locked, pc, call, shown, asked, session>>

\* What an exported site is: no secret and no pin.
Exported(p) == [protocol |-> p.protocol, host |-> p.host, user |-> p.user,
                key |-> p.key, path |-> p.path]

\* sameImportedProfile: everything but the key file and the secrets.
SameImported(p, q) ==
    p.protocol = q.protocol /\ p.host = q.host /\ p.user = q.user /\ p.path = q.path

\* ImportProfiles saves the sites of a bundle one by one, each as a new site
\* unless the same one is there; a failing Save ends it, what came before stays.
Import(in, path, i) ==
    /\ ~locked /\ i \notin Live
    /\ LET new == Written(None, in, path, "kept", "kept", None)
       IN /\ ~\E j \in Live : SameImported(Exported(saved[j]), Exported(new))
          /\ saved' = [saved EXCEPT ![i] = new]
    /\ UNCHANGED <<locked, pc, call, shown, asked, session>>

\* Connect: refused while there is a session; Resolve reads the site (or
\* none: i = None) and takes the fields the window shows.
Connect(i, cfg, trust) ==
    /\ pc = "idle" /\ ~locked /\ session = None /\ i \in Live \cup {None}
    /\ trust \in {None, asked}
    /\ pc' = "resolved" /\ locked' = TRUE /\ asked' = None
    /\ call' = [id |-> i, cfg |-> cfg, site |-> IF i = None THEN None ELSE saved[i], trust |-> trust]
    /\ UNCHANGED <<saved, shown, session>>

\* The stored password and passphrase that Resolve lets the connection use.
PasswordFor(site, cfg) ==
    IF site # None /\ SameAccount(site, cfg) THEN site.password ELSE None
PassphraseFor(site, cfg) ==
    IF site # None /\ SamePrivateKey(site, cfg) /\ cfg.protocol = "sftp" THEN site.passphrase ELSE None

PinnedEndpoint == call.site # None /\ Endpoint(call.site) = Endpoint(call.cfg)

\* ScanFingerprint: the key the server shows.
Scan(k) ==
    /\ pc = "resolved" /\ call.cfg.protocol = "sftp"
    /\ pc' = "scanned" /\ shown' = k
    /\ UNCHANGED <<saved, locked, call, asked, session>>

\* Connect returns without a session; the desktop, unless the user has
\* cancelled, shows it and edits again.
Return == pc' = "idle" /\ call' = None /\ shown' = None /\ locked' = FALSE

Fails ==
    /\ pc # "idle" /\ Return /\ UNCHANGED <<saved, asked, session>>

Expected == IF PinnedEndpoint /\ call.site.pin # None THEN call.site.pin.key ELSE None

\* No pin and no trust yet: the user is asked.
AskTrust ==
    /\ pc = "scanned" /\ Expected = None /\ call.trust = None
    /\ Return /\ asked' = shown
    /\ UNCHANGED <<saved, session>>

Attach ==
    /\ session' = [account |-> Account(call.cfg), key |-> call.cfg.key, server |-> shown,
                   known |-> Expected,
                   password |-> PasswordFor(call.site, call.cfg),
                   passphrase |-> PassphraseFor(call.site, call.cfg)]
    /\ pc' = "idle" /\ call' = None /\ shown' = None /\ locked' = FALSE

AttachFtp ==
    /\ pc = "resolved" /\ call.cfg.protocol = "ftp" /\ Attach
    /\ UNCHANGED <<saved, asked>>

\* Mutant: the pin of the site is not compared with the key shown.
AcceptUnpinned ==
    /\ pc = "scanned"
    /\ call.trust \in {None, shown}
    /\ Attach /\ UNCHANGED <<saved, asked>>

\* The key shown is the expected or the trusted one.  UpdateFingerprint
\* writes it to the site by its identity when the site was for this endpoint
\* when it was read; the network is between the two.
Accept ==
    /\ pc = "scanned"
    /\ Expected \in {None, shown} /\ call.trust \in {None, shown}
    /\ {Expected, call.trust} # {None}
    /\ IF call.trust # None /\ PinnedEndpoint
       THEN /\ call.id \in Live /\ saved[call.id].protocol = "sftp"
            /\ saved' = [saved EXCEPT ![call.id].pin =
                            [endpoint |-> Endpoint(call.cfg), key |-> shown]]
       ELSE UNCHANGED saved
    /\ Attach /\ UNCHANGED <<asked>>

\* The user cancels the attempt: the window can edit sites, the call goes on.
Cancel ==
    /\ pc # "idle" /\ locked /\ locked' = FALSE
    /\ UNCHANGED <<saved, pc, call, shown, asked, session>>

Disconnect ==
    /\ session # None /\ session' = None
    /\ UNCHANGED <<saved, locked, pc, call, shown, asked>>

Next ==
    \/ Fails \/ AskTrust \/ AttachFtp \/ Accept \/ Cancel \/ Disconnect
    \/ \E i \in Ids :
          \/ Remove(i)
          \/ \E in \in Drafts, how \in Forms, h \in HostKeys \cup {None} :
                Save(i, in, how[1], how[2], how[3], h)
          \/ \E in \in Drafts, path \in {"typed", "kept"} : Import(in, path, i)
    \/ \E i \in Ids \cup {None}, cfg \in Drafts, t \in HostKeys \cup {None} : Connect(i, cfg, t)
    \/ \E k \in HostKeys : Scan(k)

Spec == Init /\ [][Next]_vars

-----------------------------------------------------------------------------
(* Properties *)

\* Only an SFTP site has a key, a passphrase or a pin.
TypeOK ==
    /\ pc \in {"idle", "resolved", "scanned"} /\ locked \in BOOLEAN
    /\ asked \in HostKeys \cup {None}
    /\ \A i \in Live :
          /\ saved[i].protocol \in Protocols /\ saved[i].host \in Hosts
          /\ saved[i].protocol = "ftp" =>
                saved[i].key = None /\ saved[i].passphrase = None /\ saved[i].pin = None

\* After any edits, a stored password is the one typed for the account the
\* site now names, a passphrase the one typed for its account and key, and a
\* start path one of that account.
SecretsBelong ==
    \A i \in Live :
        /\ saved[i].password \in {None, Account(saved[i])}
        /\ saved[i].path \in {None, Account(saved[i])}
        /\ saved[i].passphrase \in {None, <<Account(saved[i]), saved[i].key>>}

\* A connection uses only secrets typed for the account and key it logs in
\* with, although the window's fields replace those of the chosen site.
OwnSecretsOnly ==
    session # None =>
        /\ session.password \in {None, session.account}
        /\ session.passphrase \in {None, <<session.account, session.key>>}

\* A server that shows another key than the site's pin is never used.
PinHolds == session # None => session.known \in {None, session.server}

\* The comment in Save: a pin belongs to an endpoint; it is that of the
\* endpoint the site now names.
\* The code does not keep it: see "Disagreements found" in the README.
PinBelongsToEndpoint ==
    \A i \in Live : saved[i].pin # None => saved[i].pin.endpoint = Endpoint(saved[i])
=============================================================================
