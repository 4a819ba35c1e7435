------------------------------ MODULE UpdateCheck ------------------------------
(***************************************************************************)
(* How an update gets from a release page to the hand-over: the daily      *)
(* check and its thread, the signature and policy of release_manifest.rs,  *)
(* the status on the About card, and the install thread up to the point    *)
(* where Updater takes over.  A release is what the policy looks at; names,*)
(* hashes, URLs and redirects are right or wrong (`sound').  Time is in    *)
(* days; a thread does not stay a day between two of its statements,       *)
(* except in a request.                                                    *)
(***************************************************************************)
EXTENDS Naturals, FiniteSets

CONSTANTS None, NoAnswer,   \* no release, and no answer to the question
          Key, Root,     \* release keys, and the one this build trusts
          Version, Sequence,
          Portable,      \* whether the install channel lets the program update itself
          MaxTime        \* bound

VARIABLES installed,   \* the running build: its version and release sequence
          clock,
          status,      \* STATUS: its kind, and the release it names
          lastCheck,   \* LAST_CHECK, or None
          busy,        \* BUSY
          checker,     \* the threads of maybe_check
          installer    \* the thread of install, or None

vars == <<installed, clock, status, lastCheck, busy, checker, installer>>

Checker == {"c1", "c2"}

Build == [version : Version, sequence : Sequence]

\* What is kept of a verified release.
Release == [version : Version, sequence : Sequence, expires : 0..MaxTime + 1, proved : BOOLEAN]

TypeOK == /\ installed \in Build
          /\ clock \in 0..MaxTime
          /\ status \in [kind : {"UpToDate", "Available", "Installing", "Failed"},
                         release : Release \cup {None}]
          /\ lastCheck \in (0..MaxTime) \cup {None}
          /\ busy \in BOOLEAN
          /\ checker \in [Checker -> [pc : {"none", "fetch", "stamp", "free", "publish", "uptodate"},
                                      found : Release \cup {None, NoAnswer}]]
          /\ installer \in [pc : {"recover", "download", "handover"}, release : Release] \cup {None}

Init == /\ installed \in Build
        /\ clock = 0
        /\ status = [kind |-> "UpToDate", release |-> None]
        /\ lastCheck = None
        /\ busy = FALSE
        /\ checker = [c \in Checker |-> [pc |-> "none", found |-> None]]
        /\ installer = None

-----------------------------------------------------------------------------
\* verify_signatures: exactly one signature of the root, and no other one,
\* except that of a next key that the envelope names and that signs as well.
VerifySignatures(signatures, next, rotation) ==
    /\ Cardinality(signatures) \in 1..2
    /\ Cardinality({s \in signatures : s.key = Root /\ s.valid}) = 1
    /\ IF next = None THEN Cardinality(signatures) = 1
       ELSE /\ rotation
            /\ next # Root
            /\ Cardinality(signatures) = 2
            /\ Cardinality({s \in signatures : s.key = next /\ s.valid}) = 1

\* validate_window, with the clock skew left out: a day is longer.
InWindow(issued, expires) == issued < expires /\ issued <= clock /\ clock < expires

\* validate_manifest.
ValidateManifest(m) == /\ m.sound
                       /\ m.sequence > installed.sequence
                       /\ m.minimum <= installed.version
                       /\ InWindow(m.issued, m.expires)

\* verify_rollback: the authorization is for this step back and no other.
VerifyRollback(proof, m) ==
    /\ proof.signed
    /\ proof.from = installed
    /\ proof.to = [version |-> m.version, sequence |-> m.sequence]
    /\ InWindow(0, proof.expires)

\* verify, with the authorization that fetch_verified_release has asked for
\* only when the version goes back.
Verify(e, m, proof) ==
    /\ VerifySignatures(e.signatures, e.next, TRUE)
    /\ ValidateManifest(m)
    /\ m.version # installed.version
    /\ m.version < installed.version => proof # None /\ VerifyRollback(proof, m)

-----------------------------------------------------------------------------
\* maybe_check, at every tick: no check within a day of the last one, and none
\* while another check or an install runs.
MaybeCheck(c) ==
    /\ checker[c].pc = "none"
    /\ lastCheck # None => clock > lastCheck
    /\ ~busy
    /\ busy' = TRUE
    /\ checker' = [checker EXCEPT ![c].pc = "fetch"]
    /\ UNCHANGED <<installed, clock, status, lastCheck, installer>>

\* check_inner: what it asked for is a verified release, nothing, or an error.
CheckInner(c, e, m, proof) ==
    /\ checker[c].pc = "fetch"
    /\ checker' = [checker EXCEPT ![c] =
         [pc |-> "stamp",
          found |-> IF Verify(e, m, proof)
                    THEN [version |-> m.version, sequence |-> m.sequence, expires |-> m.expires,
                          proved |-> proof # None /\ VerifyRollback(proof, m)]
                    ELSE NoAnswer]]
    /\ UNCHANGED <<installed, clock, status, lastCheck, busy, installer>>

FindNothing(c) ==
    /\ checker[c].pc = "fetch"
    /\ \E found \in {None, NoAnswer} : checker' = [checker EXCEPT ![c] = [pc |-> "stamp", found |-> found]]
    /\ UNCHANGED <<installed, clock, status, lastCheck, busy, installer>>

\* Mutant of StampCheck: the time of the check is not noted.
StampNothing(c) ==
    /\ checker[c].pc = "stamp"
    /\ checker' = [checker EXCEPT ![c].pc = "free"]
    /\ UNCHANGED <<installed, clock, status, lastCheck, busy, installer>>

\* The thread notes the time, frees BUSY, and only then publishes the result.
StampCheck(c) ==
    /\ checker[c].pc = "stamp"
    /\ lastCheck' = clock
    /\ checker' = [checker EXCEPT ![c].pc = "free"]
    /\ UNCHANGED <<installed, clock, status, busy, installer>>

FreeChecker(c) ==
    /\ checker[c].pc = "free"
    /\ busy' = FALSE
    /\ checker' = [checker EXCEPT ![c].pc = "publish"]
    /\ UNCHANGED <<installed, clock, status, lastCheck, installer>>

\* A release is announced; no release is not, if one is known: that is asked
\* first and acted on later.
Publish(c) ==
    /\ checker[c].pc = "publish"
    /\ IF checker[c].found = None /\ status.kind # "Available"
       THEN checker' = [checker EXCEPT ![c].pc = "uptodate"] /\ UNCHANGED status
       ELSE /\ status' = IF checker[c].found \in {None, NoAnswer} THEN status
                         ELSE [kind |-> "Available", release |-> checker[c].found]
            /\ checker' = [checker EXCEPT ![c] = [pc |-> "none", found |-> None]]
    /\ UNCHANGED <<installed, clock, lastCheck, busy, installer>>

PublishUpToDate(c) ==
    /\ checker[c].pc = "uptodate"
    /\ status' = [kind |-> "UpToDate", release |-> None]
    /\ checker' = [checker EXCEPT ![c] = [pc |-> "none", found |-> None]]
    /\ UNCHANGED <<installed, clock, lastCheck, busy, installer>>

-----------------------------------------------------------------------------
\* The user clicks Install.
Install ==
    /\ status.kind = "Available"
    /\ ~busy
    /\ busy' = TRUE
    /\ installer' = [pc |-> "recover", release |-> status.release]
    /\ status' = [kind |-> "Installing", release |-> None]
    /\ UNCHANGED <<installed, clock, lastCheck, checker>>

InstallFails ==
    /\ installer # None
    /\ busy' = FALSE
    /\ installer' = None
    /\ status' = [kind |-> "Failed", release |-> None]
    /\ UNCHANGED <<installed, clock, lastCheck, checker>>

\* install_inner: the channel and the expiry, the download and its hash, and
\* the expiry again, before the hand-over begins.
RecoverFirst ==
    /\ installer # None /\ installer.pc = "recover"
    /\ Portable
    /\ clock < installer.release.expires
    /\ installer' = [installer EXCEPT !.pc = "download"]
    /\ UNCHANGED <<installed, clock, status, lastCheck, busy, checker>>

Download ==
    /\ installer # None /\ installer.pc = "download"
    /\ clock < installer.release.expires
    /\ installer' = [installer EXCEPT !.pc = "handover"]
    /\ UNCHANGED <<installed, clock, status, lastCheck, busy, checker>>

\* The hand-over itself is Updater's; it may be undone there.  The new build
\* starts with everything its process holds empty.
HandOver ==
    /\ installer # None /\ installer.pc = "handover"
    /\ installed' = [version |-> installer.release.version, sequence |-> installer.release.sequence]
    /\ status' = [kind |-> "UpToDate", release |-> None]
    /\ lastCheck' = None
    /\ busy' = FALSE
    /\ checker' = [c \in Checker |-> [pc |-> "none", found |-> None]]
    /\ installer' = None
    /\ UNCHANGED clock

\* A day passes, while threads wait for requests at most.
Day ==
    /\ clock < MaxTime
    /\ \A c \in Checker : checker[c].pc \in {"none", "fetch"}
    /\ installer # None => installer.pc # "handover"
    /\ clock' = clock + 1
    /\ UNCHANGED <<installed, status, lastCheck, busy, checker, installer>>

\* What a release page may offer: any envelope on a plain manifest, any
\* manifest in a plain envelope, and authorizations with one thing wrong.
Signature == [key : Key, valid : BOOLEAN]

Envelope == [signatures : {S \in SUBSET Signature : Cardinality(S) <= 2}, next : Key \cup {None}]

Manifest == [sound : BOOLEAN, version : Version, sequence : Sequence, minimum : Version,
             issued : 0..MaxTime, expires : 0..MaxTime + 1]

Plain(m) == m.sound /\ m.minimum = installed.version /\ m.issued = 0 /\ m.expires = MaxTime

PlainEnvelope == [signatures |-> {[key |-> Root, valid |-> TRUE]}, next |-> None]

Offer == (Envelope \X {m \in Manifest : Plain(m)}) \cup ({PlainEnvelope} \X Manifest)

Authorizations(m) ==
    LET right == [from |-> installed, to |-> [version |-> m.version, sequence |-> m.sequence],
                  expires |-> MaxTime + 1, signed |-> TRUE]
    IN  {[right EXCEPT !.from = build] : build \in Build}
          \cup {[right EXCEPT !.to = build] : build \in Build}
          \cup {[right EXCEPT !.expires = day] : day \in 0..MaxTime + 1}
          \cup {[right EXCEPT !.signed = FALSE]}

Answer(c) ==
    \E offer \in Offer :
        LET m == offer[2] IN
        \E proof \in {None} \cup IF m.version < installed.version THEN Authorizations(m) ELSE {} :
            CheckInner(c, offer[1], m, proof)

Next == \/ \E c \in Checker : \/ MaybeCheck(c) \/ Answer(c) \/ FindNothing(c) \/ StampCheck(c)
                               \/ FreeChecker(c) \/ Publish(c) \/ PublishUpToDate(c)
        \/ Install \/ InstallFails \/ RecoverFirst \/ Download \/ HandOver \/ Day

Spec == Init /\ [][Next]_vars

-----------------------------------------------------------------------------
\* A known update is not forgotten because a later check finds none: two checks
\* never publish at the same time.
KnownUpdateStays ==
    [][status.kind = "Available" /\ UNCHANGED installed => status'.kind # "UpToDate"]_vars

\* However long the user waits and whatever is published meanwhile, what is
\* installed is newer in sequence, within its policy, and no older version
\* without an authorization for exactly this step.
InstallsUnderPolicy ==
    [][installed' # installed =>
         /\ installed'.sequence > installed.sequence
         /\ clock < installer.release.expires
         /\ installed'.version < installed.version => installer.release.proved]_vars
==============================================================================
