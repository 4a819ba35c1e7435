------------------------------- MODULE Settings -------------------------------
(***************************************************************************)
(* settings.json as config.rs loads, migrates and saves it.  A document is *)
(* a record of the fields the properties tell apart: the schema, one       *)
(* preference written under a canonical and a legacy key (poll, which is   *)
(* clamped as well), the update checks, whose default depends on the       *)
(* history of the installation, and keys that are only copied.  Every      *)
(* operation holds the lock of RUNTIME: one step.  The recovery command is *)
(* a second process with a copy of its own.  What the store does with the  *)
(* bytes is AtomicStore: a save that fails leaves the old or the new file. *)
(***************************************************************************)
EXTENDS Integers

CONSTANTS None, Missing, Corrupt,
          Procs,      \* "program" and "recovery", the recovery command
          Keys,       \* keys of the document that are only copied
          Polls,      \* bound: the intervals a document or a user gives
          MinPoll, MaxPoll, DefaultPoll,
          MaxEdits    \* bound: how often the file is damaged or deleted

VARIABLES stored,    \* settings.json: a document, Missing or Corrupt
          edits,     \* how often it was damaged or deleted
          stage,     \* of each process: "down", "starting" or "running"
          backend,   \* of each process: "store" or "unavailable"
          state,     \* ConfigState of each process
          behind     \* history: the processes whose copy another one has overtaken

vars == <<stored, edits, stage, backend, state, behind>>

LidKey == "vibecode_lid"
AlertedKey == "alerted"

\* A schema_version that is no natural number.
Invalid == -1

DocumentsWith(polls, names) ==
    [schema : {None, 0, 1, 2, Invalid}, poll : polls, legacyPoll : polls,
     checks : BOOLEAN \cup {None}, keys : SUBSET names]

\* What an older, a newer or an edited version may have left.
RawDocument == DocumentsWith(Polls \cup {None}, Keys)

AnyDocument == DocumentsWith(Int \cup {None}, Keys \cup {AlertedKey})

IsDocument(file) == file \notin {Missing, Corrupt}

EmptyRaw == [schema |-> None, poll |-> None, legacyPoll |-> None, checks |-> None, keys |-> {}]

SettingsV1 == [poll : MinPoll..MaxPoll, checks : BOOLEAN]

Failures == {"CorruptDefaults", "PathUnavailable", "ReadFailed", "WriteFailed"}

ConfigStatus == Failures \cup {"Ready", "MigratedLegacy", "RecoveredFromBackup",
                               "RecoveredAndMigrated", "FutureSchema", "InvalidSchema"}

-----------------------------------------------------------------------------
Clamp(n) == IF n < MinPoll THEN MinPoll ELSE IF n > MaxPoll THEN MaxPoll ELSE n

Preferred(value, fallback) == IF value # None THEN value ELSE fallback

AccessOf(doc) == CASE doc.schema \in {None, 0, 1} -> "Writable"
                   [] doc.schema = 2 -> "FutureSchema"
                   [] doc.schema = Invalid -> "InvalidSchema"

\* The canonical key, else the legacy key, else the default.
DecodedSettings(doc, existing) ==
    [poll |-> Clamp(Preferred(doc.poll, Preferred(doc.legacyPoll, DefaultPoll))),
     checks |-> Preferred(doc.checks, existing)]


\* Every key this version writes, canonical and legacy, over the raw document.
Encoded(doc, s) == [schema |-> 1, poll |-> s.poll, legacyPoll |-> s.poll, checks |-> s.checks,
                    keys |-> doc.keys]

NeedsMigration(doc, s) == \/ doc.schema \in {None, 0}
                          \/ AccessOf(doc) = "Writable" /\ Encoded(doc, s) # doc

StatusForAccess(doc, source) == IF AccessOf(doc) = "Writable" THEN source ELSE AccessOf(doc)

\* decode, with the status and the pending migration load_with_migrations adds.
Decoded(doc, source, had, existing) ==
    LET s == DecodedSettings(doc, existing)
    IN  [settings |-> s,
         raw |-> doc,
         access |-> AccessOf(doc),
         status |-> StatusForAccess(doc, source),
         pending |-> IF had /\ AccessOf(doc) = "Writable" /\ NeedsMigration(doc, s)
                     THEN IF source = "RecoveredFromBackup" THEN "RecoveredAndMigrated"
                          ELSE "MigratedLegacy"
                     ELSE None]

NoState == [Decoded(EmptyRaw, "PathUnavailable", FALSE, FALSE) EXCEPT !.access = "Writable"]

ConfigState == [settings : SettingsV1, raw : AnyDocument,
                access : {"Writable", "FutureSchema", "InvalidSchema"}, status : ConfigStatus, pending : {None, "MigratedLegacy", "RecoveredAndMigrated"}]

Init == /\ stored \in RawDocument \cup {Missing}
        /\ edits = 0
        /\ stage = [p \in Procs |-> "down"]
        /\ backend = [p \in Procs |-> "unavailable"]
        /\ state = [p \in Procs |-> NoState]
        /\ behind = {}

-----------------------------------------------------------------------------
\* One save of the store; the copies of the other processes are now older.
Save(p, doc, ok) ==
    /\ stored' \in IF ok THEN {doc} ELSE {stored, doc}
    /\ behind' = (IF ok THEN behind \ {p} ELSE behind)
                    \cup (IF stored' # stored THEN Procs \ {p} ELSE {})

\* Mutant of Migrate: the migrated document is saved and not remembered.
MigrateFile(p, st, stillPending) ==
    /\ Save(p, Encoded(st.raw, st.settings), TRUE)
    /\ state' = [state EXCEPT ![p] = [st EXCEPT !.status = st.pending, !.pending = None]]

\* persist_current, and the migration it was called for.
Migrate(p, st, stillPending) ==
    LET doc == Encoded(st.raw, st.settings)
    IN  \E ok \in BOOLEAN :
            /\ Save(p, doc, ok)
            /\ state' = [state EXCEPT ![p] =
                   IF ok THEN [st EXCEPT !.raw = doc, !.status = st.pending, !.pending = None]
                   ELSE [st EXCEPT !.status = "WriteFailed",
                                   !.pending = IF stillPending THEN @ ELSE None]]

\* What the store's load finds; reading may fail although the file is there.
Found == (IF IsDocument(stored)
          THEN {Decoded(stored, "Ready", TRUE, TRUE), Decoded(stored, "RecoveredFromBackup", TRUE, TRUE)}
          ELSE IF stored = Missing THEN {Decoded(EmptyRaw, "Ready", FALSE, FALSE)}
          ELSE {Decoded(EmptyRaw, "CorruptDefaults", FALSE, TRUE)})
             \cup {Decoded(EmptyRaw, "ReadFailed", FALSE, TRUE)}

\* initialize and, for the candidate of an update, initialize_compatibility.
Initialize(p, allowMigrations) ==
    /\ stage[p] = "down"
    /\ stage' = [stage EXCEPT ![p] = "starting"]
    /\ backend' = [backend EXCEPT ![p] = "store"]
    /\ \E st \in Found :
           IF allowMigrations /\ st.pending # None
           THEN Migrate(p, st, FALSE)
           ELSE /\ state' = [state EXCEPT ![p] = st]
                /\ stored' = IF st.status = "CorruptDefaults" THEN Missing ELSE stored
                /\ behind' = behind \ {p}
    /\ UNCHANGED edits

\* initialize_read_only: a corrupt file stays where it is, nothing is written.
InitializeReadOnly(p) ==
    /\ stage[p] = "down"
    /\ stage' = [stage EXCEPT ![p] = "running"]
    /\ \E st \in Found \cup {NoState} :
           /\ st.status # "RecoveredFromBackup"
           /\ state' = [state EXCEPT ![p] =
               [st EXCEPT !.pending = None,
                          !.status = IF @ = "ReadFailed" THEN "PathUnavailable" ELSE @]]
    /\ behind' = behind \ {p}
    /\ UNCHANGED <<stored, edits, backend>>

\* The end of main's start: complete_startup, then commit_pending_migration.
CommitPendingMigration(p) ==
    /\ stage[p] = "starting"
    /\ stage' = [stage EXCEPT ![p] = "running"]
    /\ IF state[p].pending # None
       THEN Migrate(p, state[p], TRUE)
       ELSE UNCHANGED <<stored, state, behind>>
    /\ UNCHANGED <<edits, backend>>

Writable(p) == /\ stage[p] = "running"
               /\ state[p].access = "Writable"
               /\ backend[p] = "store"

\* save_settings and update_raw: memory follows the file, never leads it.
Update(p, doc, s) ==
    \E ok \in BOOLEAN :
        /\ Save(p, Encoded(doc, s), ok)
        /\ state' = [state EXCEPT ![p] =
               IF ok THEN [@ EXCEPT !.settings = s, !.raw = Encoded(doc, s), !.status = "Ready"]
               ELSE [@ EXCEPT !.status = "WriteFailed"]]
        /\ UNCHANGED <<edits, stage, backend>>

SetPollInterval(p) ==
    \E seconds \in Polls :
        /\ Writable(p)
        /\ Update(p, state[p].raw, [state[p].settings EXCEPT !.poll = Clamp(seconds)])

SetUpdateChecks(p) ==
    \E enabled \in BOOLEAN :
        /\ Writable(p)
        /\ Update(p, state[p].raw, [state[p].settings EXCEPT !.checks = enabled])

SaveAlertReceipts(p) ==
    /\ Writable(p)
    /\ Update(p, [state[p].raw EXCEPT !.keys = @ \cup {AlertedKey}], state[p].settings)

ClearLegacyLid(p) ==
    /\ Writable(p)
    /\ Update(p, [state[p].raw EXCEPT !.keys = @ \ {LidKey}], state[p].settings)

Stop(p) ==
    /\ stage[p] # "down"
    /\ stage' = [stage EXCEPT ![p] = "down"]
    /\ backend' = [backend EXCEPT ![p] = "unavailable"]
    /\ state' = [state EXCEPT ![p] = NoState]
    /\ behind' = behind \ {p}
    /\ UNCHANGED <<stored, edits>>

\* The user deletes the file, or something damages it, while nothing runs.
Edit == /\ \A p \in Procs : stage[p] = "down"
        /\ edits < MaxEdits
        /\ edits' = edits + 1
        /\ stored' \in {Missing, Corrupt} \ {stored}
        /\ UNCHANGED <<stage, backend, state, behind>>

ProgramStep(p) ==
    \/ \E allow \in BOOLEAN : Initialize(p, allow)
    \/ InitializeReadOnly(p)
    \/ CommitPendingMigration(p)
    \/ SetPollInterval(p)
    \/ SetUpdateChecks(p)
    \/ SaveAlertReceipts(p)
    \/ ClearLegacyLid(p)
    \/ Stop(p)

\* The recovery command migrates at once and clears the pair it has applied.
RecoveryStep(p) == \/ Initialize(p, TRUE)
                   \/ CommitPendingMigration(p)
                   \/ ClearLegacyLid(p)
                   \/ Stop(p)

Next == \/ \E p \in Procs : IF p = "recovery" THEN RecoveryStep(p) ELSE ProgramStep(p)
        \/ Edit

Spec == Init /\ [][Next]_vars

-----------------------------------------------------------------------------
TypeOK == /\ IsDocument(stored) => stored \in AnyDocument
          /\ edits \in 0..MaxEdits
          /\ stage \in [Procs -> {"down", "starting", "running"}]
          /\ backend \in [Procs -> {"store", "unavailable"}]
          /\ state \in [Procs -> ConfigState]
          /\ behind \subseteq Procs


\* A process whose status reports no failure, and which no other process has
\* overtaken, shows what its next start would read from the file.
MemoryIsDisk ==
    \A p \in Procs :
        (stage[p] # "down" /\ state[p].status \notin Failures /\ p \notin behind)
            => \/ /\ IsDocument(stored)
                  /\ state[p].raw = stored
                  /\ state[p].settings = DecodedSettings(stored, TRUE)
               \/ /\ stored = Missing
                  /\ state[p].raw = EmptyRaw
                  /\ state[p].settings = DecodedSettings(EmptyRaw, FALSE)
==============================================================================
