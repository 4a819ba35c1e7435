---------------------------------- MODULE Parts ----------------------------------
(***************************************************************************)
(* The components that share no state with each other while they work, one *)
(* beside the other: each of the modules below with its constants, chosen  *)
(* by `part`.  A component steps alone, from where it starts, and every    *)
(* other one stays where it is, so that one search covers them all.  Where *)
(* components do meet (a save of settings.json or state.json that fails,   *)
(* an account that changes, an update that is handed over), the modules    *)
(* have that as a step of their own.                                       *)
(***************************************************************************)
EXTENDS Integers, Sequences, FiniteSets

CONSTANTS None, Missing, Corrupt, NoAnswer

CONSTANTS Opener, Saver, StoredDocument, MaxDamage                 \* AtomicStore
CONSTANTS AlertProvider, AlertAccount, Persistent, Rows, ResetWindows, Gap, Drift,
          Slop                                               \* AlertReceipts
CONSTANTS Process, CopiedKeys, Polls, MinPoll, MaxPoll, DefaultPoll, MaxEdits \* Settings
CONSTANTS MaxClicks, MaxStamp                                \* SignIn
CONSTANTS Client, MaxRuns, MaxFrames                         \* CodexSession
CONSTANTS Account, Worker, MaxSignIns                        \* ClaudeRequest
CONSTANTS Code, Issue, LogBytes, MaxLines                    \* DiagnosticLog
CONSTANTS SigningKey, Root, Version, Sequence, Portable, MaxTime    \* UpdateCheck
CONSTANTS MaxRows, Percent, Hours                            \* UsageRows
CONSTANTS PaceWindows, PaceStep                              \* Pace

\* One process at a time saves a document: the program holds its single instance.
ASSUME StoreAssumption ==
    /\ Saver \subseteq Opener /\ \A p, q \in Saver : p = q
    /\ Missing # Corrupt /\ Missing \notin StoredDocument /\ Corrupt \notin StoredDocument
    /\ MaxDamage \in Nat

\* The rows of a snapshot have limit ids of their own; two windows lie further
\* apart than their reported instants can drift.
ASSUME AlertsAssumption ==
    /\ Rows \in Seq(STRING) /\ \A i, j \in DOMAIN Rows : Rows[i] = Rows[j] => i = j
    /\ ResetWindows \in Nat \ {0} /\ Gap \in Nat /\ Drift \in Nat /\ Slop \in Nat
    /\ Drift <= Slop /\ Drift + Slop < Gap /\ Persistent \subseteq AlertAccount
    /\ None \notin AlertAccount /\ None \notin Int /\ None \notin {"stable", "process"}

ASSUME SignInAssumption == MaxClicks \in Nat /\ MaxStamp \in Nat \ {0}

ASSUME ClaudeAssumption == /\ MaxSignIns \in Nat
                           /\ None \notin [to : Account, files : SUBSET {"credentials", "identity"}]

ASSUME LogAssumption ==
    /\ LogBytes \in Nat \ {0} /\ MaxLines \in Nat
    /\ \A n \in 0..LogBytes : None \notin [1..n -> 1..MaxLines]

ASSUME CheckAssumption == MaxTime \in Nat /\ None \notin 0..MaxTime /\ Sequence \subseteq Int

ASSUME CodexAssumption == MaxRuns \in Nat /\ MaxFrames \in Nat

\* A list may be as long as two windows; a limit lasts whole hours.
ASSUME RowsAssumption == /\ MaxRows \in Nat /\ MaxRows >= 2
                         /\ Percent \subseteq Int /\ Hours \subseteq Nat

ASSUME PaceAssumption == PaceWindows \subseteq Nat /\ PaceStep \in Nat

VARIABLE part   \* the component this behaviour is of

\* AtomicStore: one process saves and loads, another only loads.
VARIABLES target, backup, kept, at, doc, copy, had, outcome, committed, raced, damage

\* AlertReceipts: one limit of one provider, an account that may be saved and one that may not.
VARIABLES receipts, loaded, persistence, salt, held, stored, legacy, bound, window, warned,
          again, owed, excused, inherited, unsaved

\* Settings: the program and the recovery command.
VARIABLES settings, edits, stage, backend, state, behind

\* SignIn: the account card.
VARIABLES connection, authBusy, cancel, authWorker, card, stamp, signed, cli, messages, clicks,
          asked, cancelled, called

\* CodexSession: the program and --measure.
VARIABLES profiles, session

\* ClaudeRequest: Claude Code and one worker.
VARIABLES credentials, identity, signing, signIns, worker, cache, answer, crossed

\* DiagnosticLog: two lines a file.
VARIABLES log, previous, oldest, lastIssue, writeFailed, step, written

\* UpdateCheck: a build and two versions.
VARIABLES installed, clock, status, lastCheck, checkBusy, checker, installer

\* UsageRows: one answer.
VARIABLES reading, rows

\* Pace: one limit.
VARIABLES limit, used, now

-----------------------------------------------------------------------------
storeVars == <<target, backup, kept, at, doc, copy, had, outcome, committed, raced, damage>>
Store == INSTANCE AtomicStore WITH
    Procs <- Opener, Savers <- Saver, Values <- StoredDocument

alertsVars == <<receipts, loaded, persistence, salt, held, stored, legacy, bound, window,
                warned, again, owed, excused, inherited, unsaved>>
Alerts == INSTANCE AlertReceipts WITH
    Provider <- AlertProvider, Account <- AlertAccount, Windows <- ResetWindows

settingsVars == <<settings, edits, stage, backend, state, behind>>
Config == INSTANCE Settings WITH
    stored <- settings, Procs <- Process, Keys <- CopiedKeys

sign_inVars == <<connection, authBusy, cancel, authWorker, card, stamp, signed, cli, messages,
                 clicks, asked, cancelled, called>>
Auth == INSTANCE SignIn WITH
    busy <- authBusy, worker <- authWorker

codexVars == <<profiles, session>>
Codex == INSTANCE CodexSession

claudeVars == <<credentials, identity, signing, signIns, worker, cache, answer, crossed>>
Request == INSTANCE ClaudeRequest

logVars == <<log, previous, oldest, lastIssue, writeFailed, step, written>>
Log == INSTANCE DiagnosticLog

updatesVars == <<installed, clock, status, lastCheck, checkBusy, checker, installer>>
Check == INSTANCE UpdateCheck WITH
    busy <- checkBusy, Key <- SigningKey

rowsVars == <<reading, rows>>
Usage == INSTANCE UsageRows

paceVars == <<limit, used, now>>
Verdict == INSTANCE Pace WITH Windows <- PaceWindows, Step <- PaceStep

ASSUME SettingsAssumption ==
    /\ MinPoll \in Int /\ MaxPoll \in Int /\ DefaultPoll \in Int /\ MinPoll <= MaxPoll
    /\ Polls \subseteq Int /\ MaxEdits \in Nat
    /\ None \notin MinPoll..MaxPoll /\ None \notin BOOLEAN /\ None \notin {2, Config!Invalid}
    /\ Missing \notin Config!AnyDocument /\ Corrupt \notin Config!AnyDocument

Part == {"store", "alerts", "settings", "sign_in", "codex", "claude", "log", "updates", "rows",
         "pace"}

\* A component that is not searched starts in one of its states.
Init ==
    /\ part \in Part
    /\ Store!Init
    /\ Alerts!Init
    /\ part # "alerts" => \A k \in DOMAIN legacy : legacy[k] = None
    /\ Config!Init
    /\ part # "settings" => settings = Missing
    /\ Auth!Init
    /\ part # "sign_in" => signed
    /\ Codex!Init
    /\ Request!Init
    /\ Log!Init
    /\ Check!Init
    /\ part # "updates" => installed = CHOOSE build \in Check!Build : TRUE
    /\ Usage!Init
    /\ Verdict!Init
    /\ part # "pace" => limit = [class |-> "Quota", window |-> None, severity |-> 0]

-----------------------------------------------------------------------------
InStore == /\ part = "store"
           /\ UNCHANGED <<part, alertsVars, settingsVars, sign_inVars, codexVars, claudeVars,
                        logVars, updatesVars, rowsVars, paceVars>>
InAlerts == /\ part = "alerts"
            /\ UNCHANGED <<part, storeVars, settingsVars, sign_inVars, codexVars, claudeVars,
                         logVars, updatesVars, rowsVars, paceVars>>
InConfig == /\ part = "settings"
            /\ UNCHANGED <<part, storeVars, alertsVars, sign_inVars, codexVars, claudeVars,
                         logVars, updatesVars, rowsVars, paceVars>>
InAuth == /\ part = "sign_in"
          /\ UNCHANGED <<part, storeVars, alertsVars, settingsVars, codexVars, claudeVars,
                       logVars, updatesVars, rowsVars, paceVars>>
InCodex == /\ part = "codex"
           /\ UNCHANGED <<part, storeVars, alertsVars, settingsVars, sign_inVars, claudeVars,
                        logVars, updatesVars, rowsVars, paceVars>>
InRequest == /\ part = "claude"
             /\ UNCHANGED <<part, storeVars, alertsVars, settingsVars, sign_inVars, codexVars,
                          logVars, updatesVars, rowsVars, paceVars>>
InLog == /\ part = "log"
         /\ UNCHANGED <<part, storeVars, alertsVars, settingsVars, sign_inVars, codexVars,
                      claudeVars, updatesVars, rowsVars, paceVars>>
InCheck == /\ part = "updates"
           /\ UNCHANGED <<part, storeVars, alertsVars, settingsVars, sign_inVars, codexVars,
                        claudeVars, logVars, rowsVars, paceVars>>
InUsage == /\ part = "rows"
           /\ UNCHANGED <<part, storeVars, alertsVars, settingsVars, sign_inVars, codexVars,
                        claudeVars, logVars, updatesVars, paceVars>>
InVerdict == /\ part = "pace"
             /\ UNCHANGED <<part, storeVars, alertsVars, settingsVars, sign_inVars, codexVars,
                          claudeVars, logVars, updatesVars, rowsVars>>

StoreStep ==
    \/ InStore /\ \E p \in Opener, v \in StoredDocument : Store!BeginSave(p, v)
    \/ InStore /\ \E p \in Opener : Store!Save(p)
    \/ InStore /\ \E p \in Opener : Store!BeginLoad(p)
    \/ InStore /\ \E p \in Opener : Store!Load(p)
    \/ InStore /\ \E p \in Opener : Store!Restore(p)
    \/ InStore /\ \E p \in Opener : Store!Crash(p)
    \/ InStore /\ Store!DamageFile

AlertsStep ==
    \/ InAlerts /\ \E p \in AlertProvider : Alerts!ChangeAccount(p)
    \/ InAlerts /\ \E p \in AlertProvider : Alerts!Observation(p)
    \/ InAlerts /\ \E p \in AlertProvider, i \in DOMAIN Rows : Alerts!NextWindow(p, i)
    \/ InAlerts /\ Alerts!Restart

\* The recovery command only migrates and clears the pair it has applied.
Program == Process \ {"recovery"}

ConfigStep ==
    \/ InConfig /\ \E p \in Process, allow \in BOOLEAN :
                      (p = "recovery" => allow) /\ Config!Initialize(p, allow)
    \/ InConfig /\ \E p \in Program : Config!InitializeReadOnly(p)
    \/ InConfig /\ \E p \in Process : Config!CommitPendingMigration(p)
    \/ InConfig /\ \E p \in Program : Config!SetPollInterval(p)
    \/ InConfig /\ \E p \in Program : Config!SetUpdateChecks(p)
    \/ InConfig /\ \E p \in Program : Config!SaveAlertReceipts(p)
    \/ InConfig /\ \E p \in Process : Config!ClearLegacyLid(p)
    \/ InConfig /\ \E p \in Process : Config!Stop(p)
    \/ InConfig /\ Config!Edit

AuthStep ==
    \/ InAuth /\ Auth!OpenSettings
    \/ InAuth /\ Auth!ClickCard
    \/ InAuth /\ Auth!CancelInteractive
    \/ InAuth /\ Auth!AuthReady
    \/ InAuth /\ Auth!Begin
    \/ InAuth /\ Auth!LookAtStamp
    \/ InAuth /\ Auth!LookAtCancel
    \/ InAuth /\ Auth!LookAtCli
    \/ InAuth /\ Auth!StoreConnection
    \/ InAuth /\ Auth!ClearCancel
    \/ InAuth /\ Auth!FreeBroker
    \/ InAuth /\ Auth!Cli

CodexStep ==
    \/ InCodex /\ \E c \in Client : Codex!Fetch(c)
    \/ InCodex /\ \E c \in Client : Codex!Sweep(c)
    \/ InCodex /\ \E c \in Client : Codex!ListOwned(c)
    \/ InCodex /\ \E c \in Client : Codex!RemoveEntry(c)
    \/ InCodex /\ \E c \in Client : Codex!RemoveEmpty(c)
    \/ InCodex /\ \E c \in Client : Codex!CreateDir(c)
    \/ InCodex /\ \E c \in Client : Codex!CreateLock(c)
    \/ InCodex /\ \E c \in Client : Codex!WriteCatalogue(c)
    \/ InCodex /\ \E c \in Client : Codex!Spawn(c)
    \/ InCodex /\ \E c \in Client : Codex!Send(c)
    \/ InCodex /\ \E c \in Client : Codex!Receive(c)
    \/ InCodex /\ \E c \in Client : Codex!PipeEnds(c)
    \/ InCodex /\ \E c \in Client : Codex!TimesOut(c)
    \/ InCodex /\ \E c \in Client : Codex!Expire(c)
    \/ InCodex /\ \E c \in Client : Codex!Stop(c)
    \/ InCodex /\ \E c \in Client : Codex!Release(c)
    \/ InCodex /\ \E c \in Client : Codex!Crash(c)

RequestStep ==
    \/ InRequest /\ \E a \in Account : Request!SignIn(a)
    \/ InRequest /\ Request!SignOut
    \/ InRequest /\ Request!WriteCredentials
    \/ InRequest /\ Request!WriteIdentity
    \/ InRequest /\ Request!ExpirePlan
    \/ InRequest /\ \E w \in Worker : Request!Begin(w)
    \/ InRequest /\ \E w \in Worker : Request!RetryCredentials(w)
    \/ InRequest /\ \E w \in Worker : Request!ReadCredentials(w)
    \/ InRequest /\ \E w \in Worker : Request!ReadIdentity(w)
    \/ InRequest /\ \E w \in Worker : Request!FetchUsage(w)
    \/ InRequest /\ \E w \in Worker : Request!LookUpPlan(w)
    \/ InRequest /\ \E w \in Worker : Request!FetchPlan(w)
    \/ InRequest /\ \E w \in Worker : Request!StorePlan(w)
    \/ InRequest /\ \E w \in Worker : Request!KeepPlan(w)

LogStep ==
    \/ InLog /\ \E code \in Code : Log!Record(code)
    \/ InLog /\ Log!RemoveOldest
    \/ InLog /\ Log!ShiftPrevious
    \/ InLog /\ Log!Rotate
    \/ InLog /\ Log!AppendLine
    \/ InLog /\ Log!Restart

CheckStep ==
    \/ InCheck /\ \E c \in Check!Checker : Check!MaybeCheck(c)
    \/ InCheck /\ \E c \in Check!Checker : Check!Answer(c)
    \/ InCheck /\ \E c \in Check!Checker : Check!FindNothing(c)
    \/ InCheck /\ \E c \in Check!Checker : Check!StampCheck(c)
    \/ InCheck /\ \E c \in Check!Checker : Check!FreeChecker(c)
    \/ InCheck /\ \E c \in Check!Checker : Check!Publish(c)
    \/ InCheck /\ \E c \in Check!Checker : Check!PublishUpToDate(c)
    \/ InCheck /\ Check!Install
    \/ InCheck /\ Check!InstallFails
    \/ InCheck /\ Check!RecoverFirst
    \/ InCheck /\ Check!Download
    \/ InCheck /\ Check!HandOver
    \/ InCheck /\ Check!Day

UsageStep ==
    \/ InUsage /\ Usage!ReadClaude
    \/ InUsage /\ Usage!ReadWham
    \/ InUsage /\ Usage!ReadServer

VerdictStep ==
    \/ InVerdict /\ Verdict!Use
    \/ InVerdict /\ Verdict!Wait

Next ==
    \/ StoreStep
    \/ AlertsStep
    \/ ConfigStep
    \/ AuthStep
    \/ CodexStep
    \/ RequestStep
    \/ LogStep
    \/ CheckStep
    \/ UsageStep
    \/ VerdictStep

vars == <<part, storeVars, alertsVars, settingsVars, sign_inVars, codexVars, claudeVars,
          logVars, updatesVars, rowsVars, paceVars>>

Spec == Init /\ [][Next]_vars

-----------------------------------------------------------------------------
\* store.rs: the document and its backup implement a register that a crash or
\* a failing file operation never empties, and a document that does not parse
\* is moved aside before anything takes its name.
StoreKeeps ==
    /\ [](part = "store" => Store!TypeOK)
    /\ part = "store" => Store!Register!Init
    /\ [][part = "store" => [Store!Register!Next]_(Store!Register!vars)]_vars
    /\ Store!CorruptIsKept

\* alerts.rs, runtime_state.rs: an account is told of a window once unless the
\* window was reported without its instant, the account was given up in between
\* or its receipt was not on the disk when the program ended; it is never missed
\* because of a receipt that is not its own; the receipts on the disk are of one
\* stable account per provider.
AlertsOnce ==
    part = "alerts" =>
        Alerts!TypeOK /\ Alerts!OnceWhileKept /\ Alerts!NeverSilenced /\ Alerts!SavedReceiptsAreOwn

\* config.rs: what a process shows is what its next start would read, whatever
\* was migrated, deferred or failed, unless another process saved since.
MemoryIsDisk == part = "settings" => Config!TypeOK /\ Config!MemoryIsDisk


\* auth.rs: a cancel ends one sign-in at most.
OneCancelEach == part = "sign_in" => Auth!TypeOK /\ Auth!OneCancelEach

\* codex_server.rs: no sweep takes the directory or the lock of a running server
\* (of what else is in it, it may), and a reading that succeeds has left neither
\* a process nor a profile.
CodexProfiles == part = "codex" => Codex!TypeOK /\ Codex!LockIsKept /\ Codex!NothingLeft

\* api.rs: unless its two reads crossed a sign-in, a worker's usage and plan
\* belong to the account they are reported for.
AnswersAreOwn == part = "claude" => Request!TypeOK /\ Request!AnswersAreOwn

\* diagnostics.rs: the three log files hold the newest lines in order.
NewestInOrder == part = "log" => Log!TypeOK /\ Log!NewestInOrder

\* updater.rs, release_manifest.rs: a known update is not forgotten, and what
\* is installed keeps the policy at the moment it is handed over.
UpdatesUnderPolicy ==
    /\ [](part = "updates" => Check!TypeOK)
    /\ Check!KnownUpdateStays
    /\ Check!InstallsUnderPolicy

\* api.rs, codex.rs, codex_server.rs, runtime_state.rs: the rows an adapter
\* makes of an answer can be saved, unless two of them share an id or a window
\* is longer than a year, and pace.rs judges a row steadily and announces no
\* instant but one inside its window.
RowsAreSound ==
    /\ part = "rows" => Usage!TypeOK /\ Usage!AcceptedIsSavable
    /\ part = "pace" => Verdict!TypeOK /\ Verdict!SteadyVerdict /\ Verdict!RunOutInWindow
==================================================================================
