------------------------------ MODULE Vibecode ------------------------------
(***************************************************************************)
(* The Vibecode mode of vibecode.rs above the lid-policy transaction: what *)
(* start-up, the switch, the settings card, the poll timer, the end of a   *)
(* session and the command --recover-vibecode ask of the controller, and   *)
(* what they record of its answers.                                        *)
(*                                                                         *)
(* The program handles one window message at a time, so a handler excludes *)
(* every other; its controller steps interleave with the user, with        *)
(* crashes and, when Racing, with the recovery command.                    *)
(***************************************************************************)
EXTENDS PowerJournal

CONSTANT App   \* the process that owns the window; the others are commands

ASSUME VibecodeAssumption == App \in Process

Status == {"Disabled", "Applied", "LegacyRecoveryPending", "RecoveryRequired", "Error"}

(***************************************************************************)
(* The handler a process is in, the call it waits for, the wake lock and   *)
(* the legacy pair it has read before.                                     *)
(***************************************************************************)
Task ==
  [handler : {"none", "init", "reconcile", "exit", "enable", "disable",
              "legacy", "retry", "command"},
   call    : {"none", "recover", "commit", "apply", "finish"},
   wake    : BOOLEAN,
   pair    : Legacy \cup {None}]

NoTask == [handler |-> "none", call |-> "none", wake |-> FALSE, pair |-> None]

VARIABLES
  running,   \* the program runs
  status,    \* PERSISTENT_STATUS
  wake,      \* WAKE_LOCK_ON
  wakePref,  \* settings: wake_lock_enabled
  lidPref,   \* settings: persistent_lid_override_enabled
  legacy,    \* settings: vibecode_lid
  task       \* the handler of each process

settings == <<wakePref, lidPref, legacy>>
mode == <<running, status, wake, wakePref, lidPref, legacy, task>>
allVars == <<vars, mode>>

VibecodeInit ==
  /\ Init
  /\ running = FALSE
  /\ status = "Disabled"
  /\ wake = FALSE
  /\ wakePref \in BOOLEAN
  /\ lidPref \in BOOLEAN
  /\ legacy \in Legacy \cup {None}
  /\ task = [p \in Process |-> NoTask]
-----------------------------------------------------------------------------
\* Mutant of ErrorStatus: the disk is not looked at.
PlainError == "Error"

\* set_error: what is on disk decides what the user is told.
ErrorStatus == IF journal # None THEN "RecoveryRequired" ELSE "Error"

\* The status after a recovery that left nothing to do.
RestedStatus ==
  IF legacy # None THEN "LegacyRecoveryPending" ELSE "Disabled"

\* A command has a status of its own, which dies with it.
SetStatus(p, s) == status' = IF p = App THEN s ELSE status

Waits(p, handler, call) ==
  task' = [task EXCEPT ![p] = [@ EXCEPT !.handler = handler, !.call = call]]

\* The handler ends, and the answer of its last call is forgotten.
Done(p) == task' = [task EXCEPT ![p] = NoTask] /\ Continue(p, Idle)

\* The process is in no handler, and neither is another one it excludes.
Free(p) ==
  /\ task[p] = NoTask
  /\ Racing \/ \A q \in Process : task[q] = NoTask

AppFree == running /\ Free(App)

ModeIsOn == wake /\ status = "Applied"
-----------------------------------------------------------------------------
(***************************************************************************)
(* The handlers up to their first call                                     *)
(***************************************************************************)

(* init, at the start of the program and when the end of a session has     *)
(* been cancelled.                                                         *)
BeginInit ==
  /\ Free(App)
  /\ running' = TRUE
  /\ wake' \in IF wakePref THEN {TRUE, wake} ELSE {wake}
  /\ Recover(App)
  /\ Waits(App, "init", "recover")
  /\ UNCHANGED <<status, settings>>

Start == ~ running /\ BeginInit

SessionContinues == running /\ BeginInit

\* restore_for_exit.
RestoreForExit ==
  /\ AppFree
  /\ wake' = FALSE
  /\ Recover(App)
  /\ Waits(App, "exit", "recover")
  /\ UNCHANGED <<running, status, settings>>

\* reconcile_active_scheme, when its journal cannot be loaded.
ReconcileFails ==
  /\ AppFree
  /\ status = "Applied"
  /\ status' = "RecoveryRequired"
  /\ UNCHANGED <<vars, running, wake, settings, task>>

\* Mutant of ReconcileMissing: a missing journal is nothing to reconcile.
MissingIsFine ==
  journal = None /\ AppFree /\ status = "Applied" /\ UNCHANGED allVars

ReconcileMissing == journal = None /\ ReconcileFails

\* reconcile_active_scheme, when the active scheme is another or unreadable.
Reconcile ==
  /\ AppFree
  /\ status = "Applied"
  /\ journal # None
  /\ Recover(App)
  /\ Waits(App, "reconcile", "recover")
  /\ UNCHANGED <<running, status, wake, settings>>

\* Mutant of ReconcileScheme: the comparison is the wrong way round.
ReconcileSameScheme ==
  journal # None /\ journal.scheme = active /\ Reconcile

ReconcileScheme ==
  journal # None /\ journal.scheme # active /\ Reconcile

\* set_mode(false); the wake lock goes first, saved or not.
Disable ==
  /\ AppFree
  /\ ModeIsOn \/ (status = "Error" /\ lidPref)
  /\ wake' = FALSE
  /\ wakePref' \in {FALSE, wakePref}
  /\ \/ /\ lidPref' = FALSE
        /\ Recover(App)
        /\ Waits(App, "disable", "recover")
        /\ UNCHANGED status
     \/ /\ status' = ErrorStatus
        /\ UNCHANGED <<vars, lidPref, task>>
  /\ UNCHANGED <<running, legacy>>

\* change_mode gives the wake lock its former state back.
RollBackWake(previous, failure) ==
  /\ wake' = previous
  /\ wakePref' \in {previous, TRUE}
  /\ status' \in {failure, ErrorStatus}

\* set_mode(true), when it ends before apply.
EnableFails ==
  /\ AppFree
  /\ ~ ModeIsOn
  /\ \/ /\ status' = ErrorStatus
        /\ wakePref' \in {wakePref, TRUE}
        /\ UNCHANGED wake
     \/ /\ status # "Applied"
        /\ RollBackWake(wake, IF legacy # None THEN "LegacyRecoveryPending"
                                               ELSE ErrorStatus)
  /\ UNCHANGED <<vars, running, lidPref, legacy, task>>

\* set_mode(true), when the lid is protected already.
EnableWake ==
  /\ AppFree
  /\ ~ ModeIsOn
  /\ status = "Applied"
  /\ wake' = TRUE
  /\ wakePref' = TRUE
  /\ UNCHANGED <<vars, running, status, lidPref, legacy, task>>

Enable ==
  /\ AppFree
  /\ ~ ModeIsOn
  /\ status # "Applied"
  /\ legacy = None
  /\ wake' = TRUE
  /\ wakePref' = TRUE
  /\ lidPref' = TRUE
  /\ Apply(App, "persistent_override", Override)
  /\ task' = [task EXCEPT ![App] =
                [NoTask EXCEPT !.handler = "enable", !.call = "apply",
                               !.wake = wake]]
  /\ UNCHANGED <<running, status, legacy>>

\* The pair is read before the recovery that may clear it.
RestoresLegacy(p) ==
  /\ Recover(p)
  /\ task' = [task EXCEPT ![p] =
                [NoTask EXCEPT !.handler = "legacy", !.call = "recover",
                               !.pair = legacy]]

\* restore_legacy_to_current_scheme, from the settings card.
RestoreLegacy ==
  /\ AppFree
  /\ status = "LegacyRecoveryPending"
  /\ IF legacy = None
       THEN status' = ErrorStatus /\ UNCHANGED <<vars, task>>
       ELSE RestoresLegacy(App) /\ UNCHANGED status
  /\ UNCHANGED <<running, wake, settings>>

\* retry_recovery, from the settings card.
RetryRecovery ==
  /\ AppFree
  /\ status = "RecoveryRequired"
  /\ Recover(App)
  /\ Waits(App, "retry", "recover")
  /\ UNCHANGED <<running, status, wake, settings>>

\* claudometer.exe --recover-vibecode, dispatched before the instance mutex.
RecoverCommand(p) ==
  /\ p # App
  /\ Free(p)
  /\ Recover(p)
  /\ Waits(p, "command", "recover")
  /\ UNCHANGED <<running, status, wake, settings>>
-----------------------------------------------------------------------------
(***************************************************************************)
(* The handlers after a call                                               *)
(***************************************************************************)
Returned(p, calls) == ctl[p].at = "idle" /\ task[p].call \in calls

\* clear_legacy_lid_recovery and commit_legacy.
ClearsLegacy(p, call) ==
  /\ legacy' = None
  /\ CommitLegacy(p)
  /\ Waits(p, task[p].handler, call)
  /\ UNCHANGED <<running, status, wake, wakePref, lidPref>>

Failed(p, s) ==
  /\ SetStatus(p, s)
  /\ Done(p)
  /\ UNCHANGED <<power, journal, own, changes, running, wake, settings>>

Succeeded(p, s) == Failed(p, s)

\* The rest of recover_and_finalize: an applied legacy pair is committed.
Finalize(p) ==
  /\ Returned(p, {"recover"})
  /\ ctl[p].result = "needs_commit"
  /\ ClearsLegacy(p, "commit") \/ Failed(p, "RecoveryRequired")

RecoveryFails(p) ==
  /\ Returned(p, {"recover", "commit", "finish"})
  /\ ctl[p].result \in {"failed", "unverified"}
  /\ Failed(p, "RecoveryRequired")

AppliesOverride(p) ==
  /\ Apply(p, "persistent_override", Override)
  /\ Waits(p, task[p].handler, "apply")
  /\ UNCHANGED <<running, status, wake, settings>>

\* Mutant of WantsOverride: a pending legacy pair does not stop it.
WantsOverrideAnyway == lidPref

\* What init and retry_recovery check before they apply the override.
WantsOverride == legacy = None /\ lidPref

\* The callers after recover_and_finalize has succeeded.
AfterRecovery(p) ==
  /\ Returned(p, {"recover", "commit"})
  /\ ctl[p].result = "ok"
  /\ CASE task[p].handler \in {"exit", "disable"} -> Succeeded(p, RestedStatus)
       [] task[p].handler \in {"init", "retry"} ->
            IF WantsOverride THEN AppliesOverride(p)
                              ELSE Succeeded(p, RestedStatus)
       [] task[p].handler = "reconcile" ->
            IF lidPref THEN AppliesOverride(p) ELSE Succeeded(p, status)
       [] task[p].handler = "legacy" ->
            /\ Apply(p, "legacy_restore", task[p].pair)
            /\ Waits(p, "legacy", "apply")
            /\ UNCHANGED <<running, status, wake, settings>>
       [] task[p].handler = "command" ->
            IF legacy = None
              THEN Succeeded(p, "Disabled")
              ELSE /\ RestoresLegacy(p)
                   /\ UNCHANGED <<running, status, wake, settings>>

\* The callers after apply has succeeded.
AfterApply(p) ==
  /\ Returned(p, {"apply"})
  /\ ctl[p].result = "ok"
  /\ IF task[p].handler = "legacy"
       THEN ClearsLegacy(p, "finish") \/ Failed(p, "RecoveryRequired")
       ELSE Succeeded(p, "Applied")

AfterLegacy(p) ==
  /\ Returned(p, {"finish"})
  /\ ctl[p].result = "ok"
  /\ Succeeded(p, "Disabled")

\* The callers after apply has failed.
AfterFailedApply(p) ==
  /\ Returned(p, {"apply"})
  /\ ctl[p].result \in {"failed", "unverified"}
  /\ CASE task[p].handler = "legacy" -> Failed(p, "RecoveryRequired")
       [] task[p].handler = "enable" ->
            /\ lidPref' \in {FALSE, lidPref}
            /\ RollBackWake(task[p].wake, ErrorStatus)
            /\ Done(p)
            /\ UNCHANGED <<power, journal, own, changes, running, legacy>>
       [] OTHER -> Failed(p, ErrorStatus)
-----------------------------------------------------------------------------
\* A process dies; what the program held in memory goes with it.
Die(p) ==
  /\ task[p] # NoTask \/ (p = App /\ running)
  /\ Done(p)
  /\ IF p = App
       THEN running' = FALSE /\ status' = "Disabled" /\ wake' = FALSE
       ELSE UNCHANGED <<running, status, wake>>
  /\ UNCHANGED <<power, journal, own, changes, settings>>

Handler(p) ==
  \/ ControllerStep(p) /\ UNCHANGED mode
  \/ Finalize(p) \/ RecoveryFails(p) \/ AfterRecovery(p)
  \/ AfterApply(p) \/ AfterLegacy(p) \/ AfterFailedApply(p)

Timer == ReconcileMissing \/ ReconcileScheme

VibecodeNext ==
  \/ Start \/ SessionContinues \/ RestoreForExit
  \/ ReconcileFails \/ Reconcile
  \/ Disable \/ EnableFails \/ EnableWake \/ Enable
  \/ RestoreLegacy \/ RetryRecovery
  \/ \E p \in Process : RecoverCommand(p) \/ Handler(p) \/ Die(p)
  \/ User /\ UNCHANGED mode

VibecodeSpec == VibecodeInit /\ [][VibecodeNext]_allVars

(***************************************************************************)
(* Fairness: a handler runs on to its end, and the poll timer keeps        *)
(* firing, so that the reconciliation it calls is not put off forever.     *)
(***************************************************************************)
Fairness ==
  /\ \A p \in Process : WF_allVars(Handler(p))
  /\ SF_allVars(Timer)

FairVibecodeSpec == VibecodeSpec /\ Fairness
-----------------------------------------------------------------------------
(***************************************************************************)
(* Properties                                                              *)
(***************************************************************************)

(* Between handlers the status tells the truth about the disk: "Applied"   *)
(* stands for a complete override that the settings ask for, "Disabled"    *)
(* and "Error" for a machine without one, and a pending legacy pair        *)
(* exists.  (A recovery command in between is property StaleStatusNoticed.)*)
StatusTrue ==
  running /\ task[App] = NoTask =>
    /\ status = "Applied" =>
         /\ journal # None
         /\ journal.operation = "persistent_override"
         /\ journal.phase = "applied"
         /\ lidPref
    /\ status \in {"Disabled", "Error"} => journal = None
    /\ status = "LegacyRecoveryPending" => legacy # None

(* An override is begun only while the settings ask for it and no legacy   *)
(* pair waits for its restoration, whichever handler begins it.            *)
OverrideIsWanted ==
  [][journal = None /\ journal' # None
       => \/ journal'.operation = "legacy_restore"
          \/ lidPref /\ legacy = None]_allVars

(* The legacy pair, the only record of a policy an old version has         *)
(* overwritten, is cleared only when the journal says it has been applied. *)
LegacyClearedWhenApplied ==
  [][legacy # None /\ legacy' = None
       => /\ journal # None
          /\ journal.phase = "applied"
          /\ journal.applied = legacy]_allVars

(* A recovery command that removes the override under a running program is *)
(* noticed: "Applied" does not stay on display.                            *)
StaleStatusNoticed ==
  running /\ status = "Applied" /\ journal = None
    ~> ~ running \/ status # "Applied" \/ journal # None

(* The override follows the active scheme, or the user is told.            *)
OverrideFollowsScheme ==
  running /\ status = "Applied"
    ~> \/ ~ running
       \/ status # "Applied"
       \/ journal # None /\ journal.scheme = active
=============================================================================
