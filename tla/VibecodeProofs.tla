--------------------------- MODULE VibecodeProofs ---------------------------
(***************************************************************************)
(* Proofs about Vibecode: its handlers use the lid-policy transaction as   *)
(* PowerJournal lets any process use it, so that what is proved about the  *)
(* transaction holds of the program; and, when a recovery command does not *)
(* run in the middle of a handler, what a handler has checked before a     *)
(* call still holds when the call returns.                                 *)
(***************************************************************************)
EXTENDS Vibecode, PowerJournalProofs

\* The operation a handler applies.
Operation(t) ==
  IF t.handler = "legacy" THEN "legacy_restore" ELSE "persistent_override"

(* Where a controller is for a handler: it works for a call that is still  *)
(* open, it undoes only what that call has begun, and what it applies is   *)
(* what the handler is for.                                                *)
Serves(c, t) ==
  /\ t = NoTask => c = Idle
  /\ t # NoTask => t.call # "none"
  /\ c.at # "idle" => t.call \in {"recover", "apply"}
  /\ c.undo => t.call = "apply" /\ c.at \in {"undo"} \cup Restoring
  /\ t.call = "apply" /\ c.at \in {"undo"} \cup Restoring => c.undo
  /\ c.at \in {"prepare"} \cup Applying =>
       t.call = "apply" /\ c.journal.operation = Operation(t)

\* What the journal on disk is when a call has returned.
Answers(c, t) ==
  /\ c.at = "idle" /\ c.result = "ok" =>
       IF t.call = "apply"
         THEN /\ journal # None
              /\ journal.operation = Operation(t)
              /\ journal.phase = "applied"
         ELSE journal = None
  /\ c.at = "idle" /\ c.result = "needs_commit" =>
       t.call = "recover" /\ Committable(journal)

(* What a handler has checked still holds: the settings ask for the        *)
(* override it applies, and the pair it restores is the pending one.       *)
Intends(t) ==
  /\ t.handler = "reconcile" => lidPref /\ legacy = None
  /\ t.call = "apply" /\ t.handler # "legacy" => lidPref /\ legacy = None
  /\ t.handler = "legacy" => t.pair \in Legacy /\ legacy \in {None, t.pair}

\* A journal that restores a legacy pair restores the pending one.
Carries(r) ==
  r # None /\ r.operation = "legacy_restore" /\ legacy # None =>
    r.applied = legacy

Sound(p) ==
  /\ Serves(ctl[p], task[p])
  /\ Answers(ctl[p], task[p])
  /\ Intends(task[p])
  /\ Carries(ctl[p].journal)

OneTask ==
  \A p, q \in Process : task[p] # NoTask /\ task[q] # NoTask => p = q

\* The settings of an override that is on display.
Wanted == task[App] = NoTask /\ status = "Applied" => lidPref /\ legacy = None

ModeTyped ==
  /\ running \in BOOLEAN
  /\ status \in Status
  /\ wake \in BOOLEAN
  /\ wakePref \in BOOLEAN
  /\ lidPref \in BOOLEAN
  /\ legacy \in Legacy \cup {None}
  /\ task \in [Process -> Task]

ModeInv ==
  /\ \A p \in Process : Sound(p)
  /\ OneTask
  /\ Carries(journal)
  /\ Wanted

USE DEF Field
-----------------------------------------------------------------------------
(***************************************************************************)
(* The program implements the transaction                                  *)
(***************************************************************************)

\* ctl has a controller for each process and for nothing else.
OneControllerEach == ctl = [p \in Process |-> ctl[p]]

\* A pair is restored only if there was one, and enabling recovers nothing.
WellFormed(t) ==
  /\ t.handler = "legacy" => t.pair \in Legacy
  /\ t.call \in {"recover", "commit"} => t.handler \notin {"none", "enable"}

ModeShape ==
  /\ ModeTyped
  /\ OneControllerEach
  /\ \A p \in Process : WellFormed(task[p])

LEMMA ShapeInit == VibecodeInit => ModeShape
<1>1. NoTask \in Task /\ WellFormed(NoTask)
  BY DEF NoTask, Task, WellFormed
<1>2. ASSUME VibecodeInit PROVE ModeTyped
  BY <1>1, <1>2 DEF VibecodeInit, ModeTyped, Status
<1>3. ASSUME VibecodeInit PROVE OneControllerEach
  BY <1>3 DEF VibecodeInit, Init, OneControllerEach
<1>4. ASSUME VibecodeInit, NEW p \in Process PROVE WellFormed(task[p])
  BY <1>1, <1>4 DEF VibecodeInit
<1>. QED  BY <1>2, <1>3, <1>4 DEF ModeShape

\* The steps that leave the settings, the status and the task well-typed.
LEMMA ContinueEach ==
  ASSUME OneControllerEach, NEW p \in Process, NEW c, Continue(p, c)
  PROVE  OneControllerEach'
BY DEF OneControllerEach, Continue

LEMMA WaitsTyped ==
  ASSUME task \in [Process -> Task], NEW p \in Process,
         NEW handler \in {"none", "init", "reconcile", "exit", "enable",
                          "disable", "legacy", "retry", "command"},
         NEW call \in {"none", "recover", "commit", "apply", "finish"},
         Waits(p, handler, call)
  PROVE  /\ task' \in [Process -> Task]
         /\ task'[p].handler = handler
         /\ task'[p].call = call
         /\ task'[p].wake = task[p].wake
         /\ task'[p].pair = task[p].pair
         /\ \A q \in Process : q # p => task'[q] = task[q]
BY DEF Waits, Task

LEMMA DoneTyped ==
  ASSUME task \in [Process -> Task], NEW p \in Process, Done(p)
  PROVE  /\ task' \in [Process -> Task]
         /\ task'[p] = NoTask
         /\ \A q \in Process : q # p => task'[q] = task[q]
BY DEF Done, NoTask, Task

\* A call, or the end of a handler, is a step of the transaction.
LEMMA CallsAreSteps ==
  ASSUME NEW p \in Process, Recover(p) \/ CommitLegacy(p)
  PROVE  Next
BY DEF Next, Call

LEMMA ApplyIsStep ==
  ASSUME NEW p \in Process,
         NEW operation \in {"persistent_override", "legacy_restore"},
         NEW desired \in Desired(operation), Apply(p, operation, desired)
  PROVE  Next
BY DEF Next, Call

LEMMA DoneIsStep ==
  ASSUME OneControllerEach, NEW p \in Process, Done(p),
         UNCHANGED <<power, journal, own, changes>>
  PROVE  [Next]_vars
<1>1. Continue(p, Idle)
  BY DEF Done
<1>2. CASE ctl[p] = Idle
  <2>1. ctl' = ctl
    BY <1>1, <1>2 DEF Continue, OneControllerEach
  <2>. QED  BY <2>1 DEF vars, power
<1>3. CASE ctl[p] # Idle
  BY <1>1, <1>3 DEF Next, Crash
<1>. QED  BY <1>2, <1>3

LEMMA StepEach ==
  ASSUME OneControllerEach, [Next]_vars
  PROVE  OneControllerEach'
<1>1. ASSUME NEW p \in Process, NEW c, Continue(p, c) PROVE OneControllerEach'
  BY <1>1, ContinueEach
<1>2. ASSUME NEW p \in Process, NEW at, GoTo(p, at) PROVE OneControllerEach'
  BY <1>1, <1>2 DEF GoTo
<1>3. ASSUME NEW p \in Process, Undo(p) PROVE OneControllerEach'
  BY <1>1, <1>3 DEF Undo
<1>4. ASSUME NEW p \in Process, NEW result, Return(p, result)
      PROVE  OneControllerEach'
  BY <1>1, <1>4 DEF Return
<1>5. ASSUME NEW p \in Process, NEW resolution, Resolve(p, resolution)
      PROVE  OneControllerEach'
  BY <1>1, <1>5 DEF Resolve
<1>6. ASSUME NEW p \in Process, LoadForRecovery(p) PROVE OneControllerEach'
  BY <1>1, <1>4, <1>6 DEF LoadForRecovery
<1>7. ASSUME NEW p \in Process, Call(p) PROVE OneControllerEach'
  BY <1>1, <1>4, <1>6, <1>7 DEF Call, Apply, Recover, CommitLegacy
<1>8. ASSUME NEW p \in Process, ControllerStep(p) PROVE OneControllerEach'
  <2>1. CASE SavePrepared(p) \/ WriteField(p) \/ Activate(p) \/ MarkApplied(p)
    BY <1>1, <1>2, <1>3, <1>4, <2>1
       DEF SavePrepared, WriteField, Activate, MarkApplied
  <2>2. CASE RecoverFailedApply(p)
    BY <1>6, <2>2 DEF RecoverFailedApply
  <2>3. CASE \/ SaveRestoring(p) \/ DecideField(p) \/ RestoreField(p)
             \/ SaveResolution(p) \/ FinishRestore(p) \/ DeleteJournal(p)
    BY <1>1, <1>2, <1>4, <1>5, <2>3
       DEF SaveRestoring, DecideField, RestoreField, SaveResolution,
           FinishRestore, DeleteJournal
  <2>. QED  BY <1>8, <2>1, <2>2, <2>3 DEF ControllerStep
<1>9. ASSUME NEW p \in Process, Crash(p) PROVE OneControllerEach'
  BY <1>1, <1>9 DEF Crash
<1>10. CASE User
  BY <1>10 DEF User, ChangeValue, SwitchScheme, OneControllerEach
<1>11. CASE UNCHANGED vars
  BY <1>11 DEF vars, OneControllerEach
<1>. QED  BY <1>7, <1>8, <1>9, <1>10, <1>11 DEF Next

LEMMA ShapeKept ==
  ASSUME ModeShape, ModeTyped', [Next]_vars,
         NEW p \in Process, WellFormed(task[p])',
         \A q \in Process : q # p => task'[q] = task[q]
  PROVE  ModeShape'
BY StepEach DEF ModeShape, WellFormed

\* The window's handlers up to their first call.
LEMMA BeginShape ==
  ASSUME VibecodeAssumption, PowerJournalAssumption, ModeShape,
         \/ Start \/ SessionContinues \/ RestoreForExit
         \/ Reconcile \/ RetryRecovery
         \/ Disable /\ Recover(App) /\ Waits(App, "disable", "recover")
         \/ \E p \in Process : RecoverCommand(p)
  PROVE  [Next]_vars /\ ModeShape'
<1>1. ASSUME NEW p \in Process, Recover(p),
             NEW handler \in {"init", "reconcile", "exit", "disable", "retry",
                              "command"},
             Waits(p, handler, "recover"),
             running' \in BOOLEAN, status' \in Status, wake' \in BOOLEAN,
             wakePref' \in BOOLEAN, lidPref' \in BOOLEAN, legacy' = legacy
      PROVE  [Next]_vars /\ ModeShape'
  <2>1. [Next]_vars
    BY <1>1, CallsAreSteps
  <2>2. /\ task' \in [Process -> Task]
        /\ task'[p].handler = handler
        /\ \A q \in Process : q # p => task'[q] = task[q]
    BY <1>1, WaitsTyped DEF ModeShape, ModeTyped
  <2>3. ModeTyped' /\ WellFormed(task[p])'
    BY <1>1, <2>2 DEF ModeShape, ModeTyped, WellFormed
  <2>. QED  BY <2>1, <2>2, <2>3, ShapeKept
<1>2. App \in Process
  BY DEF VibecodeAssumption
<1>3. CASE Start \/ SessionContinues
  <2>1. /\ Recover(App) /\ Waits(App, "init", "recover")
        /\ running' = TRUE /\ wake' \in {TRUE, wake}
        /\ UNCHANGED <<status, settings>>
    BY <1>3 DEF Start, SessionContinues, BeginInit
  <2>. QED  BY <1>1, <1>2, <2>1 DEF ModeShape, ModeTyped, settings
<1>4. CASE RestoreForExit
  BY <1>1, <1>2, <1>4 DEF RestoreForExit, ModeShape, ModeTyped, settings
<1>5. CASE Reconcile
  BY <1>1, <1>2, <1>5 DEF Reconcile, ModeShape, ModeTyped, settings
<1>6. CASE RetryRecovery
  BY <1>1, <1>2, <1>6 DEF RetryRecovery, ModeShape, ModeTyped, settings
<1>7. CASE Disable /\ Recover(App) /\ Waits(App, "disable", "recover")
  <2>1. /\ wake' = FALSE /\ wakePref' \in {FALSE, wakePref}
        /\ lidPref' \in {FALSE, lidPref} /\ status' \in {status, ErrorStatus}
        /\ UNCHANGED <<running, legacy>>
    BY <1>7 DEF Disable
  <2>2. ErrorStatus \in Status
    BY DEF ErrorStatus, Status
  <2>. QED  BY <1>1, <1>2, <1>7, <2>1, <2>2 DEF ModeShape, ModeTyped
<1>8. CASE \E p \in Process : RecoverCommand(p)
  BY <1>1, <1>8 DEF RecoverCommand, ModeShape, ModeTyped, settings
<1>. QED  BY <1>3, <1>4, <1>5, <1>6, <1>7, <1>8

\* The handlers that end before they call the controller.
LEMMA AtOnceShape ==
  ASSUME VibecodeAssumption, ModeShape, UNCHANGED <<vars, running, legacy, task>>,
         wake' \in BOOLEAN, wakePref' \in BOOLEAN, lidPref' \in BOOLEAN,
         status' \in Status
  PROVE  [Next]_vars /\ ModeShape'
BY DEF ModeShape, ModeTyped, OneControllerEach, WellFormed, vars

LEMMA RestoresLegacyShape ==
  ASSUME ModeShape, NEW p \in Process, RestoresLegacy(p), legacy # None,
         UNCHANGED <<running, status, wake, settings>>
  PROVE  [Next]_vars /\ ModeShape'
<1>1. [Next]_vars
  BY CallsAreSteps DEF RestoresLegacy
<1>2. legacy \in Legacy
  BY DEF ModeShape, ModeTyped
<1>3. /\ task' \in [Process -> Task]
      /\ task'[p].pair = legacy
      /\ task'[p].handler = "legacy"
      /\ \A q \in Process : q # p => task'[q] = task[q]
  BY <1>2 DEF RestoresLegacy, NoTask, Task, ModeShape, ModeTyped
<1>4. ModeTyped' /\ WellFormed(task[p])'
  BY <1>2, <1>3 DEF ModeShape, ModeTyped, WellFormed, settings
<1>. QED  BY <1>1, <1>3, <1>4, ShapeKept

LEMMA EnableShape ==
  ASSUME VibecodeAssumption, ModeShape, Enable
  PROVE  [Next]_vars /\ ModeShape'
<1>1. App \in Process
  BY DEF VibecodeAssumption
<1>2. [Next]_vars
  BY <1>1, ApplyIsStep DEF Enable, Desired
<1>3. /\ task' \in [Process -> Task]
      /\ task'[App].handler = "enable"
      /\ task'[App].call = "apply"
      /\ \A q \in Process : q # App => task'[q] = task[q]
  BY <1>1 DEF Enable, NoTask, Task, ModeShape, ModeTyped
<1>4. ModeTyped' /\ WellFormed(task[App])'
  BY <1>3 DEF Enable, ModeShape, ModeTyped, WellFormed
<1>. QED  BY <1>1, <1>2, <1>3, <1>4, ShapeKept

LEMMA BeginsShape ==
  ASSUME VibecodeAssumption, PowerJournalAssumption, ModeShape,
         ReconcileFails \/ Disable \/ EnableFails \/ EnableWake \/ RestoreLegacy
  PROVE  [Next]_vars /\ ModeShape'
<1>0. /\ App \in Process
      /\ ErrorStatus \in Status
      /\ \A s \in {"Applied", "RecoveryRequired", "LegacyRecoveryPending"} :
           s \in Status
  BY DEF VibecodeAssumption, ErrorStatus, Status
<1>1. CASE ReconcileFails
  BY <1>0, <1>1, AtOnceShape DEF ReconcileFails, ModeShape, ModeTyped, settings
<1>2. CASE Disable
  <2>1. CASE Recover(App) /\ Waits(App, "disable", "recover")
    BY <1>2, <2>1, BeginShape
  <2>2. CASE status' = ErrorStatus /\ UNCHANGED <<vars, lidPref, task>>
    BY <1>0, <1>2, <2>2, AtOnceShape DEF Disable, ModeShape, ModeTyped
  <2>. QED  BY <1>2, <2>1, <2>2 DEF Disable
<1>3. CASE EnableFails
  <2>1. /\ UNCHANGED <<vars, running, lidPref, legacy, task>>
        /\ wake' = wake
        /\ wakePref' \in BOOLEAN
        /\ status' \in {ErrorStatus, "LegacyRecoveryPending"}
    BY <1>3 DEF EnableFails, RollBackWake, ModeShape, ModeTyped
  <2>. QED  BY <1>0, <2>1, AtOnceShape DEF ModeShape, ModeTyped
<1>4. CASE EnableWake
  BY <1>0, <1>4, AtOnceShape DEF EnableWake, ModeShape, ModeTyped
<1>5. CASE RestoreLegacy
  <2>1. CASE legacy = None
    BY <1>0, <1>5, <2>1, AtOnceShape DEF RestoreLegacy, ModeShape, ModeTyped, settings
  <2>2. CASE legacy # None
    BY <1>0, <1>5, <2>2, RestoresLegacyShape DEF RestoreLegacy
  <2>. QED  BY <2>1, <2>2
<1>. QED  BY <1>1, <1>2, <1>3, <1>4, <1>5

\* The handlers after a call.
LEMMA EndsShape ==
  ASSUME ModeShape, NEW p \in Process, Done(p),
         UNCHANGED <<power, journal, own, changes>>,
         running' \in BOOLEAN, status' \in Status, wake' \in BOOLEAN,
         wakePref' \in BOOLEAN, lidPref' \in BOOLEAN, legacy' = legacy
  PROVE  [Next]_vars /\ ModeShape'
<1>1. [Next]_vars
  BY DoneIsStep DEF ModeShape
<1>2. /\ task' \in [Process -> Task]
      /\ task'[p] = NoTask
      /\ \A q \in Process : q # p => task'[q] = task[q]
  BY DoneTyped DEF ModeShape, ModeTyped
<1>3. ModeTyped' /\ WellFormed(task[p])'
  BY <1>2 DEF ModeShape, ModeTyped, WellFormed, NoTask
<1>. QED  BY <1>1, <1>2, <1>3, ShapeKept

LEMMA FailedShape ==
  ASSUME ModeShape, NEW p \in Process, NEW s \in Status, Failed(p, s)
  PROVE  [Next]_vars /\ ModeShape'
<1>1. status' \in Status
  BY DEF Failed, SetStatus, ModeShape, ModeTyped
<1>. QED  BY <1>1, EndsShape DEF Failed, ModeShape, ModeTyped, settings

LEMMA ClearsShape ==
  ASSUME ModeShape, NEW p \in Process, NEW call \in {"commit", "finish"},
         call = "commit" => task[p].call = "recover", ClearsLegacy(p, call)
  PROVE  [Next]_vars /\ ModeShape'
<1>1. [Next]_vars
  BY CallsAreSteps DEF ClearsLegacy
<1>2. task[p] \in Task
  BY DEF ModeShape, ModeTyped
<1>3. /\ task' \in [Process -> Task]
      /\ task'[p].handler = task[p].handler
      /\ task'[p].call = call
      /\ task'[p].pair = task[p].pair
      /\ \A q \in Process : q # p => task'[q] = task[q]
  BY <1>2, WaitsTyped DEF ClearsLegacy, ModeShape, ModeTyped, Task
<1>4. ModeTyped' /\ WellFormed(task[p])'
  BY <1>3 DEF ClearsLegacy, ModeShape, ModeTyped, WellFormed
<1>. QED  BY <1>1, <1>3, <1>4, ShapeKept

LEMMA AppliesShape ==
  ASSUME ModeShape, NEW p \in Process,
         NEW operation \in {"persistent_override", "legacy_restore"},
         NEW desired \in Desired(operation), Apply(p, operation, desired),
         Waits(p, task[p].handler, "apply"),
         UNCHANGED <<running, status, wake, settings>>
  PROVE  [Next]_vars /\ ModeShape'
<1>1. [Next]_vars
  BY ApplyIsStep
<1>2. task[p] \in Task
  BY DEF ModeShape, ModeTyped
<1>3. /\ task' \in [Process -> Task]
      /\ task'[p].handler = task[p].handler
      /\ task'[p].call = "apply"
      /\ task'[p].pair = task[p].pair
      /\ \A q \in Process : q # p => task'[q] = task[q]
  BY <1>2, WaitsTyped DEF ModeShape, ModeTyped, Task
<1>4. ModeTyped' /\ WellFormed(task[p])'
  BY <1>3 DEF ModeShape, ModeTyped, WellFormed, settings
<1>. QED  BY <1>1, <1>3, <1>4, ShapeKept

LEMMA AfterRecoveryShape ==
  ASSUME ModeShape, NEW p \in Process, AfterRecovery(p)
  PROVE  [Next]_vars /\ ModeShape'
<1>1. /\ RestedStatus \in Status
      /\ "Disabled" \in Status
      /\ status \in Status
      /\ task[p] \in Task
  BY DEF RestedStatus, Status, ModeShape, ModeTyped
<1>2. ASSUME NEW s \in Status, Succeeded(p, s) PROVE [Next]_vars /\ ModeShape'
  BY <1>2, FailedShape DEF Succeeded
<1>3. CASE AppliesOverride(p)
  BY <1>3, AppliesShape DEF AppliesOverride, Desired
<1>4. CASE /\ task[p].handler = "legacy"
           /\ Apply(p, "legacy_restore", task[p].pair)
           /\ Waits(p, "legacy", "apply")
           /\ UNCHANGED <<running, status, wake, settings>>
  BY <1>4, AppliesShape DEF Desired, ModeShape, WellFormed
<1>5. CASE /\ legacy # None
           /\ RestoresLegacy(p)
           /\ UNCHANGED <<running, status, wake, settings>>
  BY <1>5, RestoresLegacyShape
<1>6. CASE task[p].handler \in {"exit", "disable"}
  BY <1>1, <1>2, <1>6 DEF AfterRecovery
<1>7. CASE task[p].handler \in {"init", "retry"}
  BY <1>1, <1>2, <1>3, <1>7 DEF AfterRecovery
<1>8. CASE task[p].handler = "reconcile"
  BY <1>1, <1>2, <1>3, <1>8 DEF AfterRecovery
<1>9. CASE task[p].handler = "legacy"
  BY <1>4, <1>9 DEF AfterRecovery
<1>10. CASE task[p].handler = "command"
  BY <1>1, <1>2, <1>5, <1>10 DEF AfterRecovery
<1>11. task[p].handler \notin {"none", "enable"}
  BY DEF AfterRecovery, Returned, ModeShape, WellFormed
<1>. QED  BY <1>1, <1>6, <1>7, <1>8, <1>9, <1>10, <1>11 DEF Task

LEMMA HandlerShape ==
  ASSUME PowerJournalAssumption, ModeShape, NEW p \in Process, Handler(p)
  PROVE  [Next]_vars /\ ModeShape'
<1>1. /\ ErrorStatus \in Status
      /\ \A s \in {"Applied", "Disabled", "RecoveryRequired"} : s \in Status
      /\ task[p] \in Task
  BY DEF ErrorStatus, Status, ModeShape, ModeTyped
<1>2. CASE ControllerStep(p) /\ UNCHANGED mode
  <2>1. [Next]_vars
    BY <1>2 DEF Next
  <2>2. UNCHANGED <<running, status, wake, wakePref, lidPref, legacy, task>>
    BY <1>2 DEF mode
  <2>. QED  BY <2>1, <2>2, StepEach DEF ModeShape, ModeTyped, WellFormed
<1>3. ASSUME NEW s \in Status, Failed(p, s) PROVE [Next]_vars /\ ModeShape'
  BY <1>3, FailedShape
<1>4. CASE Finalize(p)
  BY <1>1, <1>3, <1>4, ClearsShape DEF Finalize, Returned
<1>5. CASE RecoveryFails(p)
  BY <1>1, <1>3, <1>5 DEF RecoveryFails
<1>6. CASE AfterRecovery(p)
  BY <1>6, AfterRecoveryShape
<1>7. CASE AfterApply(p)
  <2>1. CASE ClearsLegacy(p, "finish")
    BY <2>1, ClearsShape
  <2>. QED  BY <1>1, <1>3, <1>7, <2>1 DEF AfterApply, Succeeded
<1>8. CASE AfterLegacy(p)
  BY <1>1, <1>3, <1>8 DEF AfterLegacy, Succeeded
<1>9. CASE AfterFailedApply(p)
  <2>1. CASE task[p].handler = "enable"
    <3>1. /\ Done(p)
          /\ UNCHANGED <<power, journal, own, changes, running, legacy>>
          /\ lidPref' \in {FALSE, lidPref}
          /\ wake' = task[p].wake
          /\ wakePref' \in {task[p].wake, TRUE}
          /\ status' \in {ErrorStatus}
      BY <1>9, <2>1 DEF AfterFailedApply, RollBackWake
    <3>. QED  BY <1>1, <3>1, EndsShape DEF ModeShape, ModeTyped, Task
  <2>2. CASE task[p].handler # "enable"
    BY <1>1, <1>3, <1>9, <2>2 DEF AfterFailedApply
  <2>. QED  BY <2>1, <2>2
<1>. QED  BY <1>2, <1>4, <1>5, <1>6, <1>7, <1>8, <1>9 DEF Handler

LEMMA DieShape ==
  ASSUME ModeShape, NEW p \in Process, Die(p)
  PROVE  [Next]_vars /\ ModeShape'
<1>1. /\ running' \in BOOLEAN /\ status' \in Status /\ wake' \in BOOLEAN
      /\ UNCHANGED <<wakePref, lidPref, legacy>>
  BY DEF Die, ModeShape, ModeTyped, Status, settings
<1>. QED  BY <1>1, EndsShape DEF Die, ModeShape, ModeTyped

LEMMA VibecodeShape ==
  ASSUME VibecodeAssumption, PowerJournalAssumption, ModeShape,
         [VibecodeNext]_allVars
  PROVE  [Next]_vars /\ ModeShape'
<1>1. CASE Start \/ SessionContinues \/ RestoreForExit \/ Reconcile
             \/ RetryRecovery \/ \E p \in Process : RecoverCommand(p)
  BY <1>1, BeginShape
<1>2. CASE ReconcileFails \/ Disable \/ EnableFails \/ EnableWake \/ RestoreLegacy
  BY <1>2, BeginsShape
<1>3. CASE Enable
  BY <1>3, EnableShape
<1>4. CASE \E p \in Process : Handler(p) \/ Die(p)
  BY <1>4, HandlerShape, DieShape
<1>5. CASE User /\ UNCHANGED mode
  <2>1. UNCHANGED <<running, status, wake, wakePref, lidPref, legacy, task>>
    BY <1>5 DEF mode
  <2>2. [Next]_vars
    BY <1>5 DEF Next
  <2>. QED  BY <2>1, <2>2, StepEach DEF ModeShape, ModeTyped, WellFormed
<1>6. CASE UNCHANGED allVars
  <2>1. /\ UNCHANGED <<running, status, wake, wakePref, lidPref, legacy, task>>
        /\ UNCHANGED vars
    BY <1>6 DEF allVars, mode
  <2>. QED  BY <2>1, StepEach DEF ModeShape, ModeTyped, WellFormed
<1>. QED  BY <1>1, <1>2, <1>3, <1>4, <1>5, <1>6 DEF VibecodeNext

(* Every behaviour of the program is one of the lid-policy transaction: a  *)
(* handler of vibecode.rs calls the controller only when it is idle, and   *)
(* with an operation the transaction provides for.                         *)
THEOREM UsesTransaction == VibecodeSpec => Spec
<1>1. VibecodeInit => Init /\ ModeShape
  BY ShapeInit DEF VibecodeInit
<1>2. ModeShape /\ [VibecodeNext]_allVars => [Next]_vars /\ ModeShape'
  BY VibecodeShape, VibecodeAssumption, PowerJournalAssumption
<1>. QED  BY <1>1, <1>2, PTL DEF VibecodeSpec, Spec
-----------------------------------------------------------------------------
(***************************************************************************)
(* What a call does to what its handler relies on                          *)
(***************************************************************************)
Sole(p) == \A q \in Process : q # p => task[q] = NoTask

\* A process in no handler relies on nothing.
LEMMA Rests ==
  ASSUME NEW p \in Process, ctl[p] = Idle, task[p] = NoTask
  PROVE  Sound(p)
<1>1. /\ Idle.at = "idle" /\ ~ Idle.undo /\ Idle.result = "none"
      /\ Idle.journal = None
  BY DEF Idle
<1>2. NoTask.handler = "none" /\ NoTask.call = "none"
  BY DEF NoTask
<1>. QED
  BY <1>1, <1>2
     DEF Sound, Serves, Answers, Intends, Carries, Applying, Restoring

LEMMA ComesToRest ==
  ASSUME NEW p \in Process, ctl'[p] = Idle, task'[p] = NoTask
  PROVE  Sound(p)'
<1>1. /\ Idle.at = "idle" /\ ~ Idle.undo /\ Idle.result = "none"
      /\ Idle.journal = None
  BY DEF Idle
<1>2. NoTask.handler = "none" /\ NoTask.call = "none"
  BY DEF NoTask
<1>. QED
  BY <1>1, <1>2
     DEF Sound, Serves, Answers, Intends, Carries, Applying, Restoring

LEMMA BusySole ==
  ASSUME ModeInv, NEW p \in Process, task[p] # NoTask
  PROVE  Sole(p)
BY DEF ModeInv, OneTask, Sole

LEMMA FreeSole ==
  ASSUME ~ Racing, NEW p \in Process, Free(p)
  PROVE  Sole(p)
BY DEF Free, Sole

LEMMA OnlyOne ==
  ASSUME ModeInv, NEW p \in Process, Sole(p),
         \A q \in Process : q # p => task'[q] = task[q] /\ ctl'[q] = ctl[q],
         Sound(p)', Carries(journal)', Wanted'
  PROVE  ModeInv'
<1>1. ASSUME NEW q \in Process, q # p
      PROVE  task'[q] = NoTask /\ ctl'[q] = Idle
  BY <1>1 DEF Sole, ModeInv, Sound, Serves
<1>2. ASSUME NEW q \in Process, q # p PROVE Sound(q)'
  BY <1>1, <1>2, ComesToRest
<1>3. OneTask'
  BY <1>1 DEF OneTask
<1>. QED  BY <1>2, <1>3 DEF ModeInv

LEMMA Continues ==
  ASSUME OneControllerEach, NEW p \in Process, NEW c, Continue(p, c)
  PROVE  /\ ctl'[p] = c
         /\ \A q \in Process : q # p => ctl'[q] = ctl[q]
BY DEF OneControllerEach, Continue

\* A call that has returned is answered by what is on disk.
LEMMA ReturnSound ==
  ASSUME OneControllerEach, NEW p \in Process,
         NEW result \in {"ok", "needs_commit", "failed", "unverified"},
         Return(p, result), task'[p].call # "none", Intends(task[p])',
         ~ ctl[p].undo =>
           /\ result = "ok" =>
                IF task'[p].call = "apply"
                  THEN /\ journal' # None
                       /\ journal'.operation = Operation(task'[p])
                       /\ journal'.phase = "applied"
                  ELSE journal' = None
           /\ result = "needs_commit" =>
                task'[p].call = "recover" /\ Committable(journal')
  PROVE  /\ Sound(p)'
         /\ \A q \in Process : q # p => ctl'[q] = ctl[q]
<1> DEFINE c == [Idle EXCEPT
      !.result = IF ctl[p].undo /\ result \in {"ok", "needs_commit"}
                   THEN "failed" ELSE result,
      !.disturbed = ctl[p].disturbed /\ result = "unverified"]
<1>1. /\ c.at = "idle" /\ ~ c.undo /\ c.journal = None
      /\ c.result \in {"ok", "needs_commit"} => ~ ctl[p].undo /\ c.result = result
  BY DEF Idle
<1>2. Continue(p, c)
  BY DEF Return
<1> HIDE DEF c
<1>3. ctl'[p] = c /\ \A q \in Process : q # p => ctl'[q] = ctl[q]
  BY <1>2, Continues
<1>4. task'[p] # NoTask
  BY DEF NoTask
<1>5. Serves(ctl'[p], task'[p])
  BY <1>1, <1>3, <1>4 DEF Serves, Applying, Restoring
<1>6. Answers(ctl[p], task[p])'
  BY <1>1, <1>3 DEF Answers, Operation, Committable
<1>7. Carries(ctl[p].journal)'
  BY <1>1, <1>3 DEF Carries
<1>8. Serves(ctl[p], task[p])'
  BY <1>5 DEF Serves, Operation
<1>. QED  BY <1>3, <1>6, <1>7, <1>8 DEF Sound

\* A controller that works on has not answered yet.
LEMMA WorksSound ==
  ASSUME OneControllerEach, NEW p \in Process, NEW c, Continue(p, c),
         c.at # "idle", Serves(c, task'[p]), Intends(task[p])',
         Carries(ctl[p].journal)'
  PROVE  /\ Sound(p)'
         /\ \A q \in Process : q # p => ctl'[q] = ctl[q]
<1>1. ctl'[p] = c /\ \A q \in Process : q # p => ctl'[q] = ctl[q]
  BY Continues
<1>2. Serves(ctl[p], task[p])'
  BY <1>1 DEF Serves, Operation
<1>3. Answers(ctl[p], task[p])'
  BY <1>1 DEF Answers
<1>. QED  BY <1>1, <1>2, <1>3 DEF Sound

LEMMA LoadSound ==
  ASSUME IInv, OneControllerEach, NEW p \in Process, LoadForRecovery(p),
         task'[p] # NoTask, Intends(task[p])', Carries(journal), legacy' = legacy,
         \/ task'[p].call = "recover" /\ ~ ctl[p].undo
         \/ task'[p].call = "apply" /\ ctl[p].undo
  PROVE  /\ Sound(p)' /\ Carries(journal)'
         /\ \A q \in Process : q # p => ctl'[q] = ctl[q]
<1> USE DEF IInv
<1>1. journal' = journal
  BY DEF LoadForRecovery
<1>2. Carries(journal)'
  BY <1>1 DEF Carries
<1>3. CASE Return(p, "failed")
  BY <1>2, <1>3, ReturnSound
<1>4. CASE journal = None /\ Return(p, "ok")
  BY <1>1, <1>2, <1>4, ReturnSound
<1>5. CASE Committable(journal) /\ Return(p, "needs_commit")
  BY <1>1, <1>2, <1>5, ReturnSound
<1>6. CASE /\ journal # None /\ ~ Committable(journal)
           /\ Continue(p, [ctl[p] EXCEPT !.at = "restoring", !.field = "ac",
                             !.journal = RestoringJournal(journal),
                             !.disturbed = FALSE, !.result = "none"])
  <2> DEFINE r == RestoringJournal(journal)
             c == [ctl[p] EXCEPT !.at = "restoring", !.field = "ac",
                     !.journal = r, !.disturbed = FALSE, !.result = "none"]
  <2>1. r.operation = journal.operation /\ r.applied = journal.applied
    BY <1>6 DEF Safe, RestoringJournal, PowerJournal
  <2> HIDE DEF r
  <2>2. c.at = "restoring" /\ c.journal = r /\ c.undo = ctl[p].undo
    BY DEF Controlled, Control
  <2>3. Continue(p, c)
    BY <1>6 DEF r
  <2> HIDE DEF c
  <2>4. Serves(c, task'[p])
    BY <2>2 DEF Serves, Restoring, Applying
  <2>5. Carries(ctl[p].journal)'
    BY <1>6, <2>1, <2>2, <2>3, Continues DEF Carries
  <2>. QED  BY <1>2, <2>2, <2>3, <2>4, <2>5, WorksSound
<1>. QED  BY <1>3, <1>4, <1>5, <1>6 DEF LoadForRecovery

LEMMA RecoverSound ==
  ASSUME IInv, OneControllerEach, NEW p \in Process, Sound(p), Recover(p),
         task'[p].call = "recover", Intends(task[p])', Carries(journal),
         legacy' = legacy
  PROVE  /\ Sound(p)' /\ Carries(journal)'
         /\ \A q \in Process : q # p => ctl'[q] = ctl[q]
<1>1. ~ ctl[p].undo /\ task'[p] # NoTask
  BY DEF Recover, MayCall, Sound, Serves, Restoring, NoTask
<1>. QED  BY <1>1, LoadSound DEF Recover

LEMMA ApplySound ==
  ASSUME OneControllerEach, NEW p \in Process, NEW operation, NEW desired,
         Apply(p, operation, desired), Sound(p),
         task'[p].call = "apply", operation = Operation(task'[p]),
         Intends(task[p])', Carries(journal), legacy' = legacy,
         operation = "legacy_restore" /\ legacy # None => desired = legacy
  PROVE  /\ Sound(p)' /\ Carries(journal)'
         /\ \A q \in Process : q # p => ctl'[q] = ctl[q]
<1>1. Carries(journal)'
  BY DEF Apply, Carries
<1>2. CASE Return(p, "failed")
  BY <1>1, <1>2, ReturnSound
<1>3. CASE Continue(p, [Idle EXCEPT !.at = "prepare",
                          !.journal = PreparedJournal(operation, desired)])
  <2> DEFINE r == PreparedJournal(operation, desired)
             c == [Idle EXCEPT !.at = "prepare", !.journal = r]
  <2>1. r.operation = operation /\ r.applied = desired
    BY DEF PreparedJournal
  <2> HIDE DEF r
  <2>2. c.at = "prepare" /\ c.journal = r /\ ~ c.undo
    BY DEF Idle
  <2>3. Continue(p, c)
    BY <1>3 DEF r
  <2> HIDE DEF c
  <2>4. Serves(c, task'[p])
    BY <2>1, <2>2 DEF Serves, Restoring, Applying, NoTask
  <2>5. Carries(ctl[p].journal)'
    BY <2>1, <2>2, <2>3, Continues DEF Carries
  <2>. QED  BY <1>1, <2>2, <2>3, <2>4, <2>5, WorksSound
<1>. QED  BY <1>2, <1>3 DEF Apply

LEMMA CommitSound ==
  ASSUME OneControllerEach, NEW p \in Process, CommitLegacy(p),
         task'[p].call \in {"commit", "finish"}, Intends(task[p])', legacy' = None
  PROVE  /\ Sound(p)' /\ Carries(journal)'
         /\ \A q \in Process : q # p => ctl'[q] = ctl[q]
<1>1. Carries(journal)'
  BY DEF Carries
<1>2. CASE Return(p, "failed")
  BY <1>1, <1>2, ReturnSound
<1>3. CASE journal' = None /\ Return(p, "ok")
  BY <1>1, <1>3, ReturnSound
<1>. QED  BY <1>2, <1>3 DEF CommitLegacy

LEMMA DoneSound ==
  ASSUME OneControllerEach, task \in [Process -> Task], NEW p \in Process, Done(p)
  PROVE  /\ Sound(p)'
         /\ task'[p] = NoTask
         /\ \A q \in Process : q # p => task'[q] = task[q] /\ ctl'[q] = ctl[q]
<1>1. /\ ctl'[p] = Idle
      /\ \A q \in Process : q # p => ctl'[q] = ctl[q]
  BY Continues DEF Done
<1>2. task'[p] = NoTask /\ \A q \in Process : q # p => task'[q] = task[q]
  BY DoneTyped
<1>. QED  BY <1>1, <1>2, ComesToRest
-----------------------------------------------------------------------------
(***************************************************************************)
(* The steps of a controller                                               *)
(***************************************************************************)

\* A controller goes on with the journal it has, or a later form of it.
LEMMA GoesOnSound ==
  ASSUME OneControllerEach, NEW p \in Process, Sound(p),
         UNCHANGED <<task, lidPref, legacy>>, NEW c, Continue(p, c),
         \/ ctl[p].at \in {"prepare"} \cup Applying /\ c.at \in Applying
         \/ ctl[p].at \in Restoring /\ c.at \in Restoring,
         c.undo = ctl[p].undo, ctl[p].journal # None,
         c.journal.operation = ctl[p].journal.operation,
         c.journal.applied = ctl[p].journal.applied
  PROVE  /\ Sound(p)'
         /\ \A q \in Process : q # p => ctl'[q] = ctl[q]
<1>1. ctl'[p] = c
  BY Continues
<1>2. Intends(task[p])'
  BY DEF Sound, Intends
<1>3. c.at # "idle" /\ Serves(c, task'[p])
  <2>1. Idle.at = "idle"
    BY DEF Idle
  <2>2. task[p] # NoTask
    BY <2>1 DEF Sound, Serves, Applying, Restoring
  <2>. QED  BY <2>2 DEF Sound, Serves, Applying, Restoring
<1>4. Carries(ctl[p].journal)'
  BY <1>1 DEF Sound, Carries
<1>. QED  BY <1>2, <1>3, <1>4, WorksSound

LEMMA UndoSound ==
  ASSUME Controlled, OneControllerEach, NEW p \in Process, Sound(p),
         UNCHANGED <<task, lidPref, legacy>>, Undo(p),
         ctl[p].at \in Applying
  PROVE  /\ Sound(p)'
         /\ \A q \in Process : q # p => ctl'[q] = ctl[q]
<1> DEFINE c == [ctl[p] EXCEPT !.at = "undo", !.undo = TRUE]
<1>1. c.at = "undo" /\ c.undo /\ c.journal = ctl[p].journal
  BY DEF Controlled, Control
<1>2. Continue(p, c)
  BY DEF Undo
<1> HIDE DEF c
<1>3. ctl'[p] = c
  BY <1>2, Continues
<1>4. Intends(task[p])'
  BY DEF Sound, Intends
<1>5. c.at # "idle" /\ Serves(c, task'[p])
  <2>1. Idle.at = "idle"
    BY DEF Idle
  <2>2. task[p] # NoTask
    BY <2>1 DEF Sound, Serves, Applying
  <2>. QED  BY <1>1, <2>2 DEF Sound, Serves, Applying, Restoring
<1>6. Carries(ctl[p].journal)'
  BY <1>1, <1>3 DEF Sound, Carries
<1>. QED  BY <1>2, <1>4, <1>5, <1>6, WorksSound

LEMMA ApplyingSound ==
  ASSUME PowerJournalAssumption, IInv, OneControllerEach,
         NEW p \in Process, Sound(p), Carries(journal),
         UNCHANGED <<task, lidPref, legacy>>,
         SavePrepared(p) \/ WriteField(p) \/ Activate(p) \/ MarkApplied(p)
  PROVE  /\ Sound(p)' /\ Carries(journal)'
         /\ \A q \in Process : q # p => ctl'[q] = ctl[q]
<1> USE DEF IInv
<1> DEFINE r == ctl[p].journal
<1>1. /\ ctl[p] \in Control
      /\ ctl[p].at \in {"prepare"} \cup Applying
      /\ r \in PowerJournal /\ r # None
  BY DEF Controlled, Control, Equipped, SavePrepared, WriteField, Activate,
         MarkApplied, Applying
<1>2. /\ task[p].call = "apply" /\ r.operation = Operation(task[p])
      /\ ~ ctl[p].undo
      /\ Intends(task[p])'
  BY <1>1 DEF Sound, Serves, Intends, Applying, Restoring
<1>3. Carries(journal)'
  <2>1. CASE MarkApplied(p)
    <3>1. journal' \in {journal, [r EXCEPT !.phase = "applied"]}
      BY <2>1 DEF MarkApplied, Applied, Save
    <3>. QED  BY <1>1, <3>1 DEF Sound, Carries, PowerJournal
  <2>2. CASE ~ MarkApplied(p)
    <3>1. journal' \in {journal, r}
      BY <2>2 DEF SavePrepared, WriteField, Activate, Save, SaveFails
    <3>. QED  BY <1>1, <3>1 DEF Sound, Carries
  <2>. QED  BY <2>1, <2>2
<1>4. CASE Return(p, "failed")
  BY <1>2, <1>3, <1>4, ReturnSound
<1>5. CASE Undo(p) /\ ctl[p].at \in Applying
  BY <1>3, <1>5, UndoSound
<1>6. ASSUME NEW at \in Applying, GoTo(p, at)
      PROVE  Sound(p)' /\ \A q \in Process : q # p => ctl'[q] = ctl[q]
  <2> DEFINE c == [ctl[p] EXCEPT !.at = at]
  <2>1. c.at = at /\ c.undo = ctl[p].undo /\ c.journal = r
    BY <1>1 DEF Control
  <2>2. Continue(p, c)
    BY <1>6 DEF GoTo
  <2> HIDE DEF c
  <2>. QED  BY <1>1, <1>6, <2>1, <2>2, GoesOnSound
<1>7. CASE ctl[p].at = "write" /\ Continue(p, [ctl[p] EXCEPT !.field = "dc"])
  <2> DEFINE c == [ctl[p] EXCEPT !.field = "dc"]
  <2>1. c.at = "write" /\ c.undo = ctl[p].undo /\ c.journal = r
    BY <1>1, <1>7 DEF Control
  <2>2. Continue(p, c)
    BY <1>7
  <2> HIDE DEF c
  <2>. QED  BY <1>1, <1>3, <2>1, <2>2, GoesOnSound DEF Applying
<1>8. CASE MarkApplied(p) /\ Return(p, "ok") /\ ~ Undo(p)
  <2> DEFINE k == [r EXCEPT !.phase = "applied"]
  <2>1. journal' \in {k, journal}
    BY <1>8 DEF MarkApplied, Applied, Save
  <2>2. journal' = k \/ Return(p, "failed")
    BY <1>8 DEF MarkApplied, Applied, Save
  <2>3. /\ k \in PowerJournal /\ k.operation = r.operation
        /\ k.phase = "applied"
    BY <1>1 DEF PowerJournal
  <2>4. k # None
    BY <2>3 DEF PowerJournal, PowerJournalAssumption
  <2>. QED  BY <1>2, <1>3, <1>4, <1>8, <2>2, <2>3, <2>4, ReturnSound
<1>9. CASE SavePrepared(p)
  BY <1>3, <1>4, <1>6, <1>9 DEF SavePrepared, Applying
<1>10. CASE WriteField(p)
  BY <1>3, <1>5, <1>6, <1>7, <1>10 DEF WriteField, Applying
<1>11. CASE Activate(p)
  BY <1>3, <1>5, <1>6, <1>11 DEF Activate, Applying
<1>12. CASE MarkApplied(p)
  BY <1>3, <1>5, <1>8, <1>12 DEF MarkApplied, Applying
<1>. QED  BY <1>9, <1>10, <1>11, <1>12

LEMMA RestoringSound ==
  ASSUME IInv, OneControllerEach, NEW p \in Process, Sound(p), Carries(journal),
         UNCHANGED <<task, lidPref, legacy>>,
         \/ SaveRestoring(p) \/ DecideField(p) \/ RestoreField(p)
         \/ SaveResolution(p) \/ FinishRestore(p) \/ DeleteJournal(p)
  PROVE  /\ Sound(p)' /\ Carries(journal)'
         /\ \A q \in Process : q # p => ctl'[q] = ctl[q]
<1> USE DEF IInv
<1> DEFINE r == ctl[p].journal
           f == ctl[p].field
<1>1. ctl[p].at \in Restoring
  BY DEF SaveRestoring, DecideField, RestoreField, SaveResolution,
         FinishRestore, DeleteJournal, Restoring
<1>2. /\ ctl[p] \in Control /\ f \in Field
      /\ r \in PowerJournal /\ r # None
  BY <1>1, RestoringHolds
<1>3. /\ task[p].call \in {"recover", "apply"}
      /\ task[p].call = "apply" => ctl[p].undo
      /\ Intends(task[p])'
  BY <1>1 DEF Sound, Serves, Intends, Restoring
<1>4. journal' \in {journal, r, None}
  BY DEF SaveRestoring, DecideField, RestoreField, SaveResolution,
         FinishRestore, DeleteJournal, Save, SaveFails, power
<1>5. Carries(journal)'
  BY <1>2, <1>4 DEF Sound, Carries
<1>6. CASE Return(p, "failed") \/ Return(p, "unverified")
  BY <1>3, <1>5, <1>6, ReturnSound
<1>7. ASSUME NEW at \in Restoring, GoTo(p, at)
      PROVE  Sound(p)' /\ \A q \in Process : q # p => ctl'[q] = ctl[q]
  <2> DEFINE c == [ctl[p] EXCEPT !.at = at]
  <2>1. c.at = at /\ c.undo = ctl[p].undo /\ c.journal = r
    BY <1>2 DEF Control
  <2>2. Continue(p, c)
    BY <1>7 DEF GoTo
  <2> HIDE DEF c
  <2>. QED  BY <1>1, <1>2, <1>7, <2>1, <2>2, GoesOnSound
<1>8. CASE Continue(p, [ctl[p] EXCEPT !.at = "decide", !.field = "dc"])
  <2> DEFINE c == [ctl[p] EXCEPT !.at = "decide", !.field = "dc"]
  <2>1. c.at = "decide" /\ c.undo = ctl[p].undo /\ c.journal = r
    BY <1>2 DEF Control
  <2>2. Continue(p, c)
    BY <1>8
  <2> HIDE DEF c
  <2>. QED  BY <1>1, <1>2, <1>5, <2>1, <2>2, GoesOnSound DEF Restoring
<1>9. ASSUME NEW resolution \in {"restored", "relinquished"},
             Resolve(p, resolution)
      PROVE  Sound(p)' /\ \A q \in Process : q # p => ctl'[q] = ctl[q]
  <2> DEFINE k == [r EXCEPT !.restoration[f] = resolution]
             c == [ctl[p] EXCEPT !.at = "resolve", !.journal = k]
  <2>1. k.operation = r.operation /\ k.applied = r.applied
    BY <1>2 DEF PowerJournal
  <2>2. Continue(p, [ctl[p] EXCEPT !.at = "resolve",
                       !.journal.restoration[f] = resolution])
    BY <1>9 DEF Resolve
  <2>3. Continue(p, c)
    BY <1>2, <2>2 DEF Control, PowerJournal
  <2> HIDE DEF k
  <2>4. c.at = "resolve" /\ c.undo = ctl[p].undo /\ c.journal = k
    BY <1>2 DEF Control
  <2> HIDE DEF c
  <2>. QED  BY <1>1, <1>2, <2>1, <2>3, <2>4, GoesOnSound DEF Restoring
<1>10. CASE journal' = None /\ Return(p, "ok")
  BY <1>3, <1>5, <1>10, ReturnSound
<1>11. CASE SaveRestoring(p)
  BY <1>5, <1>6, <1>7, <1>11 DEF SaveRestoring, Restoring
<1>12. CASE DecideField(p)
  BY <1>5, <1>6, <1>7, <1>9, <1>12 DEF DecideField, Restoring
<1>13. CASE RestoreField(p)
  BY <1>5, <1>6, <1>9, <1>13 DEF RestoreField
<1>14. CASE SaveResolution(p)
  BY <1>5, <1>6, <1>7, <1>8, <1>14 DEF SaveResolution, Restoring
<1>15. CASE FinishRestore(p)
  BY <1>5, <1>6, <1>7, <1>15 DEF FinishRestore, Restoring
<1>16. CASE DeleteJournal(p)
  BY <1>5, <1>6, <1>10, <1>16 DEF DeleteJournal
<1>. QED  BY <1>11, <1>12, <1>13, <1>14, <1>15, <1>16

LEMMA ControllerSound ==
  ASSUME PowerJournalAssumption, IInv, ModeShape, ModeInv, NEW p \in Process,
         ControllerStep(p), UNCHANGED mode
  PROVE  ModeInv'
<1>1. UNCHANGED <<status, lidPref, legacy, task>>
  BY DEF mode
<1>2. Sound(p) /\ Carries(journal) /\ OneControllerEach
  BY DEF ModeInv, ModeShape
<1>3. ctl[p].at # "idle"
  BY DEF ControllerStep, SavePrepared, WriteField, Activate, MarkApplied,
         RecoverFailedApply, SaveRestoring, DecideField, RestoreField,
         SaveResolution, FinishRestore, DeleteJournal
<1>4. task[p] # NoTask
  BY <1>2, <1>3 DEF Sound, Serves, Idle
<1>5. /\ Sound(p)' /\ Carries(journal)'
      /\ \A q \in Process : q # p => ctl'[q] = ctl[q]
  <2>1. CASE SavePrepared(p) \/ WriteField(p) \/ Activate(p) \/ MarkApplied(p)
    BY <1>1, <1>2, <2>1, ApplyingSound
  <2>2. CASE \/ SaveRestoring(p) \/ DecideField(p) \/ RestoreField(p)
             \/ SaveResolution(p) \/ FinishRestore(p) \/ DeleteJournal(p)
    BY <1>1, <1>2, <2>2, RestoringSound
  <2>3. CASE RecoverFailedApply(p)
    <3>1. LoadForRecovery(p) /\ ctl[p].at = "undo"
      BY <2>3 DEF RecoverFailedApply
    <3>2. task[p].call \in {"recover", "apply"}
      BY <1>2, <1>3 DEF Sound, Serves
    <3>3. task'[p].call = "apply" => ctl[p].undo
      BY <1>1, <1>2, <3>1 DEF Sound, Serves
    <3>4. task'[p].call = "recover" => ~ ctl[p].undo
      BY <1>1, <1>2 DEF Sound, Serves
    <3>5. Intends(task[p])'
      BY <1>1, <1>2 DEF Sound, Intends
    <3>. QED  BY <1>1, <1>2, <1>4, <3>1, <3>2, <3>3, <3>4, <3>5, LoadSound
  <2>. QED  BY <2>1, <2>2, <2>3 DEF ControllerStep
<1>6. Wanted'
  BY <1>1 DEF ModeInv, Wanted
<1>. QED  BY <1>1, <1>4, <1>5, <1>6, BusySole, OnlyOne
-----------------------------------------------------------------------------
(***************************************************************************)
(* The steps of a handler                                                  *)
(***************************************************************************)

\* A handler that waits for a call waits for nothing else.
LEMMA WaitsSound ==
  ASSUME ModeShape, ModeInv, NEW p \in Process, Sole(p),
         NEW handler \in {"none", "init", "reconcile", "exit", "enable",
                          "disable", "legacy", "retry", "command"},
         NEW call \in {"recover", "commit", "apply", "finish"},
         Waits(p, handler, call),
         Sound(p)', Carries(journal)',
         \A q \in Process : q # p => ctl'[q] = ctl[q],
         p = App \/ (UNCHANGED <<status, lidPref>> /\ legacy' \in {legacy, None})
  PROVE  ModeInv'
<1>1. /\ task'[p].call = call
      /\ \A q \in Process : q # p => task'[q] = task[q]
  BY WaitsTyped DEF ModeShape, ModeTyped
<1>2. task'[p] # NoTask
  BY <1>1 DEF NoTask
<1>3. Wanted'
  BY <1>1, <1>2, VibecodeAssumption DEF Wanted, ModeInv, VibecodeAssumption
<1>. QED  BY <1>1, <1>3, OnlyOne

\* A recovery at the beginning of a handler.
LEMMA BeginsSound ==
  ASSUME PowerJournalAssumption, ~ Racing, IInv, ModeShape, ModeInv,
         NEW p \in Process, Free(p), Recover(p),
         NEW handler \in {"init", "reconcile", "exit", "disable", "retry",
                          "command"},
         Waits(p, handler, "recover"),
         handler = "reconcile" => lidPref' /\ legacy = None,
         legacy' = legacy, p = App \/ UNCHANGED <<status, lidPref>>
  PROVE  ModeInv'
<1>1. /\ task'[p].call = "recover"
      /\ task'[p].handler = handler
  BY WaitsTyped DEF ModeShape, ModeTyped
<1>2. Intends(task[p])'
  BY <1>1 DEF Intends
<1>3. /\ Sound(p)' /\ Carries(journal)'
      /\ \A q \in Process : q # p => ctl'[q] = ctl[q]
  BY <1>1, <1>2, RecoverSound DEF ModeInv, ModeShape
<1>. QED  BY <1>3, FreeSole, WaitsSound

\* A step between handlers that leaves the machine alone.
LEMMA AtOnceSound ==
  ASSUME ModeInv, UNCHANGED <<vars, legacy, task>>, NEW p \in Process, p = App,
         task[App] = NoTask, ~ Racing, Free(App),
         status' = "Applied" => lidPref' /\ legacy = None
  PROVE  ModeInv'
<1>1. UNCHANGED <<journal, ctl>>
  BY DEF vars
<1>2. ctl[App] = Idle
  BY DEF ModeInv, Sound, Serves
<1>3. Sound(App)'
  BY <1>1, <1>2, ComesToRest
<1>4. Carries(journal)'
  BY <1>1 DEF ModeInv, Carries
<1>5. Wanted'
  BY DEF Wanted
<1>. QED  BY <1>1, <1>3, <1>4, <1>5, FreeSole, OnlyOne

LEMMA RestoresLegacySound ==
  ASSUME PowerJournalAssumption, IInv, ModeShape, ModeInv,
         NEW p \in Process, Sole(p), RestoresLegacy(p), legacy # None,
         UNCHANGED <<status, lidPref, legacy>>
  PROVE  ModeInv'
<1>1. /\ Recover(p)
      /\ task'[p].call = "recover" /\ task'[p].handler = "legacy"
      /\ task'[p].pair = legacy
      /\ \A q \in Process : q # p => task'[q] = task[q]
  BY DEF RestoresLegacy, NoTask, ModeShape, ModeTyped
<1>2. Intends(task[p])'
  BY <1>1 DEF Intends, ModeShape, ModeTyped
<1>3. /\ Sound(p)' /\ Carries(journal)'
      /\ \A q \in Process : q # p => ctl'[q] = ctl[q]
  BY <1>1, <1>2, RecoverSound DEF ModeInv, ModeShape
<1>4. task'[p] # NoTask
  BY <1>1 DEF NoTask
<1>5. Wanted'
  BY <1>1, <1>4, VibecodeAssumption DEF Wanted, ModeInv, VibecodeAssumption
<1>. QED  BY <1>1, <1>3, <1>5, OnlyOne

LEMMA EnableSound ==
  ASSUME PowerJournalAssumption, ~ Racing, IInv, ModeShape, ModeInv, Enable
  PROVE  ModeInv'
<1>1. App \in Process /\ Free(App) /\ Apply(App, "persistent_override", Override)
  BY VibecodeAssumption DEF VibecodeAssumption, Enable, AppFree
<1>2. /\ task'[App].call = "apply" /\ task'[App].handler = "enable"
      /\ \A q \in Process : q # App => task'[q] = task[q]
  BY <1>1 DEF Enable, NoTask, ModeShape, ModeTyped
<1>3. lidPref' /\ legacy' = None /\ legacy = None
  BY DEF Enable
<1>4. Intends(task[App])' /\ Operation(task'[App]) = "persistent_override"
  BY <1>2, <1>3 DEF Intends, Operation
<1>5. /\ Sound(App)' /\ Carries(journal)'
      /\ \A q \in Process : q # App => ctl'[q] = ctl[q]
  BY <1>1, <1>2, <1>3, <1>4, ApplySound DEF ModeInv, ModeShape
<1>6. Wanted'
  BY <1>3 DEF Wanted
<1>. QED  BY <1>1, <1>2, <1>5, <1>6, FreeSole, OnlyOne

LEMMA BeginSound ==
  ASSUME PowerJournalAssumption, ~ Racing, IInv, ModeShape, ModeInv,
         \/ Start \/ SessionContinues \/ RestoreForExit \/ Reconcile
         \/ RetryRecovery \/ RestoreLegacy \/ Enable
         \/ ReconcileFails \/ Disable \/ EnableFails \/ EnableWake
         \/ \E p \in Process : RecoverCommand(p)
  PROVE  ModeInv'
<1>0. App \in Process
  BY VibecodeAssumption DEF VibecodeAssumption
<1>1. task[App] = NoTask /\ status = "Applied" => lidPref /\ legacy = None
  BY DEF ModeInv, Wanted
<1>2. ErrorStatus # "Applied"
  BY DEF ErrorStatus
<1>3. CASE Start \/ SessionContinues
  BY <1>0, <1>3, BeginsSound DEF Start, SessionContinues, BeginInit, settings
<1>4. CASE RestoreForExit
  BY <1>0, <1>4, BeginsSound DEF RestoreForExit, AppFree, settings
<1>5. CASE Reconcile
  BY <1>0, <1>1, <1>5, BeginsSound DEF Reconcile, AppFree, Free, settings
<1>6. CASE RetryRecovery
  BY <1>0, <1>6, BeginsSound DEF RetryRecovery, AppFree, settings
<1>7. CASE RestoreLegacy
  <2>1. Free(App) /\ status # "Applied"
    BY <1>7 DEF RestoreLegacy, AppFree
  <2>2. CASE legacy = None
    BY <1>0, <1>2, <1>7, <2>1, <2>2, AtOnceSound
       DEF RestoreLegacy, AppFree, Free, settings
  <2>3. CASE legacy # None
    BY <1>0, <1>7, <2>1, <2>3, FreeSole, RestoresLegacySound
       DEF RestoreLegacy, settings
  <2>. QED  BY <2>2, <2>3
<1>8. CASE Enable
  BY <1>8, EnableSound
<1>9. CASE ReconcileFails
  BY <1>0, <1>9, AtOnceSound DEF ReconcileFails, AppFree, Free, settings
<1>10. CASE Disable
  <2>1. CASE Recover(App) /\ Waits(App, "disable", "recover")
    BY <1>0, <1>10, <2>1, BeginsSound DEF Disable, AppFree
  <2>2. CASE status' = ErrorStatus /\ UNCHANGED <<vars, lidPref, task>>
    BY <1>0, <1>2, <1>10, <2>2, AtOnceSound DEF Disable, AppFree, Free
  <2>. QED  BY <1>10, <2>1, <2>2 DEF Disable
<1>11. CASE EnableFails
  <2>1. status' # "Applied"
    BY <1>2, <1>11 DEF EnableFails, RollBackWake
  <2>. QED
    BY <1>0, <1>11, <2>1, AtOnceSound DEF EnableFails, AppFree, Free
<1>12. CASE EnableWake
  BY <1>0, <1>1, <1>12, AtOnceSound DEF EnableWake, AppFree, Free
<1>13. CASE \E p \in Process : RecoverCommand(p)
  BY <1>13, BeginsSound DEF RecoverCommand, settings
<1>. QED
  BY <1>3, <1>4, <1>5, <1>6, <1>7, <1>8, <1>9, <1>10, <1>11, <1>12, <1>13

LEMMA EndsSound ==
  ASSUME ModeShape, ModeInv, NEW p \in Process, Sole(p), Done(p),
         UNCHANGED <<journal, legacy>>,
         \/ status' = "Applied" => lidPref' /\ legacy = None
         \/ p # App /\ UNCHANGED <<status, lidPref>>
  PROVE  ModeInv'
<1>1. /\ Sound(p)'
      /\ task'[p] = NoTask
      /\ \A q \in Process : q # p => task'[q] = task[q] /\ ctl'[q] = ctl[q]
  BY DoneSound DEF ModeShape, ModeTyped
<1>2. Carries(journal)'
  BY DEF ModeInv, Carries
<1>3. Wanted'
  BY <1>1, VibecodeAssumption DEF Wanted, ModeInv, VibecodeAssumption
<1>. QED  BY <1>1, <1>2, <1>3, OnlyOne

LEMMA FailedSound ==
  ASSUME ModeShape, ModeInv, NEW p \in Process, Sole(p), NEW s, Failed(p, s),
         s = "Applied" => lidPref /\ legacy = None
  PROVE  ModeInv'
<1>1. /\ Done(p) /\ UNCHANGED <<journal, legacy, lidPref>>
      /\ status' = IF p = App THEN s ELSE status
  BY DEF Failed, SetStatus, settings
<1>. QED  BY <1>1, EndsSound

LEMMA ClearsSound ==
  ASSUME ModeShape, ModeInv, NEW p \in Process, Sole(p),
         NEW call \in {"commit", "finish"}, ClearsLegacy(p, call)
  PROVE  ModeInv'
<1>1. task[p] \in Task /\ Intends(task[p]) /\ OneControllerEach
  BY DEF ModeShape, ModeTyped, ModeInv, Sound
<1>2. /\ task[p].handler \in {"none", "init", "reconcile", "exit", "enable",
                              "disable", "legacy", "retry", "command"}
      /\ Waits(p, task[p].handler, call) /\ CommitLegacy(p)
      /\ legacy' = None /\ UNCHANGED <<status, lidPref>>
  BY <1>1 DEF ClearsLegacy, Task
<1>3. /\ task'[p].handler = task[p].handler
      /\ task'[p].call = call
      /\ task'[p].pair = task[p].pair
  BY <1>2, WaitsTyped DEF ModeShape, ModeTyped
<1>4. Intends(task[p])'
  BY <1>1, <1>2, <1>3 DEF Intends
<1>5. /\ Sound(p)' /\ Carries(journal)'
      /\ \A q \in Process : q # p => ctl'[q] = ctl[q]
  BY <1>1, <1>2, <1>3, <1>4, CommitSound
<1>. QED  BY <1>2, <1>5, WaitsSound

LEMMA AppliesSound ==
  ASSUME ModeShape, ModeInv, NEW p \in Process, Sole(p),
         NEW operation, NEW desired, Apply(p, operation, desired),
         Waits(p, task[p].handler, "apply"), operation = Operation(task[p]),
         task[p].handler # "legacy" => lidPref /\ legacy = None,
         task[p].handler = "legacy" => desired = task[p].pair,
         UNCHANGED <<status, settings>>
  PROVE  ModeInv'
<1>1. /\ task[p] \in Task /\ Sound(p) /\ Intends(task[p]) /\ Carries(journal)
      /\ OneControllerEach
  BY DEF ModeShape, ModeTyped, ModeInv, Sound
<1>2. /\ task[p].handler \in {"none", "init", "reconcile", "exit", "enable",
                              "disable", "legacy", "retry", "command"}
      /\ UNCHANGED <<status, lidPref, legacy>>
  BY <1>1 DEF settings, Task
<1>3. /\ task'[p].handler = task[p].handler
      /\ task'[p].call = "apply"
      /\ task'[p].pair = task[p].pair
  BY <1>2, WaitsTyped DEF ModeShape, ModeTyped
<1>4. Intends(task[p])' /\ operation = Operation(task'[p])
  BY <1>1, <1>2, <1>3 DEF Intends, Operation
<1>5. operation = "legacy_restore" /\ legacy # None => desired = legacy
  BY <1>1 DEF Operation, Intends
<1>6. /\ Sound(p)' /\ Carries(journal)'
      /\ \A q \in Process : q # p => ctl'[q] = ctl[q]
  BY <1>1, <1>2, <1>3, <1>4, <1>5, ApplySound
<1>. QED  BY <1>2, <1>6, WaitsSound

LEMMA AfterRecoverySound ==
  ASSUME PowerJournalAssumption, IInv, ModeShape, ModeInv,
         NEW p \in Process, Sole(p), AfterRecovery(p)
  PROVE  ModeInv'
<1>1. /\ task[p] \in Task /\ WellFormed(task[p]) /\ Intends(task[p])
      /\ task[p].call \in {"recover", "commit"}
  BY DEF ModeShape, ModeTyped, ModeInv, Sound, AfterRecovery, Returned
<1>2. RestedStatus # "Applied"
  BY DEF RestedStatus
<1>3. ASSUME lidPref, legacy = None, task[p].handler # "legacy",
             AppliesOverride(p)
      PROVE  ModeInv'
  BY <1>3, AppliesSound DEF AppliesOverride, Operation
<1>4. CASE task[p].handler \in {"exit", "disable"}
  BY <1>2, <1>4, FailedSound DEF AfterRecovery, Succeeded
<1>5. CASE task[p].handler \in {"init", "retry"}
  BY <1>2, <1>3, <1>5, FailedSound DEF AfterRecovery, Succeeded, WantsOverride
<1>6. CASE task[p].handler = "reconcile"
  BY <1>1, <1>3, <1>6 DEF AfterRecovery, Intends
<1>7. CASE task[p].handler = "legacy"
  BY <1>7, AppliesSound DEF AfterRecovery, Operation
<1>8. CASE task[p].handler = "command"
  <2>1. CASE legacy = None
    BY <1>8, <2>1, FailedSound DEF AfterRecovery, Succeeded
  <2>2. CASE legacy # None
    BY <1>8, <2>2, RestoresLegacySound DEF AfterRecovery, settings
  <2>. QED  BY <2>1, <2>2
<1>. QED  BY <1>1, <1>4, <1>5, <1>6, <1>7, <1>8 DEF Task, WellFormed

LEMMA HandlerSound ==
  ASSUME PowerJournalAssumption, IInv, ModeShape, ModeInv,
         NEW p \in Process, Handler(p)
  PROVE  ModeInv'
<1>1. CASE ControllerStep(p) /\ UNCHANGED mode
  BY <1>1, ControllerSound
<1>2. CASE ~ (ControllerStep(p) /\ UNCHANGED mode)
  <2>0. task[p].call \in {"recover", "commit", "apply", "finish"}
    BY <1>2 DEF Handler, Finalize, RecoveryFails, AfterRecovery, AfterApply,
                AfterLegacy, AfterFailedApply, Returned
  <2>1. task[p] # NoTask
    BY <2>0 DEF NoTask
  <2>2. Sole(p)
    BY <2>1, BusySole
  <2>3. ASSUME NEW s \in {"RecoveryRequired", "Disabled"}, Failed(p, s)
        PROVE  ModeInv'
    BY <2>2, <2>3, FailedSound
  <2>4. ErrorStatus # "Applied"
    BY DEF ErrorStatus
  <2>5. CASE Finalize(p)
    BY <2>2, <2>3, <2>5, ClearsSound DEF Finalize
  <2>6. CASE RecoveryFails(p)
    BY <2>3, <2>6 DEF RecoveryFails
  <2>7. CASE AfterRecovery(p)
    BY <2>2, <2>7, AfterRecoverySound
  <2>8. CASE AfterApply(p)
    <3>1. CASE task[p].handler = "legacy"
      BY <2>2, <2>3, <2>8, <3>1, ClearsSound DEF AfterApply
    <3>2. CASE task[p].handler # "legacy"
      <4>1. lidPref /\ legacy = None
        BY <2>8, <3>2 DEF AfterApply, Returned, ModeInv, Sound, Intends
      <4>. QED
        BY <2>2, <2>8, <3>2, <4>1, FailedSound DEF AfterApply, Succeeded
    <3>. QED  BY <3>1, <3>2
  <2>9. CASE AfterLegacy(p)
    BY <2>3, <2>9 DEF AfterLegacy, Succeeded
  <2>10. CASE AfterFailedApply(p)
    <3>1. CASE task[p].handler = "legacy"
      BY <2>3, <2>10, <3>1 DEF AfterFailedApply
    <3>2. CASE task[p].handler = "enable"
      <4>1. /\ Done(p) /\ UNCHANGED <<journal, legacy>>
            /\ status' = ErrorStatus
        BY <2>10, <3>2 DEF AfterFailedApply, RollBackWake
      <4>. QED  BY <2>2, <2>4, <4>1, EndsSound
    <3>3. CASE task[p].handler \notin {"legacy", "enable"}
      BY <2>2, <2>4, <2>10, <3>3, FailedSound DEF AfterFailedApply
    <3>. QED  BY <3>1, <3>2, <3>3
  <2>. QED
    BY <1>2, <2>5, <2>6, <2>7, <2>8, <2>9, <2>10 DEF Handler
<1>. QED  BY <1>1, <1>2

LEMMA DieSound ==
  ASSUME ModeShape, ModeInv, NEW p \in Process, Die(p)
  PROVE  ModeInv'
<1>1. CASE Sole(p)
  <2>1. /\ Done(p) /\ UNCHANGED <<journal, legacy, lidPref>>
        /\ p # App => status' = status
        /\ p = App => status' = "Disabled"
    BY DEF Die, settings
  <2>. QED  BY <1>1, <2>1, EndsSound
<1>2. CASE ~ Sole(p)
  <2>1. /\ p = App /\ task[p] = NoTask /\ ctl[p] = Idle
    BY <1>2, BusySole DEF Die, ModeInv, Sound, Serves
  <2>2. /\ task' = task /\ ctl' = ctl
        /\ UNCHANGED <<journal, legacy, lidPref>>
    <3>1. task = [q \in Process |-> task[q]] /\ ctl = [q \in Process |-> ctl[q]]
      BY DEF ModeShape, ModeTyped, OneControllerEach
    <3>. QED  BY <2>1, <3>1 DEF Die, Done, Continue, settings
  <2>3. status' = "Disabled"
    BY <2>1 DEF Die
  <2>4. Wanted'
    BY <2>3 DEF Wanted
  <2>5. \A q \in Process : Sound(q)'
    BY <2>2 DEF ModeInv, Sound, Serves, Answers, Intends, Carries, Operation,
                Committable
  <2>. QED  BY <2>2, <2>4, <2>5 DEF ModeInv, OneTask, Carries
<1>. QED  BY <1>1, <1>2

\* The user changes the machine, and nothing that a handler relies on.
LEMMA UserSound ==
  ASSUME IInv, ModeInv, User, UNCHANGED mode
  PROVE  ModeInv'
<1>1. UNCHANGED <<status, lidPref, legacy, task>>
  BY DEF mode
<1>2. journal' = journal
  BY DEF User, ChangeValue, SwitchScheme
<1>3. ASSUME NEW p \in Process
      PROVE  /\ ctl'[p].at = ctl[p].at
             /\ ctl'[p].undo = ctl[p].undo
             /\ ctl'[p].result = ctl[p].result
             /\ ctl'[p].journal = ctl[p].journal
             /\ ctl[p] = Idle => ctl'[p] = Idle
  <2>1. ctl[p] \in Control
    BY DEF IInv, Controlled
  <2>2. CASE ctl' = ctl
    BY <2>2
  <2>3. CASE ctl' = [q \in Process |->
                       [ctl[q] EXCEPT !.disturbed = @ \/ ctl[q].at # "idle"]]
    <3>1. /\ ctl'[p].at = ctl[p].at
          /\ ctl'[p].undo = ctl[p].undo
          /\ ctl'[p].result = ctl[p].result
          /\ ctl'[p].journal = ctl[p].journal
      BY <2>1, <2>3 DEF Control
    <3>2. ctl'[p] = [ctl[p] EXCEPT !.disturbed = @ \/ ctl[p].at # "idle"]
      BY <2>3
    <3>3. ASSUME ctl[p] = Idle PROVE ctl'[p] = Idle
      <4>1. (Idle.disturbed \/ Idle.at # "idle") = FALSE
        <5>1. ASSUME NEW x \in BOOLEAN, NEW at, ~ x, at = "idle"
              PROVE  (x \/ at # "idle") = FALSE
          BY <5>1
        <5>2. Idle.disturbed \in BOOLEAN /\ ~ Idle.disturbed /\ Idle.at = "idle"
          BY DEF Idle
        <5>. QED  BY <5>1, <5>2
      <4>2. [Idle EXCEPT !.disturbed = FALSE] = Idle
        <5>1. ASSUME NEW c \in Control PROVE [c EXCEPT !.disturbed = c.disturbed] = c
          BY DEF Control
        <5>2. Idle \in Control /\ Idle.disturbed = FALSE
          BY DEF Idle, Control
        <5>. QED  BY <5>1, <5>2
      <4>3. ctl'[p] = [Idle EXCEPT !.disturbed = Idle.disturbed \/ Idle.at # "idle"]
        BY <3>2, <3>3
      <4>. QED  BY <4>1, <4>2, <4>3
    <3>. QED  BY <3>1, <3>3
  <2>. QED  BY <2>2, <2>3 DEF User, ChangeValue, SwitchScheme
<1>4. ASSUME NEW p \in Process PROVE Sound(p)'
  <2>1. Sound(p)
    BY DEF ModeInv
  <2>2. Serves(ctl[p], task[p])'
    BY <1>1, <1>3, <2>1 DEF Sound, Serves, Operation
  <2>3. Answers(ctl[p], task[p])'
    BY <1>1, <1>2, <1>3, <2>1 DEF Sound, Answers, Operation, Committable
  <2>4. Intends(task[p])' /\ Carries(ctl[p].journal)'
    BY <1>1, <1>3, <2>1 DEF Sound, Intends, Carries
  <2>. QED  BY <2>2, <2>3, <2>4 DEF Sound
<1>. QED  BY <1>1, <1>2, <1>4 DEF ModeInv, OneTask, Carries, Wanted

LEMMA StutterSound ==
  ASSUME ModeInv, UNCHANGED allVars
  PROVE  ModeInv'
<1>1. UNCHANGED <<status, lidPref, legacy, task, ctl, journal>>
  BY DEF allVars, mode, vars
<1>2. ASSUME NEW p \in Process PROVE Sound(p)'
  BY <1>1 DEF ModeInv, Sound, Serves, Answers, Intends, Carries, Operation,
              Committable
<1>. QED  BY <1>1, <1>2 DEF ModeInv, OneTask, Carries, Wanted

LEMMA ModeInd ==
  ASSUME PowerJournalAssumption, ~ Racing, IInv, ModeShape, ModeInv,
         [VibecodeNext]_allVars
  PROVE  ModeInv'
<1>1. CASE \E p \in Process : Handler(p)
  BY <1>1, HandlerSound
<1>2. CASE \E p \in Process : Die(p)
  BY <1>2, DieSound
<1>3. CASE User /\ UNCHANGED mode
  BY <1>3, UserSound
<1>4. CASE UNCHANGED allVars
  BY <1>4, StutterSound
<1>. QED  BY <1>1, <1>2, <1>3, <1>4, BeginSound DEF VibecodeNext

LEMMA ModeStarts == VibecodeInit => ModeInv
<1>1. SUFFICES ASSUME VibecodeInit PROVE ModeInv
  OBVIOUS
<1>2. /\ journal = None /\ status = "Disabled"
      /\ \A p \in Process : ctl[p] = Idle /\ task[p] = NoTask
  BY <1>1 DEF VibecodeInit, Init
<1>3. \A p \in Process : Sound(p)
  BY <1>2, Rests
<1>. QED  BY <1>2, <1>3 DEF ModeInv, OneTask, Carries, Wanted
-----------------------------------------------------------------------------
(***************************************************************************)
(* The theorems about the mode                                             *)
(***************************************************************************)

(* When a recovery command does not run in the middle of a handler, what a *)
(* handler of vibecode.rs has checked before a call holds when it returns. *)
THEOREM HandlersAreSound ==
  ASSUME ~ Racing
  PROVE  VibecodeSpec => [](IInv /\ ModeShape /\ ModeInv)
<1>1. VibecodeInit => ModeShape /\ ModeInv
  BY ShapeInit, ModeStarts
<1>2. ModeShape /\ [VibecodeNext]_allVars => ModeShape'
  BY VibecodeShape, VibecodeAssumption, PowerJournalAssumption
<1>3. IInv /\ ModeShape /\ ModeInv /\ [VibecodeNext]_allVars => ModeInv'
  BY ModeInd, PowerJournalAssumption
<1>4. VibecodeSpec => []IInv
  BY UsesTransaction, Inductive, PTL
<1>. QED  BY <1>1, <1>2, <1>3, <1>4, PTL DEF VibecodeSpec

(* What is proved of the transaction holds of the program that uses it:    *)
(* whatever the handlers of vibecode.rs do, the user's lid policy is in    *)
(* the settings or in the journal.                                         *)
THEOREM ProgramKeepsPolicy ==
  ASSUME ~ Racing
  PROVE  VibecodeSpec => [](PolicySafe /\ PolicyInForce /\ RetryConverges)
<1>. QED
  BY UsesTransaction, PolicyNeverLost, NothingLeftInForce, RetriesConverge, PTL

(* What the status says of the disk; the settings are part of ModeInv.     *)
StatusOnDisk ==
  running /\ task[App] = NoTask =>
    /\ status = "Applied" =>
         /\ journal # None
         /\ journal.operation = "persistent_override"
         /\ journal.phase = "applied"
    /\ status \in {"Disabled", "Error"} => journal = None
    /\ status = "LegacyRecoveryPending" => legacy # None

LEMMA StatusBegins ==
  ASSUME ModeInv, StatusOnDisk, Process = {App},
         \/ Start \/ SessionContinues \/ RestoreForExit \/ Reconcile
         \/ RetryRecovery \/ RestoreLegacy \/ Enable
         \/ ReconcileFails \/ Disable \/ EnableFails \/ EnableWake
         \/ \E p \in Process : RecoverCommand(p),
         ModeShape
  PROVE  StatusOnDisk'
<1>0. task \in [Process -> Task] /\ App \in Process
  BY VibecodeAssumption DEF ModeShape, ModeTyped, VibecodeAssumption
<1>1. ASSUME NEW handler \in {"init", "reconcile", "exit", "disable", "retry"},
             Waits(App, handler, "recover")
      PROVE  StatusOnDisk'
  <2>1. task'[App].call = "recover"
    BY <1>0, <1>1, WaitsTyped
  <2>2. task'[App] # NoTask
    BY <2>1 DEF NoTask
  <2>. QED  BY <2>2 DEF StatusOnDisk
<1>2. CASE Start \/ SessionContinues \/ RestoreForExit \/ Reconcile \/ RetryRecovery
  BY <1>1, <1>2 DEF Start, SessionContinues, BeginInit, RestoreForExit, Reconcile,
                    RetryRecovery
<1>3. CASE RestoreLegacy
  <2>1. CASE legacy = None
    BY <1>3, <2>1 DEF RestoreLegacy, StatusOnDisk, ErrorStatus, vars
  <2>2. CASE legacy # None
    <3>1. task'[App].call = "recover"
      BY <1>0, <1>3, <2>2 DEF RestoreLegacy, RestoresLegacy, NoTask
    <3>2. task'[App] # NoTask
      BY <3>1 DEF NoTask
    <3>. QED  BY <3>2 DEF StatusOnDisk
  <2>. QED  BY <2>1, <2>2
<1>4. CASE Enable
  <2>1. task'[App].call = "apply"
    BY <1>0, <1>4 DEF Enable, NoTask
  <2>2. task'[App] # NoTask
    BY <2>1 DEF NoTask
  <2>. QED  BY <2>2 DEF StatusOnDisk
<1>5. CASE ReconcileFails
  BY <1>5 DEF ReconcileFails, StatusOnDisk
<1>6. CASE Disable
  <2>1. CASE Waits(App, "disable", "recover")
    BY <1>1, <2>1
  <2>2. CASE status' = ErrorStatus /\ UNCHANGED <<vars, lidPref, task>>
    BY <2>2 DEF StatusOnDisk, ErrorStatus, vars
  <2>. QED  BY <1>6, <2>1, <2>2 DEF Disable
<1>7. CASE EnableFails
  <2>1. /\ UNCHANGED <<journal, legacy>>
        /\ \/ status' = ErrorStatus
           \/ status' = "LegacyRecoveryPending" /\ legacy # None
    BY <1>7 DEF EnableFails, RollBackWake, vars
  <2>. QED  BY <2>1 DEF StatusOnDisk, ErrorStatus
<1>8. CASE EnableWake
  BY <1>8 DEF EnableWake, StatusOnDisk, vars
<1>9. ~ \E p \in Process : RecoverCommand(p)
  BY DEF RecoverCommand
<1>. QED  BY <1>2, <1>3, <1>4, <1>5, <1>6, <1>7, <1>8, <1>9

LEMMA StatusEnds ==
  ASSUME ModeShape, ModeInv, StatusOnDisk, Process = {App}, Handler(App)
  PROVE  StatusOnDisk'
<1>0. task \in [Process -> Task] /\ App \in Process /\ task[App] \in Task
  BY VibecodeAssumption DEF ModeShape, ModeTyped, VibecodeAssumption
<1>1. Sound(App) /\ WellFormed(task[App])
  BY <1>0 DEF ModeInv, ModeShape
<1>2. ASSUME task'[App].call # "none" PROVE StatusOnDisk'
  BY <1>2 DEF StatusOnDisk, NoTask
<1>3. ASSUME NEW s, Failed(App, s), s = "RecoveryRequired" \/ s = ErrorStatus
      PROVE  StatusOnDisk'
  BY <1>3 DEF Failed, SetStatus, StatusOnDisk, ErrorStatus
<1>4. ASSUME NEW s, Failed(App, s), journal = None, s = RestedStatus \/ s = "Disabled"
      PROVE  StatusOnDisk'
  BY <1>4 DEF Failed, SetStatus, StatusOnDisk, RestedStatus, settings
<1>5. CASE ControllerStep(App) /\ UNCHANGED mode
  <2>1. ctl[App].at # "idle"
    BY <1>5 DEF ControllerStep, SavePrepared, WriteField, Activate, MarkApplied,
         RecoverFailedApply, SaveRestoring, DecideField, RestoreField,
         SaveResolution, FinishRestore, DeleteJournal
  <2>2. task[App].call # "none" /\ task' = task
    BY <1>1, <1>5, <2>1 DEF Sound, Serves, mode
  <2>. QED  BY <1>2, <2>2
<1>6. ASSUME NEW call \in {"commit", "finish"}, ClearsLegacy(App, call)
      PROVE  StatusOnDisk'
  BY <1>0, <1>2, <1>6, WaitsTyped DEF ClearsLegacy, Task
<1>7. CASE Finalize(App)
  BY <1>3, <1>6, <1>7 DEF Finalize
<1>8. CASE RecoveryFails(App)
  BY <1>3, <1>8 DEF RecoveryFails
<1>9. CASE AfterRecovery(App)
  <2>1. journal = None
    BY <1>1, <1>9 DEF AfterRecovery, Returned, Sound, Answers
  <2>2. CASE AppliesOverride(App)
    BY <1>0, <1>2, <2>2, WaitsTyped DEF AppliesOverride, Task
  <2>3. CASE Waits(App, "legacy", "apply")
    BY <1>0, <1>2, <2>3, WaitsTyped
  <2>4. CASE RestoresLegacy(App)
    <3>1. task'[App].call = "recover"
      BY <1>0, <2>4 DEF RestoresLegacy, NoTask
    <3>. QED  BY <1>2, <3>1
  <2>5. CASE task[App].handler \in {"exit", "disable"}
    BY <1>4, <1>9, <2>1, <2>5 DEF AfterRecovery, Succeeded
  <2>6. CASE task[App].handler \in {"init", "retry"}
    BY <1>4, <1>9, <2>1, <2>2, <2>6 DEF AfterRecovery, Succeeded
  <2>7. CASE task[App].handler = "reconcile"
    BY <1>1, <1>9, <2>2, <2>7 DEF AfterRecovery, Sound, Intends
  <2>8. CASE task[App].handler = "legacy"
    BY <1>9, <2>3, <2>8 DEF AfterRecovery
  <2>9. CASE task[App].handler = "command"
    BY <1>4, <1>9, <2>1, <2>4, <2>9 DEF AfterRecovery, Succeeded
  <2>. QED
    BY <1>0, <1>1, <1>9, <2>5, <2>6, <2>7, <2>8, <2>9
       DEF AfterRecovery, Returned, WellFormed, Task
<1>10. CASE AfterApply(App)
  <2>1. CASE task[App].handler = "legacy"
    BY <1>3, <1>6, <1>10, <2>1 DEF AfterApply
  <2>2. CASE task[App].handler # "legacy"
    <3>1. /\ journal # None
          /\ journal.operation = "persistent_override"
          /\ journal.phase = "applied"
      BY <1>1, <1>10, <2>2 DEF AfterApply, Returned, Sound, Answers, Operation
    <3>2. status' = "Applied" /\ journal' = journal
      BY <1>10, <2>2 DEF AfterApply, Succeeded, Failed, SetStatus
    <3>. QED  BY <3>1, <3>2 DEF StatusOnDisk
  <2>. QED  BY <2>1, <2>2
<1>11. CASE AfterLegacy(App)
  <2>1. journal = None
    BY <1>1, <1>11 DEF AfterLegacy, Returned, Sound, Answers
  <2>. QED  BY <1>4, <1>11, <2>1 DEF AfterLegacy, Succeeded
<1>12. CASE AfterFailedApply(App)
  <2>1. CASE task[App].handler = "enable"
    BY <1>12, <2>1
       DEF AfterFailedApply, RollBackWake, StatusOnDisk, ErrorStatus
  <2>2. CASE task[App].handler # "enable"
    BY <1>3, <1>12, <2>2 DEF AfterFailedApply
  <2>. QED  BY <2>1, <2>2
<1>. QED
  BY <1>5, <1>7, <1>8, <1>9, <1>10, <1>11, <1>12 DEF Handler

LEMMA StatusInd ==
  ASSUME ModeShape, ModeInv, StatusOnDisk, Process = {App},
         [VibecodeNext]_allVars
  PROVE  StatusOnDisk'
<1>1. CASE \E p \in Process : Handler(p)
  BY <1>1, StatusEnds
<1>2. CASE \E p \in Process : Die(p)
  BY <1>2 DEF Die, StatusOnDisk
<1>3. CASE User /\ UNCHANGED mode
  BY <1>3 DEF User, ChangeValue, SwitchScheme, mode, StatusOnDisk
<1>4. CASE UNCHANGED allVars
  BY <1>4 DEF allVars, vars, mode, StatusOnDisk
<1>. QED  BY <1>1, <1>2, <1>3, <1>4, StatusBegins DEF VibecodeNext

(* Between two handlers PERSISTENT_STATUS tells the truth about the disk   *)
(* and the settings, as long as no recovery command runs beside the        *)
(* program.                                                                *)
THEOREM StatusIsTrue ==
  ASSUME ~ Racing, Process = {App}
  PROVE  VibecodeSpec => []StatusTrue
<1>1. VibecodeInit => StatusOnDisk
  BY DEF VibecodeInit, StatusOnDisk
<1>2. ModeShape /\ ModeInv /\ StatusOnDisk /\ [VibecodeNext]_allVars
        => StatusOnDisk'
  BY StatusInd
<1>3. ModeInv /\ StatusOnDisk => StatusTrue
  BY DEF ModeInv, Wanted, StatusOnDisk, StatusTrue
<1>. QED  BY <1>1, <1>2, <1>3, HandlersAreSound, PTL DEF VibecodeSpec

\* A handler's own steps write no journal.
LEMMA HandlersWriteNothing ==
  ASSUME ModeShape, VibecodeNext, journal' # journal, journal' # None
  PROVE  \E p \in Process : ControllerStep(p)
<1>1. ASSUME NEW p \in Process, Recover(p) \/ CommitLegacy(p) \/ RestoresLegacy(p)
      PROVE  journal' \in {journal, None}
  BY <1>1 DEF Recover, LoadForRecovery, CommitLegacy, RestoresLegacy
<1>2. ASSUME NEW p \in Process, NEW operation, NEW desired,
             Apply(p, operation, desired)
      PROVE  journal' = journal
  BY <1>2 DEF Apply
<1>3. App \in Process
  BY VibecodeAssumption DEF VibecodeAssumption
<1>4. ~ (Start \/ SessionContinues \/ RestoreForExit \/ Reconcile \/ RetryRecovery)
  BY <1>1, <1>3 DEF Start, SessionContinues, BeginInit, RestoreForExit, Reconcile,
                    RetryRecovery
<1>5. ~ (RestoreLegacy \/ Enable \/ Disable)
  BY <1>1, <1>2, <1>3 DEF RestoreLegacy, Enable, Disable, vars
<1>6. ~ (ReconcileFails \/ EnableFails \/ EnableWake)
  BY DEF ReconcileFails, EnableFails, EnableWake, vars
<1>7. ASSUME NEW p \in Process PROVE ~ (RecoverCommand(p) \/ Die(p))
  BY <1>1 DEF RecoverCommand, Die
<1>8. ~ User
  BY DEF User, ChangeValue, SwitchScheme
<1>9. ASSUME NEW p \in Process, NEW s PROVE ~ Failed(p, s)
  BY DEF Failed
<1>10. ASSUME NEW p \in Process, NEW call PROVE ~ ClearsLegacy(p, call)
  BY <1>1 DEF ClearsLegacy
<1>11. ASSUME NEW p \in Process, Handler(p) PROVE ControllerStep(p)
  <2>1. ~ (Finalize(p) \/ RecoveryFails(p) \/ AfterApply(p) \/ AfterLegacy(p))
    BY <1>9, <1>10
       DEF Finalize, RecoveryFails, AfterApply, AfterLegacy, Succeeded
  <2>2. ~ AfterFailedApply(p)
    BY <1>9 DEF AfterFailedApply
  <2>3. ASSUME AfterRecovery(p) PROVE FALSE
    <3>1. task[p].handler \notin {"exit", "disable", "init", "retry", "reconcile",
                                  "legacy", "command"}
      BY <1>1, <1>2, <1>9, <2>3 DEF AfterRecovery, Succeeded, AppliesOverride
    <3>2. task[p] \in Task /\ task[p].handler \notin {"none", "enable"}
      BY <2>3 DEF AfterRecovery, Returned, ModeShape, ModeTyped, WellFormed
    <3>. QED  BY <3>1, <3>2 DEF Task
  <2>. QED  BY <1>11, <2>1, <2>2, <2>3 DEF Handler
<1>. QED
  BY <1>4, <1>5, <1>6, <1>7, <1>8, <1>11 DEF VibecodeNext

\* The pair is cleared by clear_legacy_lid_recovery alone.
LEMMA OnlyClearsLegacy ==
  ASSUME ModeShape, VibecodeNext, legacy' # legacy
  PROVE  \E p \in Process :
           \/ Finalize(p)
           \/ AfterApply(p) /\ task[p].handler = "legacy"
<1>1. ~ (Start \/ SessionContinues \/ RestoreForExit \/ Reconcile \/ RetryRecovery)
  BY DEF Start, SessionContinues, BeginInit, RestoreForExit, Reconcile,
         RetryRecovery, settings
<1>2. ~ (RestoreLegacy \/ Enable \/ Disable)
  BY DEF RestoreLegacy, Enable, Disable, settings
<1>3. ~ (ReconcileFails \/ EnableFails \/ EnableWake)
  BY DEF ReconcileFails, EnableFails, EnableWake, settings
<1>4. ASSUME NEW p \in Process PROVE ~ (RecoverCommand(p) \/ Die(p))
  BY DEF RecoverCommand, Die, settings
<1>5. ~ UNCHANGED mode
  BY DEF mode
<1>6. ASSUME NEW p \in Process, NEW s PROVE ~ Failed(p, s)
  BY DEF Failed, settings
<1>7. ASSUME NEW p \in Process, Handler(p)
      PROVE  \/ Finalize(p)
             \/ AfterApply(p) /\ task[p].handler = "legacy"
  <2>1. ~ (RecoveryFails(p) \/ AfterLegacy(p))
    BY <1>6 DEF RecoveryFails, AfterLegacy, Succeeded
  <2>2. ~ AfterFailedApply(p)
    BY <1>6 DEF AfterFailedApply
  <2>3. ASSUME AfterRecovery(p) PROVE FALSE
    <3>1. task[p].handler \notin {"exit", "disable", "init", "retry", "reconcile",
                                  "legacy", "command"}
      BY <1>6, <2>3 DEF AfterRecovery, Succeeded, AppliesOverride, settings
    <3>2. task[p] \in Task /\ task[p].handler \notin {"none", "enable"}
      BY <2>3 DEF AfterRecovery, Returned, ModeShape, ModeTyped, WellFormed
    <3>. QED  BY <3>1, <3>2 DEF Task
  <2>4. AfterApply(p) => task[p].handler = "legacy"
    BY <1>6 DEF AfterApply, Succeeded
  <2>5. ~ (ControllerStep(p) /\ UNCHANGED mode)
    BY <1>5
  <2>6. Finalize(p) \/ AfterApply(p)
    BY <1>7, <2>1, <2>2, <2>3, <2>5 DEF Handler
  <2>. QED  BY <2>4, <2>6
<1>. QED
  BY <1>1, <1>2, <1>3, <1>4, <1>5, <1>7 DEF VibecodeNext

(* An override is begun by SavePrepared only, whose controller works for a *)
(* handler that has checked the settings; and what was checked still holds *)
(* when the journal reaches the disk.                                      *)
THEOREM OnlyWanted ==
  ASSUME ~ Racing
  PROVE  VibecodeSpec => OverrideIsWanted
<1> DEFINE A == journal = None /\ journal' # None
                  => \/ journal'.operation = "legacy_restore"
                     \/ lidPref /\ legacy = None
<1>1. ASSUME IInv, ModeShape, ModeInv, VibecodeNext, journal = None, journal' # None
      PROVE  A
  <2>1. PICK p \in Process : ControllerStep(p)
    BY <1>1, HandlersWriteNothing
  <2> DEFINE r == ctl[p].journal
  <2>2. ctl[p].at \notin Applying \cup Restoring
    BY <1>1 DEF IInv, Controlled, Knows, Equipped, Applying, Restoring
  <2>3. SavePrepared(p)
    BY <1>1, <2>1, <2>2
       DEF ControllerStep, WriteField, Activate, MarkApplied, RecoverFailedApply,
           LoadForRecovery, SaveRestoring, DecideField, RestoreField,
           SaveResolution, FinishRestore, DeleteJournal, Applying, Restoring
  <2>4. journal' = r /\ ctl[p].at = "prepare"
    BY <1>1, <2>3 DEF SavePrepared, Save, SaveFails
  <2>5. task[p].call = "apply" /\ r.operation = Operation(task[p])
    BY <1>1, <2>4 DEF ModeInv, Sound, Serves
  <2>6. CASE task[p].handler = "legacy"
    BY <2>4, <2>5, <2>6 DEF Operation
  <2>7. CASE task[p].handler # "legacy"
    BY <1>1, <2>5, <2>7 DEF ModeInv, Sound, Intends
  <2>. QED  BY <2>6, <2>7
<1>2. IInv /\ ModeShape /\ ModeInv /\ [VibecodeNext]_allVars => [A]_allVars
  BY <1>1
<1>. QED
  BY <1>2, HandlersAreSound, PTL DEF VibecodeSpec, OverrideIsWanted

(* vibecode_lid, the only record of a policy an old version has            *)
(* overwritten, is cleared only when the journal says that this very pair  *)
(* has been applied.                                                       *)
THEOREM LegacyOutlivesFailure ==
  ASSUME ~ Racing
  PROVE  VibecodeSpec => LegacyClearedWhenApplied
<1> DEFINE A == legacy # None /\ legacy' = None
                  => /\ journal # None
                     /\ journal.phase = "applied"
                     /\ journal.applied = legacy
<1>1. ASSUME ModeShape, ModeInv, VibecodeNext, legacy # None, legacy' = None
      PROVE  A
  <2>1. PICK p \in Process : \/ Finalize(p)
                             \/ AfterApply(p) /\ task[p].handler = "legacy"
    BY <1>1, OnlyClearsLegacy
  <2>2. Answers(ctl[p], task[p]) /\ Carries(journal)
    BY <1>1 DEF ModeInv, Sound
  <2>3. CASE Finalize(p)
    BY <1>1, <2>2, <2>3 DEF Finalize, Returned, Answers, Carries, Committable
  <2>4. CASE AfterApply(p) /\ task[p].handler = "legacy"
    BY <1>1, <2>2, <2>4 DEF AfterApply, Returned, Answers, Carries, Operation
  <2>. QED  BY <2>1, <2>3, <2>4
<1>2. ModeShape /\ ModeInv /\ [VibecodeNext]_allVars => [A]_allVars
  BY <1>1 DEF allVars, mode
<1>. QED
  BY <1>2, HandlersAreSound, PTL DEF VibecodeSpec, LegacyClearedWhenApplied
=============================================================================
