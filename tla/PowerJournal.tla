---------------------------- MODULE PowerJournal ----------------------------
(***************************************************************************)
(* The lid-policy transaction of vibecode.rs: the controller that writes   *)
(* the lid-close action of a power scheme, and the journal from which what *)
(* it overwrote is restored.  Callers are free here: any process may call  *)
(* apply, recover or commit_legacy whenever its controller is idle.        *)
(*                                                                         *)
(* The Windows power settings are shared with the user, who may change a   *)
(* value or the active scheme between any two steps, and a process may die *)
(* between any two steps.  Every power or journal operation may fail; a    *)
(* failed save leaves either the old or the new journal on disk.           *)
(***************************************************************************)
EXTENDS Naturals

CONSTANTS
  Process,     \* processes with a controller: the program, the recovery command
  Scheme,      \* power schemes
  Value,       \* lid-close actions
  Override,    \* LID_DO_NOTHING
  Legacy,      \* pairs of lid-close actions an old version may have left
  None,
  Racing,      \* TRUE: processes may use the controller at the same time
  MaxChanges   \* bound on the number of values the user changes

Field == {"ac", "dc"}

LidValues == [Field -> Value]

ASSUME PowerJournalAssumption ==
  /\ Override \in LidValues
  /\ Legacy \subseteq LidValues
  /\ Racing \in BOOLEAN
  /\ MaxChanges \in Nat
  /\ None \notin [operation : {"persistent_override", "legacy_restore"},
                  scheme : Scheme, original : LidValues, applied : LidValues,
                  phase : {"prepared", "applied", "restoring"},
                  restoration : [Field -> {"pending", "restored", "relinquished"}]]

PowerJournal ==
  [operation   : {"persistent_override", "legacy_restore"},
   scheme      : Scheme,
   original    : LidValues,
   applied     : LidValues,
   phase       : {"prepared", "applied", "restoring"},
   restoration : [Field -> {"pending", "restored", "relinquished"}]]

\* What an operation may ask for.
Desired(operation) ==
  IF operation = "persistent_override" THEN {Override} ELSE Legacy

(***************************************************************************)
(* A controller: the next step, the field it is about, the journal it      *)
(* holds in memory, whether it is undoing a failed apply, and what its     *)
(* last call returned.  "unverified" is the error VerifyRestore of a       *)
(* completed restoration; "disturbed" is history: the user has changed a   *)
(* value since the recovery in progress began.                             *)
(***************************************************************************)
Control ==
  [at : {"idle", "prepare", "write", "activate", "mark", "undo", "restoring",
         "decide", "restore", "resolve", "finish", "delete"},
   field     : Field,
   journal   : PowerJournal \cup {None},
   undo      : BOOLEAN,
   disturbed : BOOLEAN,
   result    : {"none", "ok", "needs_commit", "failed", "unverified"}]

Idle ==
  [at |-> "idle", field |-> "ac", journal |-> None, undo |-> FALSE,
   disturbed |-> FALSE, result |-> "none"]

VARIABLES
  active,    \* the active power scheme
  value,     \* the lid-close actions stored in each scheme
  effect,    \* the lid-close actions in force
  journal,   \* power-override.v1.json
  ctl,       \* the controller of each process
  own,       \* history: the policy the user last chose, per scheme
  changes    \* number of values the user has changed

power == <<active, value, effect>>
vars == <<active, value, effect, journal, ctl, own, changes>>

Init ==
  /\ active \in Scheme
  /\ value \in [Scheme -> LidValues]
  /\ effect = value[active]
  /\ journal = None
  /\ ctl = [p \in Process |-> Idle]
  /\ own = value
  /\ changes = 0
-----------------------------------------------------------------------------
Continue(p, control) == ctl' = [ctl EXCEPT ![p] = control]

GoTo(p, at) == Continue(p, [ctl[p] EXCEPT !.at = at])

\* An undone apply returns the error that made it undo.
Return(p, result) ==
  Continue(p, [Idle EXCEPT
    !.result = IF ctl[p].undo /\ result \in {"ok", "needs_commit"}
                 THEN "failed" ELSE result,
    !.disturbed = ctl[p].disturbed /\ result = "unverified"])

Undo(p) == Continue(p, [ctl[p] EXCEPT !.at = "undo", !.undo = TRUE])

\* FileJournal::save.
Save(record) == journal' = record
SaveFails(record) == journal' \in {journal, record}

MayCall(p) ==
  /\ ctl[p].at = "idle"
  /\ Racing \/ \A q \in Process : ctl[q].at = "idle"
-----------------------------------------------------------------------------
(***************************************************************************)
(* apply                                                                   *)
(***************************************************************************)
PreparedJournal(operation, desired) ==
  [operation |-> operation, scheme |-> active, original |-> value[active],
   applied |-> desired, phase |-> "prepared",
   restoration |-> [f \in Field |-> "pending"]]

Apply(p, operation, desired) ==
  /\ MayCall(p)
  /\ \/ Return(p, "failed")
     \/ /\ journal = None
        /\ Continue(p, [Idle EXCEPT !.at = "prepare",
                          !.journal = PreparedJournal(operation, desired)])
  /\ UNCHANGED <<power, journal, own, changes>>

\* Mutant of SavePrepared: the result of the save is ignored.
SavePreparedUnchecked(p) ==
  /\ ctl[p].at = "prepare"
  /\ SaveFails(ctl[p].journal)
  /\ GoTo(p, "write")
  /\ UNCHANGED <<power, own, changes>>

SavePrepared(p) ==
  /\ ctl[p].at = "prepare"
  /\ \/ Save(ctl[p].journal) /\ GoTo(p, "write")
     \/ SaveFails(ctl[p].journal) /\ Return(p, "failed")
  /\ UNCHANGED <<power, own, changes>>

\* One field of the override; the active scheme is checked before the first.
WriteField(p) ==
  LET record == ctl[p].journal
      f == ctl[p].field
  IN  /\ ctl[p].at = "write"
      /\ \/ Undo(p) /\ UNCHANGED value
         \/ /\ f = "ac" => active = record.scheme
            /\ value' = [value EXCEPT ![record.scheme][f] = record.applied[f]]
            /\ IF f = "ac"
                 THEN Continue(p, [ctl[p] EXCEPT !.field = "dc"])
                 ELSE GoTo(p, "activate")
      /\ UNCHANGED <<active, effect, journal, own, changes>>

\* Mutant of MayActivate: the scheme is not checked again.
ActivateAnyway(record) == TRUE

\* The scheme an apply activates is still the active one.
MayActivate(record) == active = record.scheme

Activate(p) ==
  LET record == ctl[p].journal
  IN  /\ ctl[p].at = "activate"
      /\ \/ Undo(p) /\ UNCHANGED <<active, effect>>
         \/ /\ MayActivate(record)
            /\ active' = record.scheme
            /\ effect' = value[record.scheme]
            /\ GoTo(p, "mark")
      /\ UNCHANGED <<value, journal, own, changes>>

(* A legacy pair is the user's own policy from the moment the journal says *)
(* that it has been applied.                                               *)
Applied(record) ==
  /\ own' = IF record.operation = "legacy_restore"
              THEN [own EXCEPT ![record.scheme] = record.applied] ELSE own
  /\ Save(record)

MarkApplied(p) ==
  LET record == [ctl[p].journal EXCEPT !.phase = "applied"]
  IN  /\ ctl[p].at = "mark"
      /\ \/ Undo(p) /\ UNCHANGED <<journal, own>>
         \/ /\ value[record.scheme] = record.applied
            /\ Applied(record)
            /\ Return(p, "ok") \/ Undo(p)
      /\ UNCHANGED <<power, changes>>
-----------------------------------------------------------------------------
(***************************************************************************)
(* recover                                                                 *)
(***************************************************************************)
\* Mutant of Committable: any legacy journal is taken for an applied one.
CommittableEarly(record) ==
  /\ record # None
  /\ record.operation = "legacy_restore"

Committable(record) ==
  /\ record # None
  /\ record.operation = "legacy_restore"
  /\ record.phase = "applied"

RestoringJournal(record) == [record EXCEPT !.phase = "restoring"]

LoadForRecovery(p) ==
  /\ \/ Return(p, "failed")
     \/ journal = None /\ Return(p, "ok")
     \/ Committable(journal) /\ Return(p, "needs_commit")
     \/ /\ journal # None /\ ~ Committable(journal)
        /\ Continue(p, [ctl[p] EXCEPT !.at = "restoring", !.field = "ac",
                          !.journal = RestoringJournal(journal),
                          !.disturbed = FALSE, !.result = "none"])
  /\ UNCHANGED <<power, journal, own, changes>>

Recover(p) == MayCall(p) /\ LoadForRecovery(p)

RecoverFailedApply(p) == ctl[p].at = "undo" /\ LoadForRecovery(p)

SaveRestoring(p) ==
  /\ ctl[p].at = "restoring"
  /\ \/ Save(ctl[p].journal) /\ GoTo(p, "decide")
     \/ SaveFails(ctl[p].journal) /\ Return(p, "failed")
  /\ UNCHANGED <<power, own, changes>>

Resolve(p, resolution) ==
  Continue(p, [ctl[p] EXCEPT !.at = "resolve",
                 !.journal.restoration[ctl[p].field] = resolution])

\* The first half of restore_field.
DecideField(p) ==
  LET record == ctl[p].journal
      f == ctl[p].field
      current == value[record.scheme][f]
  IN  /\ ctl[p].at = "decide"
      /\ \/ Return(p, "failed")
         \/ current = record.original[f] /\ Resolve(p, "restored")
         \/ /\ current \notin {record.original[f], record.applied[f]}
            /\ Resolve(p, "relinquished")
         \/ /\ current # record.original[f] /\ current = record.applied[f]
            /\ GoTo(p, "restore")
      /\ UNCHANGED <<power, journal, own, changes>>

\* The second half of restore_field: the write and its read-back.
RestoreField(p) ==
  LET record == ctl[p].journal
      f == ctl[p].field
      restored == [value EXCEPT ![record.scheme][f] = record.original[f]]
  IN  /\ ctl[p].at = "restore"
      /\ \/ value' \in {value, restored} /\ Return(p, "failed")
         \/ value' = restored /\ Resolve(p, "restored")
      /\ UNCHANGED <<active, effect, journal, own, changes>>

SaveResolution(p) ==
  /\ ctl[p].at = "resolve"
  /\ \/ /\ Save(ctl[p].journal)
        /\ IF ctl[p].field = "ac"
             THEN Continue(p, [ctl[p] EXCEPT !.at = "decide", !.field = "dc"])
             ELSE GoTo(p, "finish")
     \/ SaveFails(ctl[p].journal) /\ Return(p, "failed")
  /\ UNCHANGED <<power, own, changes>>

\* Mutant of Verified: a field given up to the user is checked as well.
VerifiedThroughout(record) == value[record.scheme] = record.original

Verified(record) ==
  \A f \in Field :
    record.restoration[f] = "restored"
      => value[record.scheme][f] = record.original[f]

\* Mutant of Reactivated: the restored values are not put in force.
NotReactivated(record) == effect

\* What the activation at the end of restore leaves in force.
Reactivated(record) == IF active = record.scheme THEN value[active] ELSE effect

FinishRestore(p) ==
  LET record == ctl[p].journal
  IN  /\ ctl[p].at = "finish"
      /\ \/ effect' \in {effect, Reactivated(record)} /\ Return(p, "failed")
         \/ /\ effect' = Reactivated(record)
            /\ IF Verified(record) THEN GoTo(p, "delete")
                                   ELSE Return(p, "unverified")
      /\ UNCHANGED <<active, value, journal, own, changes>>

DeleteJournal(p) ==
  /\ ctl[p].at = "delete"
  /\ \/ journal' = None /\ Return(p, "ok")
     \/ journal' = journal /\ Return(p, "failed")
  /\ UNCHANGED <<power, own, changes>>

CommitLegacy(p) ==
  /\ MayCall(p)
  /\ \/ journal' = journal /\ Return(p, "failed")
     \/ /\ journal = None \/ Committable(journal)
        /\ journal' = None
        /\ Return(p, "ok")
  /\ UNCHANGED <<power, own, changes>>
-----------------------------------------------------------------------------
(***************************************************************************)
(* The environment                                                         *)
(***************************************************************************)
Crash(p) ==
  /\ ctl[p] # Idle
  /\ Continue(p, Idle)
  /\ UNCHANGED <<power, journal, own, changes>>

(* Windows has no compare-and-set for these values: a change between the   *)
(* read of a field and the write that depends on it goes unnoticed.        *)
Exposed(s, f) ==
  \E p \in Process :
    /\ ctl[p].at # "idle"
    /\ ctl[p].journal # None
    /\ ctl[p].journal.scheme = s
    /\ \/ ctl[p].at = "prepare"
       \/ ctl[p].at = "write" /\ (ctl[p].field = "ac" \/ f = "dc")
       \/ ctl[p].at = "restore" /\ ctl[p].field = f

(* Nor can a choice of the override's own value be told from the override. *)
Indistinguishable(s, f, v) ==
  /\ journal # None
  /\ journal.scheme = s
  /\ v = journal.applied[f]
  /\ v # journal.original[f]

ChangeValue(s, f, v) ==
  /\ changes < MaxChanges
  /\ v # value[s][f]
  /\ ~ Exposed(s, f)
  /\ ~ Indistinguishable(s, f, v)
  /\ value' = [value EXCEPT ![s][f] = v]
  /\ own' = [own EXCEPT ![s][f] = v]
  /\ effect' = IF s = active THEN value'[s] ELSE effect
  /\ ctl' = [p \in Process |->
               [ctl[p] EXCEPT !.disturbed = @ \/ ctl[p].at # "idle"]]
  /\ changes' = changes + 1
  /\ UNCHANGED <<active, journal>>

SwitchScheme(s) ==
  /\ s # active
  /\ active' = s
  /\ effect' = value[s]
  /\ UNCHANGED <<value, journal, ctl, own, changes>>

ControllerStep(p) ==
  \/ SavePrepared(p) \/ WriteField(p) \/ Activate(p) \/ MarkApplied(p)
  \/ RecoverFailedApply(p) \/ SaveRestoring(p) \/ DecideField(p)
  \/ RestoreField(p) \/ SaveResolution(p) \/ FinishRestore(p)
  \/ DeleteJournal(p)

Call(p) ==
  \/ \E operation \in {"persistent_override", "legacy_restore"} :
       \E desired \in Desired(operation) : Apply(p, operation, desired)
  \/ Recover(p)
  \/ CommitLegacy(p)

User ==
  \/ \E s \in Scheme, f \in Field, v \in Value : ChangeValue(s, f, v)
  \/ \E s \in Scheme : SwitchScheme(s)

Next ==
  \/ \E p \in Process : Call(p) \/ ControllerStep(p) \/ Crash(p)
  \/ User

Spec == Init /\ [][Next]_vars
-----------------------------------------------------------------------------
(***************************************************************************)
(* Properties                                                              *)
(***************************************************************************)

\* A controller that applies or restores holds a journal in that phase.
Equipped(c) ==
  /\ c.at \in {"prepare", "write", "activate", "mark"} =>
       c.journal # None /\ c.journal.phase = "prepared"
  /\ c.at \in {"restoring", "decide", "restore", "resolve", "finish", "delete"} =>
       c.journal # None /\ c.journal.phase = "restoring"

\* Types, and what a controller holds.
TypeOK ==
  /\ active \in Scheme
  /\ value \in [Scheme -> LidValues]
  /\ effect \in LidValues
  /\ journal \in PowerJournal \cup {None}
  /\ ctl \in [Process -> Control]
  /\ \A p \in Process : Equipped(ctl[p])
  /\ own \in [Scheme -> LidValues]
  /\ changes \in Nat

(* The journal can still give the user's policy of a field back.           *)
Restorable(s, f) ==
  /\ journal # None
  /\ ~ Committable(journal)
  /\ journal.scheme = s
  /\ value[s][f] = journal.applied[f]
  /\ own[s][f] = journal.original[f]

(* The user's lid policy is never lost: at every instant, crashes, failed  *)
(* operations and changes by the user included, each value of each scheme  *)
(* is the one the user chose last, or it is the override and the journal   *)
(* on disk holds the user's choice.                                        *)
PolicySafe ==
  \A s \in Scheme, f \in Field :
    value[s][f] = own[s][f] \/ Restorable(s, f)

(* Once the journal is gone, what is in force is what the active scheme    *)
(* says: no path deletes the journal after a write it has not activated.   *)
PolicyInForce == journal = None => effect = value[active]

(* A restoration fails its own verification only if the user has changed   *)
(* a value meanwhile: whatever an interrupted attempt left in the journal, *)
(* an undisturbed retry gets through.                                      *)
RetryConverges ==
  \A p \in Process : ctl[p].result = "unverified" => ctl[p].disturbed

(* The program never changes the active power scheme, which recovery must  *)
(* not do even to restore the scheme it has written.                       *)
SchemeIsUsers == [][active' # active => UNCHANGED <<journal, ctl>>]_vars
=============================================================================
