------------------------- MODULE PowerJournalProofs -------------------------
(***************************************************************************)
(* Proofs about PowerJournal: when processes do not use the controller at  *)
(* the same time, the user's lid policy is never lost and nothing stays in *)
(* force that the settings do not say.                                     *)
(***************************************************************************)
EXTENDS PowerJournal, TLAPS

\* The fields an apply has read and not yet written.
Unwritten(c) ==
  IF c.at = "prepare" \/ (c.at = "write" /\ c.field = "ac") THEN Field
  ELSE IF c.at = "write" THEN {"dc"} ELSE {}

\* The fields a recovery has decided in this pass.
Resolved(c) ==
  IF c.at \in {"finish", "delete"} \/ (c.at = "resolve" /\ c.field = "dc")
    THEN Field
  ELSE IF c.at = "resolve" \/ (c.at \in {"decide", "restore"} /\ c.field = "dc")
    THEN {"ac"} ELSE {}

Applying == {"write", "activate", "mark"}

Restoring == {"restoring", "decide", "restore", "resolve", "finish", "delete"}

\* Two journals of one override.
SameOverride(r, s) ==
  /\ r.scheme = s.scheme
  /\ r.original = s.original
  /\ r.applied = s.applied

(* What a controller may rely on at each of its steps: what it has read is *)
(* still there, and the journal on disk is the one it holds.               *)
Knows(c) ==
  LET r == c.journal
  IN  /\ c.at = "prepare" => journal = None
      /\ c.at \in Applying => journal = r
      /\ c.at \in Restoring =>
           journal # None /\ ~ Committable(journal) /\ SameOverride(journal, r)
      /\ c.at = "restoring" => c.field = "ac"
      /\ \A f \in Unwritten(c) :
           /\ own[r.scheme][f] = r.original[f]
           /\ value[r.scheme][f] = r.original[f]
      /\ c.at = "restore" => own[r.scheme][c.field] = r.original[c.field]
      /\ \A f \in Resolved(c) : value[r.scheme][f] = own[r.scheme][f]
      /\ c.at \in {"mark", "delete"} => effect = value[active]

\* What looks like the override is the override.
ToldApart ==
  journal # None /\ ~ Committable(journal) =>
    \A f \in Field :
      /\ value[journal.scheme][f] = journal.applied[f]
      /\ journal.applied[f] # journal.original[f]
      => own[journal.scheme][f] = journal.original[f]

\* Only the scheme under an override may be in force with other values.
InForce ==
  journal = None \/ Committable(journal) \/ active # journal.scheme
    => effect = value[active]

OneBusy ==
  \A p, q \in Process : ctl[p].at # "idle" /\ ctl[q].at # "idle" => p = q

(* The part of the invariant about the machine, and the part about the     *)
(* controllers.                                                            *)
Safe ==
  /\ active \in Scheme
  /\ value \in [Scheme -> LidValues]
  /\ effect \in LidValues
  /\ journal \in PowerJournal \cup {None}
  /\ own \in [Scheme -> LidValues]
  /\ changes \in Nat
  /\ PolicySafe
  /\ ToldApart
  /\ InForce

Controlled ==
  /\ ctl \in [Process -> Control]
  /\ \A p \in Process : Equipped(ctl[p]) /\ Knows(ctl[p])
  /\ OneBusy

IInv == Safe /\ Controlled

USE DEF Field
-----------------------------------------------------------------------------
(***************************************************************************)
(* Lemmas about controllers                                                *)
(***************************************************************************)
Alone(p) == \A q \in Process : q # p => ctl[q].at = "idle"

LEMMA BusyAlone ==
  ASSUME Controlled, NEW p \in Process, ctl[p].at # "idle"
  PROVE  Alone(p)
BY DEF Controlled, OneBusy, Alone

LEMMA CallerAlone ==
  ASSUME NEW p \in Process, ~ Racing, MayCall(p)
  PROVE  Alone(p)
BY DEF MayCall, Alone

\* An idle controller relies on nothing, nor does one about to recover.
LEMMA Ignorant ==
  ASSUME NEW c, c.at \in {"idle", "undo"}
  PROVE  Equipped(c) /\ Knows(c)
BY DEF Equipped, Knows, Unwritten, Resolved, Applying, Restoring

LEMMA Proceed ==
  ASSUME Controlled, NEW p \in Process, Alone(p),
         NEW c \in Control, Continue(p, c), Equipped(c), Knows(ctl[p])'
  PROVE  Controlled'
<1>1. ctl' \in [Process -> Control]
  BY DEF Controlled, Continue
<1>2. ctl'[p] = c /\ \A q \in Process : q # p => ctl'[q] = ctl[q]
  BY DEF Controlled, Continue
<1>3. OneBusy'
  BY <1>2 DEF Alone, OneBusy
<1>4. ASSUME NEW q \in Process
      PROVE  (Equipped(ctl[q]) /\ Knows(ctl[q]))'
  <2>1. CASE q = p
    BY <2>1, <1>2 DEF Equipped
  <2>2. CASE q # p
    <3>1. ctl'[q].at = "idle"
      BY <2>2, <1>2 DEF Alone
    <3>. QED
      BY <3>1 DEF Equipped, Knows, Unwritten, Resolved, Applying, Restoring
  <2>. QED  BY <2>1, <2>2
<1>. QED  BY <1>1, <1>3, <1>4 DEF Controlled

LEMMA Forget ==
  ASSUME Controlled, NEW p \in Process, Alone(p),
         NEW c \in Control, Continue(p, c), c.at \in {"idle", "undo"}
  PROVE  Controlled'
<1>1. ctl'[p] = c
  BY DEF Controlled, Continue
<1>2. Knows(ctl[p])'
  BY <1>1 DEF Knows, Unwritten, Resolved, Applying, Restoring
<1>. QED  BY <1>2, Ignorant, Proceed

LEMMA Returns ==
  ASSUME Controlled, NEW p \in Process, Alone(p),
         NEW result \in {"ok", "needs_commit", "failed", "unverified"},
         Return(p, result)
  PROVE  Controlled'
<1> DEFINE c == [Idle EXCEPT
      !.result = IF ctl[p].undo /\ result \in {"ok", "needs_commit"}
                   THEN "failed" ELSE result,
      !.disturbed = ctl[p].disturbed /\ result = "unverified"]
<1>1. c \in Control /\ c.at = "idle"
  BY DEF Control, Idle
<1>2. Continue(p, c)
  BY DEF Return
<1>. QED  BY <1>1, <1>2, Forget

LEMMA Undoes ==
  ASSUME Controlled, NEW p \in Process, Alone(p), Undo(p)
  PROVE  Controlled'
<1> DEFINE c == [ctl[p] EXCEPT !.at = "undo", !.undo = TRUE]
<1>1. c \in Control /\ c.at = "undo"
  BY DEF Controlled, Control
<1>2. Continue(p, c)
  BY DEF Undo
<1>. QED  BY <1>1, <1>2, Forget

\* Nothing that a step leaves alone becomes unsafe.
LEMMA SafeStutter ==
  ASSUME Safe, UNCHANGED <<power, journal, own, changes>>
  PROVE  Safe'
BY DEF Safe, power, PolicySafe, Restorable, ToldApart, InForce, Committable
-----------------------------------------------------------------------------
LEMMA InitInd == ASSUME Init PROVE IInv
<1>1. value \in [Scheme -> LidValues] /\ active \in Scheme
  BY DEF Init
<1>2. Safe
  BY <1>1 DEF Init, Safe, PolicySafe, ToldApart, InForce
<1>3. ctl \in [Process -> Control] /\ \A p \in Process : ctl[p].at = "idle"
  BY DEF Init, Idle, Control
<1>4. Controlled
  BY <1>3, Ignorant DEF Controlled, OneBusy
<1>. QED  BY <1>2, <1>4 DEF IInv
-----------------------------------------------------------------------------
(***************************************************************************)
(* apply                                                                   *)
(***************************************************************************)
LEMMA ApplyInd ==
  ASSUME PowerJournalAssumption, IInv, ~ Racing, NEW p \in Process,
         NEW operation \in {"persistent_override", "legacy_restore"},
         NEW desired \in Desired(operation),
         Apply(p, operation, desired)
  PROVE  IInv'
<1> USE DEF IInv
<1>1. Safe'
  BY SafeStutter DEF Apply
<1>2. Alone(p)
  BY CallerAlone DEF Apply
<1>3. CASE Return(p, "failed")
  BY <1>1, <1>2, <1>3, Returns
<1>4. CASE /\ journal = None
           /\ Continue(p, [Idle EXCEPT !.at = "prepare",
                             !.journal = PreparedJournal(operation, desired)])
  <2> DEFINE r == PreparedJournal(operation, desired)
             c == [Idle EXCEPT !.at = "prepare", !.journal = r]
  <2>1. desired \in LidValues
    BY DEF Desired, PowerJournalAssumption
  <2>2. /\ r \in PowerJournal
        /\ r.phase = "prepared"
        /\ r.scheme = active
        /\ r.original = value[active]
    BY <2>1 DEF PreparedJournal, PowerJournal, Safe
  <2>3. r # None
    BY <2>2 DEF PowerJournal, PowerJournalAssumption
  <2> HIDE DEF r
  <2>4. /\ c \in Control
        /\ c.at = "prepare"
        /\ c.journal = r
    BY <2>2 DEF Control, Idle
  <2> HIDE DEF c
  <2>5. Equipped(c)
    BY <2>2, <2>3, <2>4 DEF Equipped
  <2>6. Continue(p, c)
    BY <1>4 DEF c, r
  <2>7. ctl'[p] = c
    BY <2>6 DEF Continue, Controlled
  <2>8. UNCHANGED <<active, value, effect, journal, own>>
    BY DEF Apply, power
  <2>9. \A f \in Field : value[active][f] = own[active][f]
    BY <1>4 DEF Safe, PolicySafe, Restorable
  <2>10. Knows(ctl[p])'
    BY <1>4, <2>2, <2>4, <2>7, <2>8, <2>9
       DEF Knows, Unwritten, Resolved, Applying, Restoring
  <2>. QED  BY <1>1, <1>2, <2>4, <2>5, <2>6, <2>10, Proceed
<1>. QED  BY <1>3, <1>4 DEF Apply

\* A journal about to be saved for the first time holds the user's policy.
LEMMA SafeWithPrepared ==
  ASSUME Safe, NEW r \in PowerJournal, r # None, r.phase = "prepared",
         journal = None \/ journal = r,
         \A f \in Field : /\ own[r.scheme][f] = r.original[f]
                          /\ value[r.scheme][f] = r.original[f],
         journal' \in {journal, r},
         UNCHANGED <<power, own, changes>>
  PROVE  Safe'
<1>1. journal' \in PowerJournal \cup {None}
  BY DEF Safe
<1>2. PolicySafe'
  BY DEF Safe, power, PolicySafe, Restorable
<1>3. ToldApart'
  BY DEF Safe, power, ToldApart, Committable
<1>4. InForce'
  BY DEF Safe, power, InForce, Committable
<1>. QED  BY <1>1, <1>2, <1>3, <1>4 DEF Safe, power

LEMMA SavePreparedInd ==
  ASSUME IInv, NEW p \in Process, SavePrepared(p)
  PROVE  IInv'
<1> USE DEF IInv
<1> DEFINE r == ctl[p].journal
           c == [ctl[p] EXCEPT !.at = "write"]
<1>1. Alone(p)
  BY BusyAlone DEF SavePrepared
<1>2. /\ ctl[p] \in Control
      /\ ctl[p].at = "prepare"
      /\ r # None
      /\ r \in PowerJournal
      /\ r.phase = "prepared"
      /\ journal = None
      /\ \A f \in Field : /\ own[r.scheme][f] = r.original[f]
                          /\ value[r.scheme][f] = r.original[f]
  BY DEF SavePrepared, Controlled, Control, Equipped, Knows, Unwritten
<1>3. Safe'
  BY <1>2, SafeWithPrepared DEF SavePrepared, Save, SaveFails
<1>4. CASE Return(p, "failed")
  BY <1>1, <1>3, <1>4, Returns
<1>5. CASE Save(r) /\ GoTo(p, "write")
  <2>1. /\ c \in Control
        /\ c.at = "write"
        /\ c.journal = r
        /\ c.field = ctl[p].field
    BY <1>2 DEF Control
  <2>2. Continue(p, c)
    BY <1>5 DEF GoTo
  <2> HIDE DEF c
  <2>3. ctl'[p] = c /\ Equipped(c)
    BY <1>2, <2>1, <2>2 DEF Continue, Controlled, Equipped
  <2>4. journal' = r /\ UNCHANGED <<value, own>>
    BY <1>5 DEF Save, SavePrepared, power
  <2>5. Knows(ctl[p])'
    BY <1>2, <2>1, <2>3, <2>4
       DEF Knows, Unwritten, Resolved, Applying, Restoring
  <2>. QED  BY <1>1, <1>3, <2>1, <2>2, <2>3, <2>5, Proceed
<1>. QED  BY <1>4, <1>5 DEF SavePrepared

LEMMA WriteFieldInd ==
  ASSUME IInv, NEW p \in Process, WriteField(p)
  PROVE  IInv'
<1> USE DEF IInv
<1> DEFINE r == ctl[p].journal
           f == ctl[p].field
<1>1. Alone(p)
  BY BusyAlone DEF WriteField
<1>2. /\ ctl[p] \in Control
      /\ ctl[p].at = "write"
      /\ r # None
      /\ r \in PowerJournal
      /\ r.phase = "prepared"
      /\ journal = r
      /\ f \in Field
      /\ own[r.scheme][f] = r.original[f]
      /\ \A g \in Field : f = "ac" => own[r.scheme][g] = r.original[g]
                                      /\ value[r.scheme][g] = r.original[g]
  BY DEF WriteField, Controlled, Control, Equipped, Knows, Unwritten, Applying
<1>3. CASE Undo(p) /\ UNCHANGED value
  <2>1. Safe'
    BY <1>3, SafeStutter DEF WriteField, power
  <2>. QED  BY <1>1, <1>3, <2>1, Undoes
<1>4. CASE /\ value' = [value EXCEPT ![r.scheme][f] = r.applied[f]]
           /\ IF f = "ac"
                THEN Continue(p, [ctl[p] EXCEPT !.field = "dc"])
                ELSE GoTo(p, "activate")
  <2>1. /\ r.scheme \in Scheme
        /\ r.applied \in LidValues
        /\ ~ Committable(r)
    BY <1>2 DEF PowerJournal, Committable
  <2>2. UNCHANGED <<active, effect, journal, own, changes>>
    BY DEF WriteField
  <2>3. value' \in [Scheme -> LidValues]
    BY <1>2, <1>4, <2>1 DEF Safe, LidValues
  <2>4. /\ value'[r.scheme][f] = r.applied[f]
        /\ \A s \in Scheme, g \in Field :
             s # r.scheme \/ g # f => value'[s][g] = value[s][g]
        /\ \A s \in Scheme : s # r.scheme => value'[s] = value[s]
    BY <1>2, <1>4, <2>1 DEF Safe, LidValues
  <2>5. PolicySafe'
    BY <1>2, <2>1, <2>2, <2>4 DEF Safe, PolicySafe, Restorable
  <2>6. ToldApart'
    BY <1>2, <2>1, <2>2, <2>4 DEF Safe, ToldApart
  <2>7. InForce'
    BY <1>2, <2>1, <2>2, <2>4 DEF Safe, InForce
  <2>8. Safe'
    BY <2>2, <2>3, <2>5, <2>6, <2>7 DEF Safe
  <2>9. CASE f = "ac"
    <3> DEFINE c == [ctl[p] EXCEPT !.field = "dc"]
    <3>1. /\ c \in Control
          /\ c.at = "write"
          /\ c.journal = r
          /\ c.field = "dc"
      BY <1>2 DEF Control
    <3>2. Continue(p, c)
      BY <1>4, <2>9
    <3> HIDE DEF c
    <3>3. ctl'[p] = c /\ Equipped(c)
      BY <1>2, <3>1, <3>2 DEF Continue, Controlled, Equipped
    <3>4. Knows(ctl[p])'
      BY <1>2, <2>1, <2>2, <2>4, <2>9, <3>1, <3>3
         DEF Knows, Unwritten, Resolved, Applying, Restoring
    <3>. QED  BY <1>1, <2>8, <3>1, <3>2, <3>3, <3>4, Proceed
  <2>10. CASE f # "ac"
    <3> DEFINE c == [ctl[p] EXCEPT !.at = "activate"]
    <3>1. /\ c \in Control
          /\ c.at = "activate"
          /\ c.journal = r
      BY <1>2 DEF Control
    <3>2. Continue(p, c)
      BY <1>4, <2>10 DEF GoTo
    <3> HIDE DEF c
    <3>3. ctl'[p] = c /\ Equipped(c)
      BY <1>2, <3>1, <3>2 DEF Continue, Controlled, Equipped
    <3>4. Knows(ctl[p])'
      BY <1>2, <2>2, <3>1, <3>3
         DEF Knows, Unwritten, Resolved, Applying, Restoring
    <3>. QED  BY <1>1, <2>8, <3>1, <3>2, <3>3, <3>4, Proceed
  <2>. QED  BY <2>9, <2>10
<1>. QED  BY <1>3, <1>4 DEF WriteField

LEMMA ActivateInd ==
  ASSUME IInv, NEW p \in Process, Activate(p)
  PROVE  IInv'
<1> USE DEF IInv
<1> DEFINE r == ctl[p].journal
           c == [ctl[p] EXCEPT !.at = "mark"]
<1>1. Alone(p)
  BY BusyAlone DEF Activate
<1>2. /\ ctl[p] \in Control
      /\ ctl[p].at = "activate"
      /\ r # None
      /\ r \in PowerJournal
      /\ r.phase = "prepared"
      /\ journal = r
  BY DEF Activate, Controlled, Control, Equipped, Knows, Applying
<1>3. CASE Undo(p) /\ UNCHANGED <<active, effect>>
  <2>1. Safe'
    BY <1>3, SafeStutter DEF Activate, power
  <2>. QED  BY <1>1, <1>3, <2>1, Undoes
<1>4. CASE /\ MayActivate(r)
           /\ active' = r.scheme
           /\ effect' = value[r.scheme]
           /\ GoTo(p, "mark")
  <2>1. active' = active /\ effect' = value[active]
    BY <1>4 DEF MayActivate
  <2>2. UNCHANGED <<value, journal, own, changes>>
    BY DEF Activate
  <2>3. Safe'
    BY <2>1, <2>2
       DEF Safe, PolicySafe, Restorable, ToldApart, InForce, Committable
  <2>4. /\ c \in Control
        /\ c.at = "mark"
        /\ c.journal = r
    BY <1>2 DEF Control
  <2>5. Continue(p, c)
    BY <1>4 DEF GoTo
  <2> HIDE DEF c
  <2>6. ctl'[p] = c /\ Equipped(c)
    BY <1>2, <2>4, <2>5 DEF Continue, Controlled, Equipped
  <2>7. Knows(ctl[p])'
    BY <1>2, <2>1, <2>2, <2>4, <2>6
       DEF Knows, Unwritten, Resolved, Applying, Restoring
  <2>. QED  BY <1>1, <2>3, <2>4, <2>5, <2>6, <2>7, Proceed
<1>. QED  BY <1>3, <1>4 DEF Activate

LEMMA MarkAppliedInd ==
  ASSUME PowerJournalAssumption, IInv, NEW p \in Process, MarkApplied(p)
  PROVE  IInv'
<1> USE DEF IInv
<1> DEFINE j == ctl[p].journal
           r == [j EXCEPT !.phase = "applied"]
<1>1. Alone(p)
  BY BusyAlone DEF MarkApplied
<1>2. /\ ctl[p] \in Control
      /\ ctl[p].at = "mark"
      /\ j # None
      /\ j \in PowerJournal
      /\ j.phase = "prepared"
      /\ journal = j
      /\ effect = value[active]
  BY DEF MarkApplied, Controlled, Control, Equipped, Knows, Applying
<1>3. CASE Undo(p) /\ UNCHANGED <<journal, own>>
  <2>1. Safe'
    BY <1>3, SafeStutter DEF MarkApplied
  <2>. QED  BY <1>1, <1>3, <2>1, Undoes
<1>4. CASE /\ value[r.scheme] = r.applied
           /\ Applied(r)
           /\ Return(p, "ok") \/ Undo(p)
  <2>1. /\ r \in PowerJournal
        /\ r.phase = "applied"
        /\ r.operation = j.operation
        /\ SameOverride(r, j)
        /\ r.scheme \in Scheme
        /\ r.applied \in LidValues
    BY <1>2 DEF PowerJournal, SameOverride
  <2>2. r # None
    BY <2>1 DEF PowerJournal, PowerJournalAssumption
  <2> DEFINE q == r
  <2>3. /\ q \in PowerJournal /\ q # None
        /\ q.phase = "applied"
        /\ q.operation = j.operation
        /\ SameOverride(q, j)
        /\ q.scheme \in Scheme
        /\ q.applied \in LidValues
        /\ value[q.scheme] = q.applied
        /\ journal' = q
        /\ own' = IF q.operation = "legacy_restore"
                    THEN [own EXCEPT ![q.scheme] = q.applied] ELSE own
    BY <1>4, <2>1, <2>2 DEF Applied, Save
  <2> HIDE DEF q
  <2>4. UNCHANGED <<power, changes>>
    BY DEF MarkApplied
  <2>5. own' \in [Scheme -> LidValues]
    BY <2>3 DEF Safe
  <2>6. ASSUME q.operation = "legacy_restore" PROVE Safe'
    <3>1. /\ own'[q.scheme] = value[q.scheme]
          /\ \A s \in Scheme : s # q.scheme => own'[s] = own[s]
      BY <2>3, <2>6 DEF Safe
    <3>2. PolicySafe'
      BY <1>2, <2>3, <2>4, <3>1
         DEF Safe, power, PolicySafe, Restorable, SameOverride
    <3>3. ToldApart'
      BY <2>3, <2>6 DEF ToldApart, Committable
    <3>4. InForce'
      BY <1>2, <2>4 DEF power, InForce
    <3>. QED  BY <2>3, <2>4, <2>5, <3>2, <3>3, <3>4 DEF Safe, power
  <2>7. ASSUME q.operation # "legacy_restore" PROVE Safe'
    <3>1. own' = own /\ ~ Committable(q) /\ ~ Committable(j)
      BY <1>2, <2>3, <2>7 DEF Committable
    <3>2. PolicySafe'
      BY <1>2, <2>3, <2>4, <3>1
         DEF Safe, power, PolicySafe, Restorable, SameOverride
    <3>3. ToldApart'
      BY <1>2, <2>3, <2>4, <3>1 DEF Safe, power, ToldApart, SameOverride
    <3>4. InForce'
      BY <1>2, <2>4 DEF power, InForce
    <3>. QED  BY <2>3, <2>4, <2>5, <3>2, <3>3, <3>4 DEF Safe, power
  <2>8. Safe'
    BY <2>6, <2>7
  <2>9. Controlled'
    BY <1>1, <1>4, Returns, Undoes
  <2>. QED  BY <2>8, <2>9
<1>. QED  BY <1>3, <1>4 DEF MarkApplied

-----------------------------------------------------------------------------
(***************************************************************************)
(* recover                                                                 *)
(***************************************************************************)
LEMMA LoadForRecoveryInd ==
  ASSUME PowerJournalAssumption, IInv, NEW p \in Process, Alone(p),
         LoadForRecovery(p)
  PROVE  IInv'
<1> USE DEF IInv
<1>1. Safe'
  BY SafeStutter DEF LoadForRecovery
<1>2. CASE Return(p, "failed") \/ Return(p, "ok") \/ Return(p, "needs_commit")
  BY <1>1, <1>2, Returns
<1>3. CASE /\ journal # None /\ ~ Committable(journal)
           /\ Continue(p, [ctl[p] EXCEPT !.at = "restoring", !.field = "ac",
                             !.journal = RestoringJournal(journal),
                             !.disturbed = FALSE, !.result = "none"])
  <2> DEFINE r == RestoringJournal(journal)
             c == [ctl[p] EXCEPT !.at = "restoring", !.field = "ac",
                     !.journal = r, !.disturbed = FALSE, !.result = "none"]
  <2>1. /\ r \in PowerJournal
        /\ r.phase = "restoring"
        /\ SameOverride(journal, r)
    BY <1>3 DEF Safe, RestoringJournal, PowerJournal, SameOverride
  <2>2. r # None
    BY <2>1 DEF PowerJournal, PowerJournalAssumption
  <2> HIDE DEF r
  <2>3. /\ c \in Control
        /\ c.at = "restoring"
        /\ c.field = "ac"
        /\ c.journal = r
    BY <2>1 DEF Controlled, Control
  <2>4. Continue(p, c)
    BY <1>3 DEF r
  <2> HIDE DEF c
  <2>5. ctl'[p] = c /\ Equipped(c)
    BY <2>1, <2>2, <2>3, <2>4 DEF Continue, Controlled, Equipped
  <2>6. UNCHANGED <<value, own, journal, effect, active>>
    BY DEF LoadForRecovery, power
  <2>7. Knows(ctl[p])'
    BY <1>3, <2>1, <2>3, <2>5, <2>6
       DEF Knows, Unwritten, Resolved, Applying, Restoring
  <2>. QED  BY <1>1, <2>3, <2>4, <2>5, <2>7, Proceed
<1>. QED  BY <1>2, <1>3 DEF LoadForRecovery

\* What a controller that restores holds.
LEMMA RestoringHolds ==
  ASSUME Controlled, NEW p \in Process, ctl[p].at \in Restoring
  PROVE  /\ Alone(p)
         /\ ctl[p] \in Control
         /\ ctl[p].journal \in PowerJournal
         /\ ctl[p].journal # None
         /\ ctl[p].journal.phase = "restoring"
         /\ ~ Committable(ctl[p].journal)
         /\ ctl[p].field \in Field
         /\ journal # None
         /\ ~ Committable(journal)
         /\ SameOverride(journal, ctl[p].journal)
BY BusyAlone DEF Restoring, Controlled, Control, Equipped, Knows, Committable

\* A journal of the same restoration is as good as the one on disk.
LEMMA SafeWithRestoring ==
  ASSUME Safe, NEW r \in PowerJournal, r # None, r.phase = "restoring",
         journal # None, ~ Committable(journal), SameOverride(journal, r),
         journal' \in {journal, r},
         UNCHANGED <<power, own, changes>>
  PROVE  Safe'
<1>1. journal' \in PowerJournal /\ journal' # None /\ ~ Committable(journal')
  BY DEF Safe, Committable
<1>2. SameOverride(journal, journal')
  BY DEF SameOverride
<1>3. PolicySafe'
  BY <1>1, <1>2 DEF Safe, power, PolicySafe, Restorable, SameOverride
<1>4. ToldApart'
  BY <1>1, <1>2 DEF Safe, power, ToldApart, SameOverride
<1>5. InForce'
  BY <1>1, <1>2 DEF Safe, power, InForce, SameOverride
<1>. QED  BY <1>1, <1>3, <1>4, <1>5 DEF Safe, power

LEMMA SaveRestoringInd ==
  ASSUME IInv, NEW p \in Process, SaveRestoring(p)
  PROVE  IInv'
<1> USE DEF IInv
<1> DEFINE r == ctl[p].journal
           c == [ctl[p] EXCEPT !.at = "decide"]
<1>0. ctl[p].at = "restoring" /\ ctl[p].at \in Restoring
  BY DEF SaveRestoring, Restoring
<1>1. /\ Alone(p) /\ ctl[p] \in Control
      /\ r \in PowerJournal /\ r # None /\ r.phase = "restoring"
      /\ ~ Committable(r) /\ journal # None /\ ~ Committable(journal)
      /\ SameOverride(journal, r)
  BY <1>0, RestoringHolds
<1>2. ctl[p].field = "ac"
  BY <1>0 DEF Controlled, Knows
<1>3. Safe'
  BY <1>1, SafeWithRestoring DEF SaveRestoring, Save, SaveFails
<1>4. CASE Return(p, "failed")
  BY <1>1, <1>3, <1>4, Returns
<1>5. CASE Save(r) /\ GoTo(p, "decide")
  <2>1. /\ c \in Control
        /\ c.at = "decide"
        /\ c.journal = r
        /\ c.field = ctl[p].field
    BY <1>1 DEF Control
  <2>2. Continue(p, c)
    BY <1>5 DEF GoTo
  <2> HIDE DEF c
  <2>3. ctl'[p] = c /\ Equipped(c)
    BY <1>1, <2>1, <2>2 DEF Continue, Controlled, Equipped
  <2>4. journal' = r /\ UNCHANGED <<value, own>>
    BY <1>5 DEF Save, SaveRestoring, power
  <2>6. Knows(ctl[p])'
    BY <1>1, <1>2, <2>1, <2>3, <2>4
       DEF Knows, Unwritten, Resolved, Applying, Restoring, SameOverride
  <2>. QED  BY <1>1, <1>3, <2>1, <2>2, <2>3, <2>6, Proceed
<1>. QED  BY <1>4, <1>5 DEF SaveRestoring

\* A resolution changes nothing but the journal in memory.
LEMMA Resolves ==
  ASSUME Controlled, NEW p \in Process, ctl[p].at \in {"decide", "restore"},
         NEW resolution \in {"restored", "relinquished"},
         Resolve(p, resolution),
         UNCHANGED <<journal, own, active>>,
         LET r == ctl[p].journal
         IN  /\ value'[r.scheme][ctl[p].field] = own[r.scheme][ctl[p].field]
             /\ \A g \in Field :
                  g # ctl[p].field => value'[r.scheme][g] = value[r.scheme][g]
  PROVE  Controlled'
<1> DEFINE r == ctl[p].journal
           f == ctl[p].field
           k == [r EXCEPT !.restoration[f] = resolution]
           c == [ctl[p] EXCEPT !.at = "resolve", !.journal = k]
<1>1. /\ Alone(p) /\ ctl[p] \in Control /\ f \in Field
      /\ r \in PowerJournal /\ r # None /\ r.phase = "restoring"
      /\ journal # None /\ ~ Committable(journal) /\ SameOverride(journal, r)
  BY RestoringHolds DEF Restoring
<1>2. /\ k \in PowerJournal
      /\ k.phase = "restoring"
      /\ SameOverride(r, k)
  BY <1>1 DEF PowerJournal, SameOverride
<1>3. k # None
  BY <1>2, PowerJournalAssumption DEF PowerJournal, PowerJournalAssumption
<1>4. Continue(p, [ctl[p] EXCEPT !.at = "resolve",
                     !.journal.restoration[f] = resolution])
  BY DEF Resolve
<1>5. Continue(p, c)
  BY <1>1, <1>4 DEF Control, PowerJournal
<1> HIDE DEF k
<1>6. /\ c \in Control
      /\ c.at = "resolve"
      /\ c.journal = k
      /\ c.field = f
  BY <1>1, <1>2 DEF Control
<1> HIDE DEF c
<1>7. ctl'[p] = c /\ Equipped(c)
  BY <1>2, <1>3, <1>5, <1>6 DEF Continue, Controlled, Equipped
<1>8. \A g \in Resolved(c) : value'[r.scheme][g] = own[r.scheme][g]
  BY <1>1, <1>6 DEF Resolved, Controlled, Knows
<1>9. Knows(ctl[p])'
  BY <1>1, <1>2, <1>6, <1>7, <1>8
     DEF Knows, Unwritten, Resolved, Applying, Restoring, SameOverride
<1>. QED  BY <1>1, <1>5, <1>6, <1>7, <1>9, Proceed

LEMMA DecideFieldInd ==
  ASSUME IInv, NEW p \in Process, DecideField(p)
  PROVE  IInv'
<1> USE DEF IInv
<1> DEFINE r == ctl[p].journal
           f == ctl[p].field
           current == value[r.scheme][f]
<1>1. ctl[p].at = "decide" /\ ctl[p].at \in Restoring
  BY DEF DecideField, Restoring
<1>2. /\ Alone(p) /\ ctl[p] \in Control /\ f \in Field
      /\ r \in PowerJournal /\ r # None /\ r.phase = "restoring"
      /\ journal # None /\ ~ Committable(journal) /\ SameOverride(journal, r)
  BY <1>1, RestoringHolds
<1>3. r.scheme \in Scheme
  BY <1>2 DEF PowerJournal
<1>4. UNCHANGED <<active, value, effect, journal, own, changes>>
  BY DEF DecideField, power
<1>5. Safe'
  BY <1>4, SafeStutter DEF power
<1>6. CASE Return(p, "failed")
  BY <1>2, <1>5, <1>6, Returns
<1>7. CASE current = r.original[f] /\ Resolve(p, "restored")
  <2>1. current = own[r.scheme][f]
    BY <1>2, <1>3, <1>7 DEF Safe, PolicySafe, Restorable, SameOverride
  <2>. QED  BY <1>1, <1>4, <1>5, <1>7, <2>1, Resolves
<1>8. CASE /\ current \notin {r.original[f], r.applied[f]}
           /\ Resolve(p, "relinquished")
  <2>1. current = own[r.scheme][f]
    BY <1>2, <1>3, <1>8 DEF Safe, PolicySafe, Restorable, SameOverride
  <2>. QED  BY <1>1, <1>4, <1>5, <1>8, <2>1, Resolves
<1>9. CASE /\ current # r.original[f] /\ current = r.applied[f]
           /\ GoTo(p, "restore")
  <2> DEFINE c == [ctl[p] EXCEPT !.at = "restore"]
  <2>1. own[r.scheme][f] = r.original[f]
    BY <1>2, <1>9 DEF Safe, ToldApart, SameOverride
  <2>2. /\ c \in Control
        /\ c.at = "restore"
        /\ c.journal = r
        /\ c.field = f
    BY <1>2 DEF Control
  <2>3. Continue(p, c)
    BY <1>9 DEF GoTo
  <2> HIDE DEF c
  <2>4. ctl'[p] = c /\ Equipped(c)
    BY <1>2, <2>2, <2>3 DEF Continue, Controlled, Equipped
  <2>5. \A g \in Resolved(c) : value[r.scheme][g] = own[r.scheme][g]
    BY <1>1, <2>2 DEF Resolved, Controlled, Knows
  <2>6. Knows(ctl[p])'
    BY <1>2, <1>4, <2>1, <2>2, <2>4, <2>5
       DEF Knows, Unwritten, Resolved, Applying, Restoring
  <2>. QED  BY <1>2, <1>5, <2>2, <2>3, <2>4, <2>6, Proceed
<1>. QED  BY <1>6, <1>7, <1>8, <1>9 DEF DecideField

\* Writing the original value back gives the user the policy back.
LEMMA SafeWithRestored ==
  ASSUME Safe, NEW r \in PowerJournal, NEW f \in Field,
         journal # None, ~ Committable(journal), SameOverride(journal, r),
         own[r.scheme][f] = r.original[f],
         value' = [value EXCEPT ![r.scheme][f] = r.original[f]],
         UNCHANGED <<active, effect, journal, own, changes>>
  PROVE  /\ Safe'
         /\ value'[r.scheme][f] = own[r.scheme][f]
         /\ \A g \in Field : g # f => value'[r.scheme][g] = value[r.scheme][g]
<1>1. r.scheme \in Scheme /\ r.original \in LidValues
  BY DEF PowerJournal
<1>2. value' \in [Scheme -> LidValues]
  BY <1>1 DEF Safe, LidValues
<1>3. /\ value'[r.scheme][f] = r.original[f]
      /\ \A s \in Scheme, g \in Field :
           s # r.scheme \/ g # f => value'[s][g] = value[s][g]
      /\ \A s \in Scheme : s # r.scheme => value'[s] = value[s]
  BY <1>1 DEF Safe, LidValues
<1>4. PolicySafe'
  BY <1>1, <1>3 DEF Safe, PolicySafe, Restorable
<1>5. ToldApart'
  BY <1>1, <1>3 DEF Safe, ToldApart, SameOverride
<1>6. InForce'
  BY <1>3 DEF Safe, InForce, SameOverride
<1>. QED  BY <1>1, <1>2, <1>3, <1>4, <1>5, <1>6 DEF Safe

LEMMA RestoreFieldInd ==
  ASSUME IInv, NEW p \in Process, RestoreField(p)
  PROVE  IInv'
<1> USE DEF IInv
<1> DEFINE r == ctl[p].journal
           f == ctl[p].field
           restored == [value EXCEPT ![r.scheme][f] = r.original[f]]
<1>1. ctl[p].at = "restore" /\ ctl[p].at \in Restoring
  BY DEF RestoreField, Restoring
<1>2. /\ Alone(p) /\ f \in Field /\ r \in PowerJournal
      /\ journal # None /\ ~ Committable(journal) /\ SameOverride(journal, r)
  BY <1>1, RestoringHolds
<1>3. own[r.scheme][f] = r.original[f]
  BY <1>1 DEF Controlled, Knows
<1>4. UNCHANGED <<active, effect, journal, own, changes>>
  BY DEF RestoreField
<1>5. ASSUME value' = restored
      PROVE  /\ Safe'
             /\ value'[r.scheme][f] = own[r.scheme][f]
             /\ \A g \in Field :
                  g # f => value'[r.scheme][g] = value[r.scheme][g]
  BY <1>2, <1>3, <1>4, <1>5, SafeWithRestored
<1>6. CASE value' \in {value, restored} /\ Return(p, "failed")
  <2>1. Safe'
    BY <1>4, <1>5, <1>6, SafeStutter DEF power
  <2>. QED  BY <1>2, <1>6, <2>1, Returns
<1>7. CASE value' = restored /\ Resolve(p, "restored")
  BY <1>1, <1>4, <1>5, <1>7, Resolves
<1>. QED  BY <1>6, <1>7 DEF RestoreField

LEMMA SaveResolutionInd ==
  ASSUME IInv, NEW p \in Process, SaveResolution(p)
  PROVE  IInv'
<1> USE DEF IInv
<1> DEFINE r == ctl[p].journal
<1>1. ctl[p].at = "resolve" /\ ctl[p].at \in Restoring
  BY DEF SaveResolution, Restoring
<1>2. /\ Alone(p) /\ ctl[p] \in Control /\ ctl[p].field \in Field
      /\ r \in PowerJournal /\ r # None /\ r.phase = "restoring"
      /\ ~ Committable(r) /\ journal # None /\ ~ Committable(journal)
      /\ SameOverride(journal, r)
  BY <1>1, RestoringHolds
<1>3. Safe'
  BY <1>2, SafeWithRestoring DEF SaveResolution, Save, SaveFails
<1>4. \A g \in Resolved(ctl[p]) : value[r.scheme][g] = own[r.scheme][g]
  BY DEF Controlled, Knows
<1>5. CASE Return(p, "failed")
  BY <1>2, <1>3, <1>5, Returns
<1>6. CASE /\ Save(r)
           /\ ctl[p].field = "ac"
           /\ Continue(p, [ctl[p] EXCEPT !.at = "decide", !.field = "dc"])
  <2> DEFINE c == [ctl[p] EXCEPT !.at = "decide", !.field = "dc"]
  <2>1. /\ c \in Control
        /\ c.at = "decide"
        /\ c.field = "dc"
        /\ c.journal = r
    BY <1>2 DEF Control
  <2>2. Continue(p, c)
    BY <1>6
  <2> HIDE DEF c
  <2>3. ctl'[p] = c /\ Equipped(c)
    BY <1>2, <2>1, <2>2 DEF Continue, Controlled, Equipped
  <2>4. journal' = r /\ UNCHANGED <<value, own>>
    BY <1>6 DEF Save, SaveResolution, power
  <2>5. value[r.scheme]["ac"] = own[r.scheme]["ac"]
    BY <1>1, <1>4, <1>6 DEF Resolved
  <2>6. Knows(ctl[p])'
    BY <1>2, <2>1, <2>3, <2>4, <2>5
       DEF Knows, Unwritten, Resolved, Applying, Restoring, SameOverride
  <2>. QED  BY <1>2, <1>3, <2>1, <2>2, <2>3, <2>6, Proceed
<1>7. CASE Save(r) /\ ctl[p].field # "ac" /\ GoTo(p, "finish")
  <2> DEFINE c == [ctl[p] EXCEPT !.at = "finish"]
  <2>1. /\ c \in Control
        /\ c.at = "finish"
        /\ c.journal = r
    BY <1>2 DEF Control
  <2>2. Continue(p, c)
    BY <1>7 DEF GoTo
  <2> HIDE DEF c
  <2>3. ctl'[p] = c /\ Equipped(c)
    BY <1>2, <2>1, <2>2 DEF Continue, Controlled, Equipped
  <2>4. journal' = r /\ UNCHANGED <<value, own>>
    BY <1>7 DEF Save, SaveResolution, power
  <2>5. \A g \in Field : value[r.scheme][g] = own[r.scheme][g]
    BY <1>1, <1>2, <1>4, <1>7 DEF Resolved
  <2>6. Knows(ctl[p])'
    BY <1>2, <2>1, <2>3, <2>4, <2>5
       DEF Knows, Unwritten, Resolved, Applying, Restoring, SameOverride
  <2>. QED  BY <1>2, <1>3, <2>1, <2>2, <2>3, <2>6, Proceed
<1>. QED  BY <1>5, <1>6, <1>7 DEF SaveResolution

LEMMA FinishRestoreInd ==
  ASSUME IInv, NEW p \in Process, FinishRestore(p)
  PROVE  IInv'
<1> USE DEF IInv
<1> DEFINE r == ctl[p].journal
<1>1. ctl[p].at = "finish" /\ ctl[p].at \in Restoring
  BY DEF FinishRestore, Restoring
<1>2. /\ Alone(p) /\ ctl[p] \in Control
      /\ r \in PowerJournal /\ r # None /\ r.phase = "restoring"
      /\ journal # None /\ ~ Committable(journal) /\ SameOverride(journal, r)
  BY <1>1, RestoringHolds
<1>3. UNCHANGED <<active, value, journal, own, changes>>
  BY DEF FinishRestore
<1>4. effect' \in {effect, Reactivated(r)}
  BY DEF FinishRestore
<1>5. effect' \in LidValues
  BY <1>4 DEF Safe, Reactivated
<1>6. active # r.scheme => effect' = effect
  BY <1>4 DEF Reactivated
<1>7. InForce'
  BY <1>2, <1>3, <1>6 DEF Safe, InForce, Committable, SameOverride
<1>8. PolicySafe' /\ ToldApart'
  BY <1>3 DEF Safe, PolicySafe, Restorable, ToldApart, Committable
<1>9. Safe'
  BY <1>3, <1>5, <1>7, <1>8 DEF Safe
<1>10. CASE Return(p, "failed") \/ Return(p, "unverified")
  BY <1>2, <1>9, <1>10, Returns
<1>11. CASE effect' = Reactivated(r) /\ GoTo(p, "delete")
  <2> DEFINE c == [ctl[p] EXCEPT !.at = "delete"]
  <2>1. /\ c \in Control
        /\ c.at = "delete"
        /\ c.journal = r
    BY <1>2 DEF Control
  <2>2. Continue(p, c)
    BY <1>11 DEF GoTo
  <2> HIDE DEF c
  <2>3. ctl'[p] = c /\ Equipped(c)
    BY <1>2, <2>1, <2>2 DEF Continue, Controlled, Equipped
  <2>4. \A g \in Field : value[r.scheme][g] = own[r.scheme][g]
    BY <1>1 DEF Resolved, Controlled, Knows
  <2>5. effect' = value[active]
    BY <1>2, <1>11 DEF Safe, InForce, Reactivated, SameOverride
  <2>6. Knows(ctl[p])'
    BY <1>2, <1>3, <2>1, <2>3, <2>4, <2>5
       DEF Knows, Unwritten, Resolved, Applying, Restoring, Committable
  <2>. QED  BY <1>2, <1>9, <2>1, <2>2, <2>3, <2>6, Proceed
<1>. QED  BY <1>10, <1>11 DEF FinishRestore

\* A journal may go when it holds nothing that is not in the settings.
LEMMA SafeWithout ==
  ASSUME Safe, journal # None,
         Committable(journal) \/ \A f \in Field :
           value[journal.scheme][f] = own[journal.scheme][f],
         effect = value[active],
         journal' = None, UNCHANGED <<power, own, changes>>
  PROVE  Safe'
<1>1. PolicySafe'
  BY DEF Safe, power, PolicySafe, Restorable
<1>2. ToldApart' /\ InForce'
  BY DEF Safe, power, ToldApart, InForce
<1>. QED  BY <1>1, <1>2 DEF Safe, power

LEMMA DeleteJournalInd ==
  ASSUME IInv, NEW p \in Process, DeleteJournal(p)
  PROVE  IInv'
<1> USE DEF IInv
<1> DEFINE r == ctl[p].journal
<1>1. ctl[p].at = "delete" /\ ctl[p].at \in Restoring
  BY DEF DeleteJournal, Restoring
<1>2. /\ Alone(p) /\ journal # None /\ SameOverride(journal, r)
  BY <1>1, RestoringHolds
<1>3. /\ \A g \in Field : value[r.scheme][g] = own[r.scheme][g]
      /\ effect = value[active]
  BY <1>1 DEF Resolved, Controlled, Knows
<1>4. UNCHANGED <<power, own, changes>>
  BY DEF DeleteJournal
<1>5. journal' = None \/ journal' = journal
  BY DEF DeleteJournal
<1>6. Safe'
  BY <1>2, <1>3, <1>4, <1>5, SafeWithout, SafeStutter DEF SameOverride
<1>7. Controlled'
  BY <1>2, Returns DEF DeleteJournal
<1>. QED  BY <1>6, <1>7

LEMMA CommitLegacyInd ==
  ASSUME IInv, ~ Racing, NEW p \in Process, CommitLegacy(p)
  PROVE  IInv'
<1> USE DEF IInv
<1>1. Alone(p)
  BY CallerAlone DEF CommitLegacy
<1>2. UNCHANGED <<power, own, changes>>
  BY DEF CommitLegacy
<1>3. \/ journal' = journal
      \/ journal' = None /\ journal # None /\ Committable(journal)
  BY DEF CommitLegacy
<1>4. Committable(journal) => effect = value[active]
  BY DEF Safe, InForce
<1>5. Safe'
  BY <1>2, <1>3, <1>4, SafeWithout, SafeStutter
<1>6. Controlled'
  BY <1>1, Returns DEF CommitLegacy
<1>. QED  BY <1>5, <1>6

-----------------------------------------------------------------------------
(***************************************************************************)
(* The environment                                                         *)
(***************************************************************************)
LEMMA CrashInd ==
  ASSUME IInv, NEW p \in Process, Crash(p)
  PROVE  IInv'
<1> USE DEF IInv
<1>1. Safe'
  BY SafeStutter DEF Crash
<1>2. Idle \in Control /\ Idle.at = "idle"
  BY DEF Idle, Control
<1>3. ctl' = [ctl EXCEPT ![p] = Idle]
  BY DEF Crash, Continue
<1>4. /\ ctl' \in [Process -> Control]
      /\ \A q \in Process : ctl'[q] = ctl[q] \/ ctl'[q].at = "idle"
  BY <1>2, <1>3 DEF Controlled
<1>5. OneBusy'
  BY <1>4 DEF Controlled, OneBusy
<1>6. UNCHANGED <<active, value, effect, journal, own>>
  BY DEF Crash, power
<1>7. ASSUME NEW q \in Process
      PROVE  (Equipped(ctl[q]) /\ Knows(ctl[q]))'
  <2>1. CASE ctl'[q] = ctl[q]
    BY <1>6, <2>1
       DEF Controlled, Equipped, Knows, Unwritten, Resolved, Applying,
           Restoring, Committable
  <2>2. CASE ctl'[q].at = "idle"
    BY <2>2 DEF Equipped, Knows, Unwritten, Resolved, Applying, Restoring
  <2>. QED  BY <1>4, <2>1, <2>2
<1>8. Controlled'
  BY <1>4, <1>5, <1>7 DEF Controlled
<1>. QED  BY <1>1, <1>8

LEMMA ChangeValueInd ==
  ASSUME PowerJournalAssumption, IInv,
         NEW s \in Scheme, NEW f \in Field, NEW v \in Value, ChangeValue(s, f, v)
  PROVE  IInv'
<1> USE DEF IInv
<1>1. /\ value' = [value EXCEPT ![s][f] = v]
      /\ own' = [own EXCEPT ![s][f] = v]
      /\ effect' = IF s = active THEN value'[s] ELSE effect
      /\ changes' = changes + 1
      /\ UNCHANGED <<active, journal>>
      /\ ~ Exposed(s, f)
      /\ ~ Indistinguishable(s, f, v)
  BY DEF ChangeValue
<1>2. /\ value' \in [Scheme -> LidValues]
      /\ own' \in [Scheme -> LidValues]
  BY <1>1 DEF Safe, LidValues
<1>3. /\ value'[s][f] = v /\ own'[s][f] = v
      /\ \A t \in Scheme, g \in Field :
           t # s \/ g # f => value'[t][g] = value[t][g] /\ own'[t][g] = own[t][g]
      /\ \A t \in Scheme : t # s => value'[t] = value[t]
  BY <1>1 DEF Safe, LidValues
<1>4. effect' \in LidValues /\ (effect = value[active] => effect' = value'[active])
  BY <1>1, <1>2, <1>3 DEF Safe
<1>5. PolicySafe'
  BY <1>1, <1>3 DEF Safe, PolicySafe, Restorable, Committable
<1>6. ToldApart'
  <2>1. SUFFICES ASSUME journal # None, ~ Committable(journal), NEW g \in Field,
                        value'[journal.scheme][g] = journal.applied[g],
                        journal.applied[g] # journal.original[g]
                 PROVE  own'[journal.scheme][g] = journal.original[g]
    BY <1>1 DEF ToldApart, Committable
  <2>2. journal.scheme \in Scheme
    BY <2>1 DEF Safe, PowerJournal
  <2>3. journal.scheme # s \/ g # f
    BY <1>1, <1>3, <2>1 DEF Indistinguishable
  <2>. QED  BY <1>3, <2>1, <2>2, <2>3 DEF Safe, ToldApart
<1>7. InForce'
  BY <1>1, <1>4 DEF Safe, InForce, Committable
<1>8. Safe'
  BY <1>1, <1>2, <1>4, <1>5, <1>6, <1>7 DEF Safe
<1>9. ctl' = [p \in Process |->
                [ctl[p] EXCEPT !.disturbed = @ \/ ctl[p].at # "idle"]]
  BY DEF ChangeValue
<1>10. /\ ctl' \in [Process -> Control]
       /\ \A p \in Process : /\ ctl'[p].at = ctl[p].at
                             /\ ctl'[p].field = ctl[p].field
                             /\ ctl'[p].journal = ctl[p].journal
  BY <1>9 DEF Controlled, Control
<1>11. ASSUME NEW p \in Process
       PROVE  (Equipped(ctl[p]) /\ Knows(ctl[p]))'
  <2> DEFINE c == ctl[p]
             r == c.journal
  <2>1. c \in Control /\ Equipped(c) /\ Knows(c)
    BY DEF Controlled
  <2>2. Equipped(ctl'[p])
    BY <1>10, <2>1 DEF Equipped
  <2>3. c.at \in {"prepare"} \cup Applying \cup Restoring
          => r \in PowerJournal /\ r.scheme \in Scheme /\ r # None
    BY <2>1 DEF Control, Equipped, Applying, Restoring, PowerJournal
  <2>4. ASSUME NEW g \in Unwritten(c)
        PROVE  /\ own'[r.scheme][g] = r.original[g]
               /\ value'[r.scheme][g] = r.original[g]
    <3>1. g \in Field /\ r.scheme \in Scheme /\ r # None
      BY <2>3, <2>4 DEF Unwritten, Applying
    <3>2. r.scheme # s \/ g # f
      BY <1>1, <2>1, <2>4, <3>1 DEF Unwritten, Exposed, Control
    <3>. QED  BY <1>3, <2>1, <3>1, <3>2 DEF Knows
  <2>5. c.at = "restore" => own'[r.scheme][c.field] = r.original[c.field]
    <3>1. SUFFICES ASSUME c.at = "restore"
                   PROVE  own'[r.scheme][c.field] = r.original[c.field]
      OBVIOUS
    <3>2. c.field \in Field /\ r.scheme \in Scheme /\ r # None
      BY <2>1, <2>3, <3>1 DEF Restoring, Control
    <3>3. r.scheme # s \/ c.field # f
      BY <1>1, <3>1, <3>2 DEF Exposed
    <3>. QED  BY <1>3, <2>1, <3>1, <3>2, <3>3 DEF Knows
  <2>6. ASSUME NEW g \in Resolved(c)
        PROVE  value'[r.scheme][g] = own'[r.scheme][g]
    <3>1. g \in Field /\ r.scheme \in Scheme
      BY <2>3, <2>6 DEF Resolved, Restoring
    <3>2. value[r.scheme][g] = own[r.scheme][g]
      BY <2>1, <2>6 DEF Knows
    <3>. QED  BY <1>3, <3>1, <3>2
  <2>7. Unwritten(ctl'[p]) = Unwritten(c) /\ Resolved(ctl'[p]) = Resolved(c)
    BY <1>10 DEF Unwritten, Resolved
  <2>8. Knows(ctl[p])'
    BY <1>1, <1>4, <1>10, <2>1, <2>4, <2>5, <2>6, <2>7
       DEF Knows, Committable
  <2>. QED  BY <2>2, <2>8
<1>12. OneBusy'
  BY <1>10 DEF Controlled, OneBusy
<1>. QED  BY <1>8, <1>10, <1>11, <1>12 DEF Controlled

LEMMA SwitchSchemeInd ==
  ASSUME IInv, NEW s \in Scheme, SwitchScheme(s)
  PROVE  IInv'
<1> USE DEF IInv
<1>1. /\ active' = s
      /\ effect' = value[s]
      /\ UNCHANGED <<value, journal, ctl, own, changes>>
  BY DEF SwitchScheme
<1>2. Safe'
  BY <1>1 DEF Safe, PolicySafe, Restorable, ToldApart, InForce, Committable
<1>3. ASSUME NEW p \in Process
      PROVE  (Equipped(ctl[p]) /\ Knows(ctl[p]))'
  BY <1>1 DEF Controlled, Equipped, Knows, Unwritten, Resolved, Committable
<1>4. Controlled'
  BY <1>1, <1>3 DEF Controlled, OneBusy
<1>. QED  BY <1>2, <1>4

LEMMA StutterInd == ASSUME IInv, UNCHANGED vars PROVE IInv'
<1> USE DEF IInv
<1>1. UNCHANGED <<active, value, effect, journal, ctl, own, changes>>
  BY DEF vars
<1>2. Safe'
  BY <1>1, SafeStutter DEF power
<1>3. ASSUME NEW p \in Process
      PROVE  (Equipped(ctl[p]) /\ Knows(ctl[p]))'
  BY <1>1 DEF Controlled, Equipped, Knows, Unwritten, Resolved, Committable
<1>4. Controlled'
  BY <1>1, <1>3 DEF Controlled, OneBusy
<1>. QED  BY <1>2, <1>4

LEMMA NextInd ==
  ASSUME PowerJournalAssumption, ~ Racing, IInv, [Next]_vars
  PROVE  IInv'
<1>1. CASE \E p \in Process : Call(p)
  <2>1. PICK p \in Process : Call(p)
    BY <1>1
  <2>2. CASE \E operation \in {"persistent_override", "legacy_restore"} :
               \E desired \in Desired(operation) : Apply(p, operation, desired)
    BY <2>2, ApplyInd
  <2>3. CASE Recover(p)
    BY <2>3, CallerAlone, LoadForRecoveryInd DEF Recover
  <2>4. CASE CommitLegacy(p)
    BY <2>4, CommitLegacyInd
  <2>. QED  BY <2>1, <2>2, <2>3, <2>4 DEF Call
<1>2. CASE \E p \in Process : ControllerStep(p)
  <2>1. PICK p \in Process : ControllerStep(p)
    BY <1>2
  <2>2. CASE SavePrepared(p)
    BY <2>2, SavePreparedInd
  <2>3. CASE WriteField(p)
    BY <2>3, WriteFieldInd
  <2>4. CASE Activate(p)
    BY <2>4, ActivateInd
  <2>5. CASE MarkApplied(p)
    BY <2>5, MarkAppliedInd
  <2>6. CASE RecoverFailedApply(p)
    BY <2>6, BusyAlone, LoadForRecoveryInd DEF RecoverFailedApply, IInv
  <2>7. CASE SaveRestoring(p)
    BY <2>7, SaveRestoringInd
  <2>8. CASE DecideField(p)
    BY <2>8, DecideFieldInd
  <2>9. CASE RestoreField(p)
    BY <2>9, RestoreFieldInd
  <2>10. CASE SaveResolution(p)
    BY <2>10, SaveResolutionInd
  <2>11. CASE FinishRestore(p)
    BY <2>11, FinishRestoreInd
  <2>12. CASE DeleteJournal(p)
    BY <2>12, DeleteJournalInd
  <2>. QED
    BY <2>1, <2>2, <2>3, <2>4, <2>5, <2>6, <2>7, <2>8, <2>9, <2>10, <2>11,
       <2>12 DEF ControllerStep
<1>3. CASE \E p \in Process : Crash(p)
  BY <1>3, CrashInd
<1>4. CASE User
  BY <1>4, ChangeValueInd, SwitchSchemeInd DEF User
<1>5. CASE UNCHANGED vars
  BY <1>5, StutterInd
<1>. QED  BY <1>1, <1>2, <1>3, <1>4, <1>5 DEF Next

-----------------------------------------------------------------------------
(***************************************************************************)
(* A retry gets through                                                    *)
(***************************************************************************)

(* The fields this pass has restored hold their original values, unless    *)
(* the user has disturbed the pass; an earlier pass may have written       *)
(* anything into the journal.                                              *)
Settled(c) ==
  \A f \in Resolved(c) :
    c.journal.restoration[f] = "restored"
      => value[c.journal.scheme][f] = c.journal.original[f]

Converging(c) ==
  /\ c.result = "unverified" => c.disturbed
  /\ ~ c.disturbed => Settled(c)

AllConverging == \A p \in Process : Converging(ctl[p])

\* While one controller is busy the idle ones keep what their last call returned.
LEMMA OthersConverge ==
  ASSUME Controlled, AllConverging, NEW p \in Process, Alone(p),
         NEW c, Continue(p, c), Converging(ctl[p])'
  PROVE  AllConverging'
<1>1. ASSUME NEW q \in Process, q # p PROVE Converging(ctl[q])'
  <2>1. ctl'[q] = ctl[q] /\ ctl[q].at = "idle" /\ Converging(ctl[q])
    BY <1>1 DEF Controlled, Continue, Alone, AllConverging
  <2>. QED  BY <2>1 DEF Converging, Settled, Resolved
<1>. QED  BY <1>1 DEF AllConverging

LEMMA ReturnConverges ==
  ASSUME Controlled, AllConverging, NEW p \in Process, Alone(p),
         NEW result \in {"ok", "needs_commit", "failed", "unverified"},
         Return(p, result), result = "unverified" => ctl[p].disturbed
  PROVE  AllConverging'
<1> DEFINE c == [Idle EXCEPT
      !.result = IF ctl[p].undo /\ result \in {"ok", "needs_commit"}
                   THEN "failed" ELSE result,
      !.disturbed = ctl[p].disturbed /\ result = "unverified"]
<1>1. /\ c.at = "idle"
      /\ c.result = "unverified" => c.disturbed
  BY DEF Idle
<1>2. Continue(p, c)
  BY DEF Return
<1> HIDE DEF c
<1>3. ctl'[p] = c
  BY <1>2 DEF Controlled, Continue
<1>4. Converging(ctl[p])'
  BY <1>1, <1>3 DEF Converging, Settled, Resolved
<1>. QED  BY <1>2, <1>4, OthersConverge

\* A step that resolves no field leaves nothing more to be settled.
LEMMA GoesOn ==
  ASSUME Controlled, AllConverging, NEW p \in Process, Alone(p),
         NEW c, Continue(p, c), c.at \in Applying \cup {"undo"},
         c.result = ctl[p].result, c.disturbed = ctl[p].disturbed
  PROVE  AllConverging'
<1>1. ctl'[p] = c
  BY DEF Controlled, Continue
<1>2. Converging(ctl[p])'
  BY <1>1 DEF AllConverging, Converging, Settled, Resolved, Applying
<1>. QED  BY <1>2, OthersConverge

LEMMA ApplyingConverges ==
  ASSUME Controlled, AllConverging, NEW p \in Process,
         \/ SavePrepared(p) \/ WriteField(p) \/ Activate(p) \/ MarkApplied(p)
  PROVE  AllConverging'
<1>1. Alone(p)
  BY BusyAlone DEF SavePrepared, WriteField, Activate, MarkApplied
<1>2. CASE Return(p, "failed")
  BY <1>1, <1>2, ReturnConverges
<1>3. CASE Return(p, "ok")
  BY <1>1, <1>3, ReturnConverges
<1>4. CASE Undo(p)
  <2> DEFINE c == [ctl[p] EXCEPT !.at = "undo", !.undo = TRUE]
  <2>1. Continue(p, c)
    BY <1>4 DEF Undo
  <2>2. /\ c.at = "undo"
        /\ c.result = ctl[p].result
        /\ c.disturbed = ctl[p].disturbed
    BY DEF Controlled, Control
  <2> HIDE DEF c
  <2>. QED  BY <1>1, <2>1, <2>2, GoesOn
<1>5. ASSUME NEW at \in Applying, GoTo(p, at) PROVE AllConverging'
  <2> DEFINE c == [ctl[p] EXCEPT !.at = at]
  <2>1. Continue(p, c)
    BY <1>5 DEF GoTo
  <2>2. /\ c.at = at
        /\ c.result = ctl[p].result
        /\ c.disturbed = ctl[p].disturbed
    BY DEF Controlled, Control
  <2> HIDE DEF c
  <2>. QED  BY <1>1, <1>5, <2>1, <2>2, GoesOn
<1>6. CASE ctl[p].at = "write" /\ Continue(p, [ctl[p] EXCEPT !.field = "dc"])
  <2> DEFINE c == [ctl[p] EXCEPT !.field = "dc"]
  <2>1. Continue(p, c)
    BY <1>6
  <2>2. /\ c.at \in Applying
        /\ c.result = ctl[p].result
        /\ c.disturbed = ctl[p].disturbed
    BY <1>6 DEF Controlled, Control, Applying
  <2> HIDE DEF c
  <2>. QED  BY <1>1, <2>1, <2>2, GoesOn
<1>. QED
  BY <1>2, <1>3, <1>4, <1>5, <1>6
     DEF SavePrepared, WriteField, Activate, MarkApplied, Applying

LEMMA LoadForRecoveryConverges ==
  ASSUME Controlled, AllConverging, NEW p \in Process, Alone(p),
         LoadForRecovery(p)
  PROVE  AllConverging'
<1>1. CASE Return(p, "failed") \/ Return(p, "ok") \/ Return(p, "needs_commit")
  BY <1>1, ReturnConverges
<1>2. CASE Continue(p, [ctl[p] EXCEPT !.at = "restoring", !.field = "ac",
                          !.journal = RestoringJournal(journal),
                          !.disturbed = FALSE, !.result = "none"])
  <2> DEFINE c == [ctl[p] EXCEPT !.at = "restoring", !.field = "ac",
                     !.journal = RestoringJournal(journal),
                     !.disturbed = FALSE, !.result = "none"]
  <2>1. c.at = "restoring" /\ c.result = "none"
    BY DEF Controlled, Control
  <2>2. Continue(p, c)
    BY <1>2
  <2> HIDE DEF c
  <2>3. ctl'[p] = c
    BY <2>2 DEF Controlled, Continue
  <2>4. Converging(ctl[p])'
    BY <2>1, <2>3 DEF Converging, Settled, Resolved
  <2>. QED  BY <2>2, <2>4, OthersConverge
<1>. QED  BY <1>1, <1>2 DEF LoadForRecovery

(* A resolution settles its field if it is right about it, and keeps what  *)
(* the pass has settled before.                                            *)
LEMMA ResolveConverges ==
  ASSUME Controlled, AllConverging, NEW p \in Process,
         ctl[p].at \in {"decide", "restore"},
         NEW resolution \in {"restored", "relinquished"},
         Resolve(p, resolution),
         LET r == ctl[p].journal
         IN  /\ resolution = "restored" =>
                  value'[r.scheme][ctl[p].field] = r.original[ctl[p].field]
             /\ \A g \in Field :
                  g # ctl[p].field => value'[r.scheme][g] = value[r.scheme][g]
  PROVE  AllConverging'
<1> DEFINE r == ctl[p].journal
           f == ctl[p].field
           k == [r EXCEPT !.restoration[f] = resolution]
           c == [ctl[p] EXCEPT !.at = "resolve", !.journal = k]
<1>1. Alone(p) /\ ctl[p] \in Control /\ f \in Field /\ r \in PowerJournal
  BY RestoringHolds DEF Restoring
<1>2. /\ k.scheme = r.scheme
      /\ k.original = r.original
      /\ k.restoration[f] = resolution
      /\ \A g \in Field : g # f => k.restoration[g] = r.restoration[g]
  BY <1>1 DEF PowerJournal
<1>3. Continue(p, [ctl[p] EXCEPT !.at = "resolve",
                     !.journal.restoration[f] = resolution])
  BY DEF Resolve
<1>4. Continue(p, c)
  BY <1>1, <1>3 DEF Control, PowerJournal
<1> HIDE DEF k
<1>5. /\ c.at = "resolve" /\ c.field = f /\ c.journal = k
      /\ c.result = ctl[p].result /\ c.disturbed = ctl[p].disturbed
  BY <1>1 DEF Control
<1> HIDE DEF c
<1>6. ctl'[p] = c
  BY <1>4 DEF Controlled, Continue
<1>7. Converging(ctl[p])
  BY DEF AllConverging
<1>8. ASSUME ~ c.disturbed, NEW g \in Resolved(c), k.restoration[g] = "restored"
      PROVE  value'[k.scheme][g] = k.original[g]
  <2>1. CASE g = f
    BY <1>2, <1>8, <2>1
  <2>2. CASE g # f
    <3>1. g \in Field /\ g \in Resolved(ctl[p])
      BY <1>1, <1>5, <1>8, <2>2 DEF Resolved
    <3>. QED  BY <1>2, <1>5, <1>7, <1>8, <2>2, <3>1 DEF Converging, Settled
  <2>. QED  BY <2>1, <2>2
<1>9. Converging(ctl[p])'
  BY <1>5, <1>6, <1>7, <1>8 DEF Converging, Settled, Resolved
<1>. QED  BY <1>1, <1>4, <1>9, OthersConverge

\* A step that neither resolves a field nor forgets one.
LEMMA KeepsSettled ==
  ASSUME Controlled, AllConverging, NEW p \in Process, Alone(p),
         NEW c \in Control, Continue(p, c),
         c.journal = ctl[p].journal, c.result = ctl[p].result,
         c.disturbed = ctl[p].disturbed, Resolved(c) \subseteq Resolved(ctl[p]),
         UNCHANGED value
  PROVE  AllConverging'
<1>1. ctl'[p] = c
  BY DEF Controlled, Continue
<1>2. Converging(ctl[p])
  BY DEF AllConverging
<1>3. Resolved(c)' = Resolved(c)
  BY DEF Resolved
<1>4. Converging(ctl[p])'
  BY <1>1, <1>2, <1>3 DEF Converging, Settled, Resolved
<1>. QED  BY <1>4, OthersConverge

LEMMA RestoringConverges ==
  ASSUME IInv, AllConverging, NEW p \in Process,
         \/ SaveRestoring(p) \/ DecideField(p) \/ RestoreField(p)
         \/ SaveResolution(p) \/ FinishRestore(p) \/ DeleteJournal(p)
  PROVE  AllConverging'
<1> USE DEF IInv
<1> DEFINE r == ctl[p].journal
           f == ctl[p].field
<1>1. ctl[p].at \in Restoring
  BY DEF SaveRestoring, DecideField, RestoreField, SaveResolution,
         FinishRestore, DeleteJournal, Restoring
<1>2. /\ Alone(p) /\ ctl[p] \in Control /\ f \in Field /\ r \in PowerJournal
      /\ r.scheme \in Scheme
  BY <1>1, RestoringHolds DEF PowerJournal
<1>3. CASE Return(p, "failed") \/ Return(p, "ok")
  BY <1>2, <1>3, ReturnConverges
<1>4. CASE SaveRestoring(p) /\ GoTo(p, "decide")
  <2>1. f = "ac"
    BY <1>4 DEF Controlled, Knows, SaveRestoring
  <2>2. Resolved([ctl[p] EXCEPT !.at = "decide"]) = {}
    BY <1>2, <2>1 DEF Resolved, Control
  <2>3. [ctl[p] EXCEPT !.at = "decide"] \in Control
    BY <1>2 DEF Control
  <2>. QED
    BY <1>2, <1>4, <2>2, <2>3, KeepsSettled
       DEF GoTo, SaveRestoring, power, Control
<1>5. CASE DecideField(p) /\ ~ Return(p, "failed")
  <2>1. UNCHANGED value /\ ctl[p].at = "decide"
    BY <1>5 DEF DecideField, power
  <2>2. CASE value[r.scheme][f] = r.original[f] /\ Resolve(p, "restored")
    BY <2>1, <2>2, ResolveConverges
  <2>3. CASE Resolve(p, "relinquished")
    BY <2>1, <2>3, ResolveConverges
  <2>4. CASE GoTo(p, "restore")
    <3>1. Resolved([ctl[p] EXCEPT !.at = "restore"]) = Resolved(ctl[p])
      BY <1>2, <2>1 DEF Resolved, Control
    <3>2. [ctl[p] EXCEPT !.at = "restore"] \in Control
      BY <1>2 DEF Control
    <3>. QED  BY <1>2, <2>1, <2>4, <3>1, <3>2, KeepsSettled DEF GoTo, Control
  <2>. QED  BY <1>5, <2>2, <2>3, <2>4 DEF DecideField
<1>6. CASE RestoreField(p) /\ ~ Return(p, "failed")
  <2>1. /\ value' = [value EXCEPT ![r.scheme][f] = r.original[f]]
        /\ Resolve(p, "restored")
        /\ ctl[p].at = "restore"
    BY <1>6 DEF RestoreField
  <2>2. /\ value'[r.scheme][f] = r.original[f]
        /\ \A g \in Field : g # f => value'[r.scheme][g] = value[r.scheme][g]
    BY <1>2, <2>1 DEF Safe, LidValues
  <2>. QED  BY <2>1, <2>2, ResolveConverges
<1>7. CASE SaveResolution(p) /\ ~ Return(p, "failed")
  <2>1. UNCHANGED value /\ ctl[p].at = "resolve"
    BY <1>7 DEF SaveResolution, power
  <2>2. CASE f = "ac" /\ Continue(p, [ctl[p] EXCEPT !.at = "decide", !.field = "dc"])
    <3>1. Resolved([ctl[p] EXCEPT !.at = "decide", !.field = "dc"])
            = Resolved(ctl[p])
      BY <1>2, <2>1, <2>2 DEF Resolved, Control
    <3>2. [ctl[p] EXCEPT !.at = "decide", !.field = "dc"] \in Control
      BY <1>2 DEF Control
    <3>. QED  BY <1>2, <2>1, <2>2, <3>1, <3>2, KeepsSettled DEF Control
  <2>3. CASE f # "ac" /\ GoTo(p, "finish")
    <3>1. Resolved([ctl[p] EXCEPT !.at = "finish"]) = Resolved(ctl[p])
      BY <1>2, <2>1, <2>3 DEF Resolved, Control
    <3>2. [ctl[p] EXCEPT !.at = "finish"] \in Control
      BY <1>2 DEF Control
    <3>. QED  BY <1>2, <2>1, <2>3, <3>1, <3>2, KeepsSettled DEF GoTo, Control
  <2>. QED  BY <1>7, <2>2, <2>3 DEF SaveResolution
<1>8. CASE FinishRestore(p) /\ ~ Return(p, "failed")
  <2>1. UNCHANGED value /\ ctl[p].at = "finish"
    BY <1>8 DEF FinishRestore
  <2>2. CASE Verified(r) /\ GoTo(p, "delete")
    <3>1. Resolved([ctl[p] EXCEPT !.at = "delete"]) = Resolved(ctl[p])
      BY <1>2, <2>1 DEF Resolved, Control
    <3>2. [ctl[p] EXCEPT !.at = "delete"] \in Control
      BY <1>2 DEF Control
    <3>. QED  BY <1>2, <2>1, <2>2, <3>1, <3>2, KeepsSettled DEF GoTo, Control
  <2>3. CASE ~ Verified(r) /\ Return(p, "unverified")
    <3>1. Resolved(ctl[p]) = Field
      BY <2>1 DEF Resolved
    <3>2. ctl[p].disturbed
      BY <2>3, <3>1 DEF AllConverging, Converging, Settled, Verified
    <3>. QED  BY <1>2, <2>3, <3>2, ReturnConverges
  <2>. QED  BY <1>8, <2>2, <2>3 DEF FinishRestore
<1>9. CASE DeleteJournal(p)
  BY <1>3, <1>9 DEF DeleteJournal
<1>. QED
  BY <1>3, <1>4, <1>5, <1>6, <1>7, <1>8, <1>9 DEF SaveRestoring

LEMMA UserConverges ==
  ASSUME IInv, AllConverging, User
  PROVE  AllConverging'
<1> USE DEF IInv
<1>1. ASSUME NEW s \in Scheme, NEW f \in Field, NEW v \in Value,
             ChangeValue(s, f, v), NEW p \in Process
      PROVE  Converging(ctl[p])'
  <2>1. ctl[p] \in Control /\ Converging(ctl[p])
    BY DEF Controlled, AllConverging
  <2>2. /\ ctl'[p].at = ctl[p].at
        /\ ctl'[p].result = ctl[p].result
        /\ ctl'[p].disturbed = (ctl[p].disturbed \/ ctl[p].at # "idle")
    BY <1>1, <2>1 DEF ChangeValue, Control
  <2>. QED  BY <2>1, <2>2 DEF Converging, Settled, Resolved
<1>2. ASSUME NEW s \in Scheme, SwitchScheme(s) PROVE AllConverging'
  BY <1>2 DEF SwitchScheme, AllConverging, Converging, Settled, Resolved
<1>. QED  BY <1>1, <1>2 DEF User, AllConverging

LEMMA NextConverges ==
  ASSUME ~ Racing, IInv, AllConverging, [Next]_vars
  PROVE  AllConverging'
<1> USE DEF IInv
<1>1. ASSUME NEW p \in Process, Call(p) PROVE AllConverging'
  <2>1. Alone(p)
    BY <1>1, CallerAlone DEF Call, Apply, Recover, CommitLegacy
  <2>2. CASE Return(p, "failed") \/ Return(p, "ok")
    BY <2>1, <2>2, ReturnConverges
  <2>3. ASSUME NEW operation, NEW desired,
               Continue(p, [Idle EXCEPT !.at = "prepare",
                              !.journal = PreparedJournal(operation, desired)])
        PROVE  AllConverging'
    <3> DEFINE c == [Idle EXCEPT !.at = "prepare",
                       !.journal = PreparedJournal(operation, desired)]
    <3>1. c.at = "prepare" /\ c.result = "none"
      BY DEF Idle
    <3>2. Continue(p, c)
      BY <2>3
    <3> HIDE DEF c
    <3>3. ctl'[p] = c
      BY <3>2 DEF Controlled, Continue
    <3>4. Converging(ctl[p])'
      BY <3>1, <3>3 DEF Converging, Settled, Resolved
    <3>. QED  BY <2>1, <3>2, <3>4, OthersConverge
  <2>4. CASE Recover(p)
    BY <2>1, <2>4, LoadForRecoveryConverges DEF Recover
  <2>. QED  BY <1>1, <2>2, <2>3, <2>4 DEF Call, Apply, CommitLegacy
<1>2. ASSUME NEW p \in Process, ControllerStep(p) PROVE AllConverging'
  <2>1. CASE RecoverFailedApply(p)
    BY <2>1, BusyAlone, LoadForRecoveryConverges DEF RecoverFailedApply
  <2>. QED
    BY <1>2, <2>1, ApplyingConverges, RestoringConverges DEF ControllerStep
<1>3. ASSUME NEW p \in Process, Crash(p), NEW q \in Process
      PROVE  Converging(ctl[q])'
  <2>1. ctl' = [ctl EXCEPT ![p] = Idle] /\ UNCHANGED value
    BY <1>3 DEF Crash, Continue, power
  <2>2. ctl'[q] = ctl[q] \/ ctl'[q] = Idle
    BY <2>1 DEF Controlled
  <2>3. CASE ctl'[q] = Idle
    BY <2>3 DEF Idle, Converging, Settled, Resolved
  <2>4. CASE ctl'[q] = ctl[q]
    BY <2>1, <2>4 DEF AllConverging, Converging, Settled, Resolved
  <2>. QED  BY <2>2, <2>3, <2>4
<1>4. CASE UNCHANGED vars
  BY <1>4 DEF vars, AllConverging, Converging, Settled, Resolved
<1>. QED  BY <1>1, <1>2, <1>3, <1>4, UserConverges DEF Next, AllConverging

-----------------------------------------------------------------------------
(***************************************************************************)
(* The theorems                                                            *)
(***************************************************************************)

(* While processes take turns with the controller, the invariant holds: a  *)
(* controller knows what its next step relies on, whatever failed, crashed *)
(* or was changed by the user before.                                      *)
THEOREM Inductive == ASSUME ~ Racing PROVE Spec => []IInv
<1>1. Init => IInv
  BY InitInd
<1>2. IInv /\ [Next]_vars => IInv'
  BY NextInd, PowerJournalAssumption
<1>. QED  BY <1>1, <1>2, PTL DEF Spec

(* Each value of each scheme is the user's, or the journal holds the       *)
(* user's: no order of crashes, failures and retries of vibecode.rs loses  *)
(* the lid policy.                                                         *)
THEOREM PolicyNeverLost == ASSUME ~ Racing PROVE Spec => []PolicySafe
<1>1. IInv => PolicySafe
  BY DEF IInv, Safe
<1>. QED  BY <1>1, Inductive, PTL

(* When vibecode.rs has deleted its journal, what is in force is what the  *)
(* settings say.                                                           *)
THEOREM NothingLeftInForce == ASSUME ~ Racing PROVE Spec => []PolicyInForce
<1>1. IInv => PolicyInForce
  BY DEF IInv, Safe, InForce, PolicyInForce
<1>. QED  BY <1>1, Inductive, PTL

(* A restoration that nobody disturbs passes its own verification:         *)
(* whatever an interrupted attempt left in the journal of vibecode.rs, the *)
(* retry gets through.                                                     *)
THEOREM RetriesConverge == ASSUME ~ Racing PROVE Spec => []RetryConverges
<1>1. Init => AllConverging
  <2>1. ASSUME Init, NEW p \in Process PROVE ctl[p] = Idle
    BY <2>1 DEF Init
  <2>2. Idle.at = "idle" /\ Idle.result = "none"
    BY DEF Idle
  <2>. QED  BY <2>1, <2>2 DEF AllConverging, Converging, Settled, Resolved
<1>2. IInv /\ AllConverging /\ [Next]_vars => AllConverging'
  BY NextConverges
<1>3. AllConverging => RetryConverges
  BY DEF AllConverging, Converging, RetryConverges
<1>. QED  BY <1>1, <1>2, <1>3, Inductive, PTL DEF Spec

(* Types, and what a controller of vibecode.rs holds at each of its steps. *)
THEOREM Typed == ASSUME ~ Racing PROVE Spec => []TypeOK
<1>1. IInv => TypeOK
  BY DEF IInv, Safe, Controlled, TypeOK
<1>. QED  BY <1>1, Inductive, PTL

(* vibecode.rs never changes the active power scheme, whoever races whom.  *)
THEOREM SchemeStaysUsers == Spec => SchemeIsUsers
<1>1. ASSUME Next, active' # active PROVE UNCHANGED <<journal, ctl>>
  <2>1. ASSUME NEW p \in Process PROVE ~ (Call(p) \/ ControllerStep(p) \/ Crash(p))
    <3>1. ASSUME Call(p) PROVE FALSE
      BY <1>1, <3>1 DEF Call, Apply, Recover, LoadForRecovery, CommitLegacy, power
    <3>2. ASSUME ControllerStep(p) PROVE FALSE
      BY <1>1, <3>2 DEF ControllerStep, SavePrepared, WriteField, Activate,
           MayActivate, MarkApplied, RecoverFailedApply, LoadForRecovery,
           SaveRestoring, DecideField, RestoreField, SaveResolution,
           FinishRestore, DeleteJournal, power
    <3>. QED  BY <1>1, <3>1, <3>2 DEF Crash, power
  <2>. QED  BY <1>1, <2>1 DEF Next, User, ChangeValue, SwitchScheme
<1>2. [Next]_vars => [active' # active => UNCHANGED <<journal, ctl>>]_vars
  BY <1>1
<1>. QED  BY <1>2, PTL DEF Spec, SchemeIsUsers
=============================================================================
