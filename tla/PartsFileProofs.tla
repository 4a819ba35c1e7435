--------------------------- MODULE PartsFileProofs ---------------------------
(*****************************************************************************)
(* Proofs about the parts that keep files: the store that writes JSON        *)
(* documents, the settings kept in it, the diagnostic log with its rotation, *)
(* and the alert receipts. Parts lets each of them take its steps while all  *)
(* the others stand still, so what is proved of one holds whatever the       *)
(* others do meanwhile.                                                      *)
(*****************************************************************************)
EXTENDS Parts, SequenceTheorems, WellFoundedInduction, TLAPS

\* What a load would find, and what it would find without the document.
Current == IF target \in StoredDocument THEN target ELSE Store!Valid(backup)
Previous == Store!Valid(backup)

\* What an operation at counter c with document d is doing.
StageAt(c, d) == CASE c = "idle" -> "idle"
                   [] c # "idle" /\ d = Missing -> "reading"
                   [] d # Missing /\ c \in {"temporary", "existing", "replace", "install", "move"} -> "writing"
                   [] d # Missing /\ c \in {"validate", "remove", "restore", "put"} -> "written"
                   [] d # Missing /\ c = "revalidate" -> "undone"

\* What every process is doing.
Stages == [p \in Opener |-> Store!Stage(p)]

\* What every file that parses is, and what an operation that stands at a
\* counter knows of the files: a save of its own copy and of a document that
\* is not damaged, a load that nobody overlaps of what it has looked at.
Counted(p) ==
    /\ at[p] \in {"temporary", "existing", "replace", "install", "move", "validate", "remove"} =>
           Store!Saving(p)
    /\ Store!Saving(p) => p \in Saver
    /\ at[p] \in {"read", "preserve", "backup"} => ~Store!Saving(p)
    /\ at[p] \in {"existing", "replace", "install", "move"} => copy[p] = doc[p]
    /\ at[p] \in {"put", "revalidate"} => copy[p] \in committed

\* Counters past the look at the document.
Looked == {"replace", "install", "move", "validate", "remove", "backup", "restore", "put", "revalidate"}

\* A save that has looked finds no damaged document, and puts the backup back.
Undamaged(p) ==
    /\ at[p] \in Looked => target # Corrupt
    /\ at[p] = "put" /\ Store!Saving(p) => copy[p] = backup

\* An operation that nobody overlaps is the only one, and a load knows the files.
Alone(p) ==
    p \notin raced =>
        /\ at[p] # "idle" => \A q \in Opener : at[q] # "idle" => q = p
        /\ ~Store!Saving(p) =>
              /\ at[p] = "preserve" => target = Corrupt
              /\ at[p] \in {"backup", "restore", "put"} => target \notin StoredDocument
              /\ at[p] = "put" => copy[p] = backup
              /\ at[p] = "revalidate" => copy[p] = target

\* What parses has been committed.
Stored == /\ target \in StoredDocument => target \in committed
          /\ backup \in StoredDocument => backup \in committed

\* The inductive invariant.
StoreInv == /\ Store!TypeOK
       /\ Stored
       /\ \A p \in Opener : Counted(p) /\ Undamaged(p) /\ Alone(p)


\* The invariant holds of fresh files.
LEMMA StoreInit == ASSUME Store!Init PROVE StoreInv
BY StoreAssumption DEF Store!Init, StoreInv, Store!TypeOK, Stored, Counted, Undamaged, Looked, Alone, Store!Saving,
       Store!Files, Store!Counters

\* An operation that starts with another one under way has overlapped it.
LEMMA Raced ==
  ASSUME Store!TypeOK, NEW p \in Opener, at[p] = "idle"
  PROVE  /\ Store!Overlaps(p) \subseteq Opener
         /\ p \notin Store!Overlaps(p) => \A q \in Opener : at[q] = "idle"
         /\ \A q \in Opener : q \in raced /\ q # p => q \in Store!Overlaps(p)
         /\ \A q \in Opener : at[q] # "idle" => q \in Store!Overlaps(p)
BY DEF Store!TypeOK, Store!Overlaps, Store!Busy

\* An operation that begins.
LEMMA BeginKeeps ==
  ASSUME StoreInv, NEW p \in Opener, NEW d \in StoredDocument \cup {Missing}, NEW c \in {"temporary", "read"},
         at[p] = "idle", d # Missing => p \in Saver /\ c = "temporary", d = Missing => c = "read",
         at' = [at EXCEPT ![p] = c], doc' = [doc EXCEPT ![p] = d],
         outcome' = [outcome EXCEPT ![p] = "none"], raced' = Store!Overlaps(p),
         UNCHANGED <<target, backup, kept, copy, had, committed, damage>>
  PROVE  StoreInv'
<1>1. Store!TypeOK'
  BY Raced DEF StoreInv, Store!TypeOK, Store!Counters
<1>2. at'[p] = c /\ doc'[p] = d /\ \A q \in Opener \ {p} : at'[q] = at[q] /\ doc'[q] = doc[q]
  BY DEF StoreInv, Store!TypeOK
<1>3. ASSUME NEW q \in Opener PROVE (Counted(q) /\ Undamaged(q))'
  <2>1. Counted(q) /\ Undamaged(q)
    BY DEF StoreInv
  <2>2. CASE q = p
    BY <1>2, <2>2 DEF Counted, Undamaged, Looked, Store!Saving
  <2>3. CASE q # p
    BY <1>2, <2>1, <2>3 DEF Counted, Undamaged, Looked, Store!Saving
  <2> QED BY <2>2, <2>3
<1>4. ASSUME NEW q \in Opener PROVE Alone(q)'
  <2>1. Alone(q)
    BY DEF StoreInv
  <2>2. CASE q = p
    BY <1>2, <2>2, Raced DEF StoreInv, Alone
  <2>3. CASE q # p
    BY <1>2, <2>1, <2>3, Raced DEF StoreInv, Alone, Store!Saving
  <2> QED BY <2>2, <2>3
<1> QED BY <1>1, <1>3, <1>4 DEF StoreInv, Stored

\* An operation that ends, or that is ended.
LEMMA ReturnKeeps ==
  ASSUME StoreInv, NEW p \in Opener, NEW told \in StoredDocument \cup {"none", "saved", "failed", "crashed", Missing},
         Store!Return(p, told), UNCHANGED <<target, backup, kept>>
  PROVE  StoreInv'
<1>1. Store!TypeOK'
  BY DEF StoreInv, Store!TypeOK, Store!Counters, Store!Return, Store!Go
<1>2. /\ at'[p] = "idle"
      /\ \A q \in Opener \ {p} : at'[q] = at[q] /\ copy'[q] = copy[q]
  BY DEF StoreInv, Store!TypeOK, Store!Return, Store!Go
<1>3. doc' = doc /\ committed' = committed /\ raced' = raced
  BY DEF Store!Return
<1>4. ASSUME NEW q \in Opener PROVE (Counted(q) /\ Undamaged(q) /\ Alone(q))'
  <2>1. Counted(q) /\ Undamaged(q) /\ Alone(q)
    BY DEF StoreInv
  <2>2. CASE q = p
    BY <1>2, <1>3, <2>1, <2>2 DEF Counted, Undamaged, Looked, Alone, Store!Saving
  <2>3. CASE q # p
    BY <1>2, <1>3, <2>1, <2>3 DEF Counted, Undamaged, Looked, Alone, Store!Saving
  <2> QED BY <2>2, <2>3
<1> QED BY <1>1, <1>3, <1>4 DEF StoreInv, Stored

\* A file operation that fails and ends the operation.
LEMMA FailsKeeps == ASSUME StoreInv, NEW p \in Opener, Store!Fails(p) PROVE StoreInv'
BY ReturnKeeps DEF Store!Fails, Store!files

\* A step of one operation that leaves the files where they are.
LEMMA QuietKeeps ==
  ASSUME StoreInv, NEW p \in Opener, NEW c \in Store!Counters, NEW d \in StoredDocument \cup {Missing},
         NEW h \in BOOLEAN, at[p] # "idle",
         at' = [at EXCEPT ![p] = c], copy' = [copy EXCEPT ![p] = d], had' = [had EXCEPT ![p] = h],
         UNCHANGED <<target, backup, kept, doc, outcome, committed, raced, damage>>,
         (Counted(p) /\ Undamaged(p) /\ Alone(p))'
  PROVE  StoreInv'
<1>1. Store!TypeOK'
  BY DEF StoreInv, Store!TypeOK
<1>2. \A q \in Opener \ {p} : at'[q] = at[q] /\ copy'[q] = copy[q]
  BY DEF StoreInv, Store!TypeOK
<1>3. ASSUME NEW q \in Opener \ {p} PROVE (Counted(q) /\ Undamaged(q) /\ Alone(q))'
  <2>1. Counted(q) /\ Undamaged(q) /\ Alone(q)
    BY DEF StoreInv
  <2> QED BY <1>2, <2>1 DEF Counted, Undamaged, Looked, Alone, Store!Saving, StoreInv, Store!TypeOK
<1>4. \A q \in Opener : (Counted(q) /\ Undamaged(q) /\ Alone(q))'
  BY <1>3
<1>5. Stored'
  BY DEF StoreInv, Stored
<1> QED BY <1>1, <1>4, <1>5 DEF StoreInv

\* Nobody else is at the files while an operation that nobody overlaps is.
LEMMA NobodyElse ==
  ASSUME StoreInv, NEW p \in Opener, at[p] # "idle", NEW q \in Opener \ {p}, q \notin raced
  PROVE  at[q] = "idle"
BY DEF StoreInv, Alone

\* What an operation may report.
Outcomes == StoredDocument \cup {"none", "saved", "failed", "crashed", Missing}

\* A step of one operation that changes a name.  What the others know of it is
\* that a save finds no damaged document, and its own copy of the backup.
LEMMA FilesKeep ==
  ASSUME StoreInv, NEW p \in Opener, NEW c \in Store!Counters, at[p] # "idle",
         at' = [at EXCEPT ![p] = c], \A q \in Opener \ {p} : copy'[q] = copy[q],
         copy' \in [Opener -> StoredDocument \cup {Missing}],
         target' \in Store!Files, backup' \in Store!Files, kept' \in Nat,
         committed \subseteq committed', committed' \subseteq StoredDocument,
         outcome' \in [Opener -> Outcomes], UNCHANGED <<doc, had, raced, damage>>,
         Stored', target # Corrupt => target' # Corrupt, p \in Saver \/ backup' = backup,
         (Counted(p) /\ Undamaged(p) /\ Alone(p))'
  PROVE  StoreInv'
<1>1. Store!TypeOK'
  BY DEF StoreInv, Store!TypeOK, Outcomes
<1>2. \A q \in Opener \ {p} : at'[q] = at[q] /\ copy'[q] = copy[q]
  BY DEF StoreInv, Store!TypeOK
<1>3. ASSUME NEW q \in Opener \ {p} PROVE (Counted(q) /\ Undamaged(q) /\ Alone(q))'
  <2>1. Counted(q) /\ Undamaged(q) /\ Alone(q)
    BY DEF StoreInv
  <2>2. Counted(q)'
    BY <1>2, <2>1 DEF Counted, Store!Saving
  <2>3. at'[q] \in Looked => target' # Corrupt
    BY <1>2, <2>1 DEF Undamaged, Looked
  <2>4. at'[q] = "put" /\ doc'[q] # Missing => copy'[q] = backup'
    BY <1>2, <2>1, StoreAssumption DEF Undamaged, Looked, Counted, Store!Saving
  <2>5. q \notin raced' => at'[q] = "idle"
    BY <1>2, NobodyElse
  <2>6. q \in raced' \/ at'[q] = "idle"
    BY <2>5
  <2> QED BY <2>2, <2>3, <2>4, <2>6 DEF Undamaged, Looked, Alone, Store!Saving
<1>4. \A q \in Opener : (Counted(q) /\ Undamaged(q) /\ Alone(q))'
  BY <1>3
<1> QED BY <1>1, <1>4 DEF StoreInv

\* The steps of a save.
LEMMA SaveKeeps == ASSUME StoreInv, NEW p \in Opener, Store!Save(p) PROVE StoreInv'
<1>0. Counted(p) /\ Undamaged(p) /\ Alone(p) /\ Store!TypeOK /\ Stored
  BY DEF StoreInv
<1> USE DEF Store!Go, Store!Continue, Store!files
<1>1. CASE Store!WriteTemporary(p)
  <2>1. CASE Store!Fails(p)
    BY <2>1, FailsKeeps
  <2>2. CASE /\ copy' = [copy EXCEPT ![p] = doc[p]] /\ at' = [at EXCEPT ![p] = "existing"]
             /\ at[p] = "temporary"
             /\ UNCHANGED <<target, backup, kept, doc, had, outcome, committed, raced, damage>>
    <3>1. copy'[p] = doc'[p] /\ at'[p] = "existing" /\ \A q \in Opener \ {p} : at'[q] = at[q]
      BY <1>0, <2>2 DEF Store!TypeOK
    <3>2. (Counted(p) /\ Undamaged(p) /\ Alone(p))'
      BY <1>0, <2>2, <3>1 DEF Counted, Undamaged, Looked, Alone, Store!Saving
    <3>3. "existing" \in Store!Counters /\ doc[p] \in StoredDocument \cup {Missing} /\ had[p] \in BOOLEAN
          /\ had = [had EXCEPT ![p] = had[p]]
      BY <1>0 DEF Store!TypeOK, Store!Counters
    <3> QED BY <2>2, <3>2, <3>3, QuietKeeps
  <2> QED BY <1>1, <2>1, <2>2 DEF Store!WriteTemporary
<1>2. CASE Store!ReadExisting(p)
  <2>1. CASE Store!Fails(p)
    BY <2>1, FailsKeeps
  <2>2. CASE ~ Store!Fails(p)
    <3> DEFINE c == IF target = Missing THEN "move" ELSE "replace"
    <3>1. /\ target # Corrupt /\ at[p] = "existing" /\ at' = [at EXCEPT ![p] = c]
          /\ had' = [had EXCEPT ![p] = target # Missing]
          /\ UNCHANGED <<target, backup, kept, doc, copy, outcome, committed, raced, damage>>
      BY <1>2, <2>2 DEF Store!ReadExisting
    <3>2. at'[p] \in {"move", "replace"} /\ \A q \in Opener \ {p} : at'[q] = at[q]
      BY <1>0, <3>1 DEF Store!TypeOK
    <3>3. (Counted(p) /\ Undamaged(p) /\ Alone(p))'
      BY <1>0, <3>1, <3>2 DEF Counted, Undamaged, Looked, Alone, Store!Saving
    <3>4. c \in Store!Counters /\ copy[p] \in StoredDocument \cup {Missing}
          /\ copy = [copy EXCEPT ![p] = copy[p]]
      BY <1>0 DEF Store!TypeOK, Store!Counters
    <3> HIDE DEF c
    <3> QED BY <3>1, <3>3, <3>4, QuietKeeps
  <2> QED BY <2>1, <2>2
<1>3. CASE Store!ReplaceMovesOld(p)
  <2>1. CASE Store!Fails(p)
    BY <2>1, FailsKeeps
  <2>2. CASE ~ Store!Fails(p)
    <3>1. /\ target # Missing /\ at[p] = "replace" /\ at' = [at EXCEPT ![p] = "install"]
          /\ backup' = target /\ target' = Missing /\ kept' = kept
          /\ UNCHANGED <<doc, copy, had, outcome, committed, raced, damage>>
      BY <1>3, <2>2 DEF Store!ReplaceMovesOld
    <3>2. at'[p] = "install" /\ \A q \in Opener \ {p} : at'[q] = at[q]
      BY <1>0, <3>1 DEF Store!TypeOK, Store!Counters
    <3>3. (Counted(p) /\ Undamaged(p) /\ Alone(p))' /\ Stored' /\ p \in Saver
      BY <1>0, <3>1, <3>2, StoreAssumption DEF Counted, Undamaged, Looked, Alone, Store!Saving, Stored
    <3>4. "install" \in Store!Counters /\ Missing \in Store!Files
      BY DEF Store!Counters, Store!Files
    <3> QED BY <1>0, <3>1, <3>3, <3>4, StoreAssumption, FilesKeep DEF Store!TypeOK, Outcomes
  <2> QED BY <2>1, <2>2
<1>4. CASE Store!Install(p, "install") \/ Store!Install(p, "move")
  <2>1. CASE Store!Fails(p)
    BY <2>1, FailsKeeps
  <2>2. CASE ~ Store!Fails(p)
    <3>1. /\ target = Missing /\ at[p] \in {"install", "move"} /\ at' = [at EXCEPT ![p] = "validate"]
          /\ target' = copy[p] /\ committed' = committed \cup {copy[p]}
          /\ copy' = [copy EXCEPT ![p] = Missing] /\ backup' = backup /\ kept' = kept
          /\ UNCHANGED <<doc, had, outcome, raced, damage>>
      BY <1>4, <2>2 DEF Store!Install
    <3>2. copy[p] \in StoredDocument
      BY <1>0, <3>1 DEF Counted, Store!Saving, Store!TypeOK
    <3>3. /\ at'[p] = "validate" /\ \A q \in Opener \ {p} : at'[q] = at[q] /\ copy'[q] = copy[q]
          /\ copy' \in [Opener -> StoredDocument \cup {Missing}]
      BY <1>0, <3>1 DEF Store!TypeOK, Store!Counters
    <3>4. (Counted(p) /\ Undamaged(p) /\ Alone(p))' /\ Stored' /\ p \in Saver
      BY <1>0, <3>1, <3>2, <3>3, StoreAssumption DEF Counted, Undamaged, Looked, Alone, Store!Saving, Stored
    <3>5. "validate" \in Store!Counters /\ target' \in Store!Files /\ target' # Corrupt
          /\ committed' \subseteq StoredDocument
      BY <1>0, <3>1, <3>2, StoreAssumption DEF Store!Counters, Store!Files, Store!TypeOK
    <3> QED BY <1>0, <3>1, <3>3, <3>4, <3>5, FilesKeep DEF Store!TypeOK, Outcomes
  <2> QED BY <2>1, <2>2
<1>5. CASE Store!Validate(p)
  <2>1. CASE Store!Return(p, "saved")
    BY <1>5, <2>1, ReturnKeeps DEF Store!Validate
  <2>2. CASE ~ Store!Return(p, "saved")
    <3> DEFINE c == IF had[p] THEN "restore" ELSE "remove"
    <3>1. /\ at[p] = "validate" /\ at' = [at EXCEPT ![p] = c]
          /\ UNCHANGED <<target, backup, kept, doc, copy, had, outcome, committed, raced, damage>>
      BY <1>5, <2>2 DEF Store!Validate
    <3>2. at'[p] \in {"restore", "remove"} /\ \A q \in Opener \ {p} : at'[q] = at[q]
      BY <1>0, <3>1 DEF Store!TypeOK
    <3>3. (Counted(p) /\ Undamaged(p) /\ Alone(p))'
      BY <1>0, <3>1, <3>2 DEF Counted, Undamaged, Looked, Alone, Store!Saving
    <3>4. /\ c \in Store!Counters /\ copy[p] \in StoredDocument \cup {Missing} /\ had[p] \in BOOLEAN
          /\ copy = [copy EXCEPT ![p] = copy[p]] /\ had = [had EXCEPT ![p] = had[p]]
      BY <1>0 DEF Store!TypeOK, Store!Counters
    <3> HIDE DEF c
    <3> QED BY <3>1, <3>3, <3>4, QuietKeeps
  <2> QED BY <2>1, <2>2
<1>6. CASE Store!RemoveUnconfirmed(p)
  <2>1. CASE Store!Fails(p)
    BY <2>1, FailsKeeps
  <2>2. CASE ~ Store!Fails(p)
    <3>1. /\ target' = Missing /\ backup' = backup /\ kept' = kept /\ at[p] = "remove"
          /\ at' = [at EXCEPT ![p] = "idle"] /\ outcome' = [outcome EXCEPT ![p] = "failed"]
          /\ copy' = [copy EXCEPT ![p] = Missing]
          /\ UNCHANGED <<doc, had, committed, raced, damage>>
      BY <1>6, <2>2 DEF Store!RemoveUnconfirmed, Store!Return
    <3>2. /\ at'[p] = "idle" /\ \A q \in Opener \ {p} : at'[q] = at[q] /\ copy'[q] = copy[q]
          /\ copy' \in [Opener -> StoredDocument \cup {Missing}] /\ outcome' \in [Opener -> Outcomes]
      BY <1>0, <3>1 DEF Store!TypeOK, Store!Counters, Outcomes
    <3>3. (Counted(p) /\ Undamaged(p) /\ Alone(p))' /\ Stored'
      BY <1>0, <3>1, <3>2, StoreAssumption DEF Counted, Undamaged, Looked, Alone, Store!Saving, Stored
    <3>4. "idle" \in Store!Counters /\ target' \in Store!Files /\ target' # Corrupt
      BY <3>1, StoreAssumption DEF Store!Counters, Store!Files
    <3> QED BY <1>0, <3>1, <3>2, <3>3, <3>4, FilesKeep DEF Store!TypeOK
  <2> QED BY <2>1, <2>2
<1> QED BY <1>1, <1>2, <1>3, <1>4, <1>5, <1>6 DEF Store!Save

\* The steps of a load.
LEMMA LoadKeeps == ASSUME StoreInv, NEW p \in Opener, Store!Load(p) PROVE StoreInv'
<1>0. Counted(p) /\ Undamaged(p) /\ Alone(p) /\ Store!TypeOK /\ Stored
  BY DEF StoreInv
<1>1. /\ copy[p] \in StoredDocument \cup {Missing} /\ had[p] \in BOOLEAN
      /\ copy = [copy EXCEPT ![p] = copy[p]] /\ had = [had EXCEPT ![p] = had[p]]
      /\ {"backup", "preserve", "restore"} \subseteq Store!Counters
      /\ \A c \in Store!Counters : LET f == [at EXCEPT ![p] = c]
                                   IN  f[p] = c /\ \A q \in Opener \ {p} : f[q] = at[q]
  BY <1>0 DEF Store!TypeOK, Store!Counters
<1>2. CASE Store!ReadTarget(p)
  <2>1. CASE Store!Return(p, "failed") \/ (target \in StoredDocument /\ Store!Return(p, target))
    BY <1>2, <2>1, ReturnKeeps DEF Store!ReadTarget, Store!files
  <2>2. ASSUME NEW c \in {"backup", "preserve"}, c = "backup" => target = Missing,
               c = "preserve" => target = Corrupt, Store!Continue(p, c)
        PROVE  StoreInv'
    <3>1. at[p] = "read" /\ UNCHANGED <<target, backup, kept>>
      BY <1>2 DEF Store!ReadTarget, Store!files
    <3>2. at'[p] = c /\ \A q \in Opener \ {p} : at'[q] = at[q]
      BY <1>1, <2>2 DEF Store!Continue, Store!Go
    <3>3. (Counted(p) /\ Undamaged(p) /\ Alone(p))'
      BY <1>0, <2>2, <3>1, <3>2, StoreAssumption DEF Counted, Undamaged, Looked, Alone, Store!Saving, Store!Continue
    <3>4. CASE c = "backup"
      BY <1>1, <2>2, <3>1, <3>3, <3>4, QuietKeeps DEF Store!Continue, Store!Go
    <3>5. CASE c = "preserve"
      BY <1>1, <2>2, <3>1, <3>3, <3>5, QuietKeeps DEF Store!Continue, Store!Go
    <3> QED BY <3>4, <3>5
  <2>3. target = Missing /\ Store!Continue(p, "backup") => StoreInv'
    BY <2>2
  <2>4. target = Corrupt /\ Store!Continue(p, "preserve") => StoreInv'
    BY <2>2
  <2> QED BY <1>2, <2>1, <2>3, <2>4 DEF Store!ReadTarget
<1> USE DEF Store!Go, Store!Continue, Store!files
<1>3. CASE Store!PreserveCorrupt(p)
  <2>1. CASE Store!Fails(p)
    BY <2>1, FailsKeeps
  <2>2. CASE ~ Store!Fails(p)
    <3>1. /\ target' = Missing /\ backup' = backup /\ kept' = kept + 1 /\ at[p] = "preserve"
          /\ at' = [at EXCEPT ![p] = "backup"]
          /\ UNCHANGED <<doc, copy, had, outcome, committed, raced, damage>>
      BY <1>3, <2>2 DEF Store!PreserveCorrupt
    <3>2. at'[p] = "backup" /\ \A q \in Opener \ {p} : at'[q] = at[q]
      BY <1>1, <3>1
    <3>3. (Counted(p) /\ Undamaged(p) /\ Alone(p))' /\ Stored'
      BY <1>0, <3>1, <3>2, StoreAssumption DEF Counted, Undamaged, Looked, Alone, Store!Saving, Stored
    <3>4. target' \in Store!Files /\ target' # Corrupt /\ kept' \in Nat
      BY <1>0, <3>1, StoreAssumption DEF Store!TypeOK, Store!Files
    <3> QED BY <1>0, <1>1, <3>1, <3>3, <3>4, FilesKeep DEF Store!TypeOK, Outcomes
  <2> QED BY <2>1, <2>2
<1>4. CASE Store!LoadBackup(p)
  <2>1. CASE Store!Return(p, "failed") \/ Store!Return(p, Missing)
    BY <1>4, <2>1, ReturnKeeps DEF Store!LoadBackup
  <2>2. CASE backup \in StoredDocument /\ Store!Continue(p, "restore")
    <3>1. at[p] = "backup" /\ UNCHANGED <<target, backup, kept>>
      BY <1>4 DEF Store!LoadBackup
    <3>2. at'[p] = "restore" /\ \A q \in Opener \ {p} : at'[q] = at[q]
      BY <1>1, <2>2
    <3>3. (Counted(p) /\ Undamaged(p) /\ Alone(p))'
      BY <1>0, <2>2, <3>1, <3>2 DEF Counted, Undamaged, Looked, Alone, Store!Saving
    <3> QED BY <1>1, <2>2, <3>1, <3>3, QuietKeeps
  <2> QED BY <1>4, <2>1, <2>2 DEF Store!LoadBackup
<1> QED BY <1>2, <1>3, <1>4 DEF Store!Load

\* The steps that put the backup back.
LEMMA RestoreKeeps == ASSUME StoreInv, NEW p \in Opener, Store!Restore(p) PROVE StoreInv'
<1>0. Counted(p) /\ Undamaged(p) /\ Alone(p) /\ Store!TypeOK /\ Stored
  BY DEF StoreInv
<1>1. /\ had[p] \in BOOLEAN /\ had = [had EXCEPT ![p] = had[p]]
      /\ {"put", "revalidate"} \subseteq Store!Counters
      /\ \A c \in Store!Counters : LET f == [at EXCEPT ![p] = c]
                                   IN  f[p] = c /\ \A q \in Opener \ {p} : f[q] = at[q]
  BY <1>0 DEF Store!TypeOK, Store!Counters
<1> USE DEF Store!Go, Store!Continue, Store!files
<1>2. CASE Store!CopyBackup(p)
  <2>1. CASE Store!Fails(p)
    BY <2>1, FailsKeeps
  <2>2. CASE ~ Store!Fails(p)
    <3>1. /\ backup \in StoredDocument /\ at[p] = "restore" /\ at' = [at EXCEPT ![p] = "put"]
          /\ copy' = [copy EXCEPT ![p] = backup]
          /\ UNCHANGED <<target, backup, kept, doc, had, outcome, committed, raced, damage>>
      BY <1>2, <2>2 DEF Store!CopyBackup
    <3>2. at'[p] = "put" /\ copy'[p] = backup /\ \A q \in Opener \ {p} : at'[q] = at[q]
      BY <1>0, <1>1, <3>1 DEF Store!TypeOK
    <3>3. (Counted(p) /\ Undamaged(p) /\ Alone(p))'
      BY <1>0, <3>1, <3>2 DEF Counted, Undamaged, Looked, Alone, Store!Saving, Stored
    <3> QED BY <1>1, <3>1, <3>3, QuietKeeps
  <2> QED BY <2>1, <2>2
<1>3. CASE Store!PutBackup(p)
  <2>1. CASE Store!Fails(p)
    BY <2>1, FailsKeeps
  <2>2. CASE ~ Store!Fails(p)
    <3>1. /\ target' = copy[p] /\ backup' = backup /\ kept' = kept /\ at[p] = "put"
          /\ at' = [at EXCEPT ![p] = "revalidate"]
          /\ UNCHANGED <<doc, copy, had, outcome, committed, raced, damage>>
      BY <1>3, <2>2 DEF Store!PutBackup
    <3>2. at'[p] = "revalidate" /\ \A q \in Opener \ {p} : at'[q] = at[q]
      BY <1>1, <3>1
    <3>3. copy[p] \in committed /\ committed \subseteq StoredDocument
      BY <1>0, <3>1 DEF Counted, Store!TypeOK
    <3>4. (Counted(p) /\ Undamaged(p) /\ Alone(p))' /\ Stored'
      BY <1>0, <3>1, <3>2, <3>3, StoreAssumption DEF Counted, Undamaged, Looked, Alone, Store!Saving, Stored
    <3>5. target' \in Store!Files /\ target' # Corrupt
      BY <3>1, <3>3, StoreAssumption DEF Store!Files
    <3> QED BY <1>0, <1>1, <3>1, <3>4, <3>5, FilesKeep DEF Store!TypeOK, Outcomes
  <2> QED BY <2>1, <2>2
<1>4. CASE Store!Revalidate(p)
  <2>1. CASE Store!Fails(p)
    BY <2>1, FailsKeeps
  <2>2. CASE ~ Store!Fails(p)
    <3> DEFINE told == IF Store!Saving(p) THEN "failed" ELSE copy[p]
    <3>1. Store!Return(p, told) /\ UNCHANGED <<target, backup, kept>>
      BY <1>4, <2>2 DEF Store!Revalidate
    <3>2. told \in StoredDocument \cup {"none", "saved", "failed", "crashed", Missing}
      BY <1>0 DEF Store!TypeOK
    <3> HIDE DEF told
    <3> QED BY <3>1, <3>2, ReturnKeeps
  <2> QED BY <2>1, <2>2
<1> QED BY <1>2, <1>3, <1>4 DEF Store!Restore

\* Files damaged while nobody is at them.
LEMMA DamageKeeps == ASSUME StoreInv, Store!DamageFile PROVE StoreInv'
<1>1. \A p \in Opener : at[p] = "idle"
  BY DEF Store!DamageFile, Store!Busy
<1>2. /\ target' \in {target, Corrupt, Missing} /\ backup' \in {backup, Corrupt}
      /\ UNCHANGED <<kept, at, doc, copy, had, outcome, committed, raced>>
      /\ damage < MaxDamage /\ damage' = damage + 1
  BY DEF Store!DamageFile
<1>3. Store!TypeOK'
  BY <1>2, StoreAssumption DEF StoreInv, Store!TypeOK, Store!Files
<1>4. Stored'
  BY <1>2, StoreAssumption DEF StoreInv, Stored
<1>5. ASSUME NEW p \in Opener PROVE (Counted(p) /\ Undamaged(p) /\ Alone(p))'
  <2>1. at[p] = "idle" /\ Counted(p) /\ Alone(p)
    BY <1>1 DEF StoreInv
  <2> QED BY <1>2, <2>1 DEF Counted, Undamaged, Looked, Alone, Store!Saving
<1> QED BY <1>3, <1>4, <1>5 DEF StoreInv

\* Every step of the store keeps the invariant.
LEMMA StoreStepKeeps == ASSUME StoreInv, StoreStep PROVE StoreInv'
<1>1. ASSUME NEW p \in Opener, NEW v \in StoredDocument, Store!BeginSave(p, v) PROVE StoreInv'
  BY <1>1, StoreAssumption, BeginKeeps DEF Store!BeginSave, Store!Go, Store!files
<1>2. ASSUME NEW p \in Opener, Store!BeginLoad(p) PROVE StoreInv'
  BY <1>2, BeginKeeps DEF Store!BeginLoad, Store!Go, Store!files
<1>3. ASSUME NEW p \in Opener, Store!Crash(p) PROVE StoreInv'
  BY <1>3, ReturnKeeps DEF Store!Crash, Store!files
<1> QED BY <1>1, <1>2, <1>3, SaveKeeps, LoadKeeps, RestoreKeeps, DamageKeeps DEF StoreStep

-----------------------------------------------------------------------------
\* The register of DurableRegister, seen through the files.
Shown == <<Current, Previous, committed, Stages, doc, raced, outcome>>

\* A step that changes nothing the register shows is none of its steps.
LEMMA StutterShown == ASSUME Shown' = Shown PROVE UNCHANGED Store!Register!vars
BY DEF Shown, Current, Previous, Stages, Store!Register!vars

\* What an operation is doing, by its counter and its document.
LEMMA StageOf ==
  ASSUME NEW p \in Opener
  PROVE  Stages[p] = StageAt(at[p], doc[p])
BY DEF Stages, StageAt, Store!Stage, Store!Saving

\* What a process is doing, or the document it carries, becomes another.
Shows(p, s) == Stages' = [Stages EXCEPT ![p] = s]
Carries(p, d) == doc' = [doc EXCEPT ![p] = d]

\* One operation goes on: the stage of that one changes.
LEMMA StagesGo ==
  ASSUME StoreInv, NEW p \in Opener, NEW c \in Store!Counters, NEW d \in StoredDocument \cup {Missing},
         Store!Go(p, c), Carries(p, d)
  PROVE  Shows(p, StageAt(c, d))
<1>1. \A q \in Opener : at'[q] = IF q = p THEN c ELSE at[q]
  BY DEF StoreInv, Store!TypeOK, Store!Go
<1>2. \A q \in Opener : doc'[q] = IF q = p THEN d ELSE doc[q]
  BY DEF StoreInv, Store!TypeOK, Carries
<1>3. ASSUME NEW q \in Opener
      PROVE  Store!Stage(q)' = IF q = p THEN StageAt(c, d) ELSE Store!Stage(q)
  <2>1. StageAt(at[q], doc[q]) = Store!Stage(q) /\ StageAt(at'[q], doc'[q]) = Store!Stage(q)'
    BY DEF StageAt, Store!Stage, Store!Saving
  <2> QED BY <1>1, <1>2, <2>1
<1>4. Stages' = [q \in Opener |-> IF q = p THEN StageAt(c, d) ELSE Store!Stage(q)]
  BY <1>3 DEF Stages
<1> QED BY <1>4 DEF Stages, Shows

\* The old document becomes the backup.
LEMMA ShowSupersede ==
  ASSUME NEW p \in Opener, Stages[p] = "writing", Previous' = Current,
         UNCHANGED <<Current, committed, Stages, doc, raced, outcome>>
  PROVE  Store!Register!Next
<1>1. Store!Register!Supersede(p)
  BY DEF Store!Register!Supersede, Current, Previous, Stages
<1> QED BY <1>1 DEF Store!Register!Next

\* The new document takes its name.
LEMMA ShowCommit ==
  ASSUME NEW p \in Opener, Stages[p] = "writing", Shows(p, "written"),
         Current' = doc[p], committed' = committed \cup {doc[p]},
         UNCHANGED <<Previous, doc, raced, outcome>>
  PROVE  Store!Register!Next
<1>1. Store!Register!Commit(p)
  BY DEF Shows, Store!Register!Commit, Current, Previous, Stages
<1> QED BY <1>1 DEF Store!Register!Next

\* A write that cannot be read back gives way to the backup.
LEMMA ShowUndo ==
  ASSUME NEW p \in Opener, Stages[p] = "written", Current' = Previous,
         \/ Shows(p, "undone") /\ UNCHANGED outcome
         \/ /\ Shows(p, "idle")
            /\ outcome' = [outcome EXCEPT ![p] = "failed"],
         UNCHANGED <<Previous, committed, doc, raced>>
  PROVE  Store!Register!Next
<1>1. Store!Register!Undo(p)
  BY DEF Shows, Store!Register!Undo, Current, Previous, Stages
<1> QED BY <1>1 DEF Store!Register!Next

\* An operation ends.
LEMMA ShowFinish ==
  ASSUME NEW p \in Opener, NEW told \in {"saved", "failed", "crashed", Missing} \cup StoredDocument,
         \/ told = "saved" /\ Stages[p] = "written"
         \/ told \in {"failed", "crashed"} /\ Stages[p] # "idle"
         \/ told = Current /\ Stages[p] = "reading"
         \/ told \in committed \cup {Missing} /\ Stages[p] = "reading" /\ p \in raced,
         Shows(p, "idle"), outcome' = [outcome EXCEPT ![p] = told],
         UNCHANGED <<Current, Previous, committed, doc, raced>>
  PROVE  Store!Register!Next
<1>1. Store!Register!Finish(p, told)
  BY DEF Shows, Store!Register!Finish, Current, Previous, Stages
<1> QED BY <1>1 DEF Store!Register!Next

\* A load that another one overlaps changes the document.
LEMMA ShowRewind ==
  ASSUME NEW p \in Opener, Stages[p] = "reading", p \in raced, Current' \in committed \cup {Missing},
         UNCHANGED <<Previous, committed, Stages, doc, raced, outcome>>
  PROVE  Store!Register!Next
<1>1. Store!Register!Rewind(p)
  BY DEF Store!Register!Rewind, Current, Previous, Stages
<1> QED BY <1>1 DEF Store!Register!Next

\* What is idle in the files is idle in the register.
LEMMA ActiveIsBusy ==
  ASSUME StoreInv
  PROVE  /\ \A p \in Opener : Stages[p] = "idle" <=> at[p] = "idle"
         /\ Store!Register!Active = Store!Busy
<1>1. ASSUME NEW p \in Opener PROVE Stages[p] = "idle" <=> at[p] = "idle"
  <2>1. at[p] \in Store!Counters /\ Counted(p) /\ doc[p] \in StoredDocument \cup {Missing}
    BY DEF StoreInv, Store!TypeOK
  <2> QED BY <2>1, StageOf DEF StageAt, Counted, Store!Saving, Store!Counters
<1>2. Store!Register!Active = {p \in Opener : Stages[p] # "idle"}
  BY DEF Store!Register!Active, Stages
<1> QED BY <1>1, <1>2 DEF Store!Busy

\* An operation begins.
LEMMA ShowBegin ==
  ASSUME StoreInv, NEW p \in Opener, at[p] = "idle",
         outcome' = [outcome EXCEPT ![p] = "none"], raced' = Store!Overlaps(p),
         UNCHANGED <<Current, Previous, committed>>,
         \/ \E v \in StoredDocument : /\ Carries(p, v)
                                /\ Shows(p, "writing")
         \/ Carries(p, Missing) /\ Shows(p, "reading")
  PROVE  Store!Register!Next
<1>1. Stages[p] = "idle" /\ raced' = Store!Register!Overlaps(p)
  BY ActiveIsBusy DEF Store!Overlaps, Store!Register!Overlaps
<1>2. (\E v \in StoredDocument : Store!Register!BeginSave(p, v)) \/ Store!Register!BeginLoad(p)
  BY <1>1 DEF Shows, Carries, Store!Register!BeginSave, Store!Register!BeginLoad, Current, Previous, Stages
<1> QED BY <1>2 DEF Store!Register!Next

\* Files at rest are damaged.
LEMMA ShowDamage ==
  ASSUME StoreInv, Store!Busy = {}, Current' \in {Current, Previous, Missing}, Previous' \in {Previous, Missing},
         UNCHANGED <<committed, Stages, doc, raced, outcome>>
  PROVE  Store!Register!Next
<1>1. Store!Register!Active = {}
  BY ActiveIsBusy
<1>2. Store!Register!Damage
  BY <1>1 DEF Store!Register!Damage, Current, Previous, Stages
<1> QED BY <1>2 DEF Store!Register!Next

\* Every step of the files is a step of the register, or none.
Simulated == [Store!Register!Next]_(Store!Register!vars)

\* The document and the counter of an operation.
LEMMA DocTyped ==
  ASSUME StoreInv, NEW p \in Opener
  PROVE  doc[p] \in StoredDocument \cup {Missing} /\ (doc' = doc => Carries(p, doc[p]))
         /\ at[p] \in Store!Counters
BY DEF StoreInv, Store!TypeOK, Carries

\* An operation that begins, in the register.
LEMMA BeginShown ==
  ASSUME StoreInv, NEW p \in Opener,
         Store!BeginLoad(p) \/ \E v \in StoredDocument : Store!BeginSave(p, v)
  PROVE  Simulated
<1>1. /\ at[p] = "idle" /\ UNCHANGED <<Current, Previous, committed>> /\ raced' = Store!Overlaps(p)
      /\ outcome' = [outcome EXCEPT ![p] = "none"]
  BY DEF Store!BeginLoad, Store!BeginSave, Store!files, Current, Previous, Store!Valid
<1>2. CASE Store!BeginLoad(p)
  <2>1. Store!Go(p, "read") /\ Carries(p, Missing)
    BY <1>2 DEF Store!BeginLoad, Carries
  <2>2. "read" \in Store!Counters /\ StageAt("read", Missing) = "reading"
    BY DEF StageAt, Store!Counters
  <2>3. Shows(p, "reading")
    BY <2>1, <2>2, StagesGo
  <2> QED BY <1>1, <2>1, <2>3, ShowBegin DEF Simulated
<1>3. CASE \E v \in StoredDocument : Store!BeginSave(p, v)
  <2>1. PICK v \in StoredDocument : Store!BeginSave(p, v)
    BY <1>3
  <2>2. Store!Go(p, "temporary") /\ Carries(p, v)
    BY <2>1 DEF Store!BeginSave, Carries
  <2>3. "temporary" \in Store!Counters /\ StageAt("temporary", v) = "writing"
    BY StoreAssumption DEF StageAt, Store!Counters
  <2>4. Shows(p, "writing")
    BY <2>2, <2>3, StagesGo
  <2> QED BY <1>1, <2>2, <2>4, ShowBegin DEF Simulated
<1> QED BY <1>2, <1>3

\* An operation that ends tells what the register holds, or that it failed.
LEMMA ReturnShown ==
  ASSUME StoreInv, NEW p \in Opener, at[p] # "idle",
         NEW told \in {"saved", "failed", "crashed", Missing} \cup StoredDocument,
         Store!Return(p, told), UNCHANGED <<target, backup, kept>>,
         \/ told = "saved" /\ at[p] = "validate"
         \/ told \in {"failed", "crashed"}
         \/ ~ Store!Saving(p) /\ told = Current
         \/ ~ Store!Saving(p) /\ told \in committed \cup {Missing} /\ p \in raced
  PROVE  Simulated
<1>1. Store!Go(p, "idle") /\ outcome' = [outcome EXCEPT ![p] = told]
      /\ UNCHANGED <<Current, Previous, committed, doc, raced>>
  BY DEF Store!Return, Current, Previous, Store!Valid
<1>2. "idle" \in Store!Counters /\ StageAt("idle", doc[p]) = "idle"
  BY DEF StageAt, Store!Counters
<1>3. Shows(p, "idle")
  BY <1>1, <1>2, DocTyped, StagesGo
<1>4. Stages[p] # "idle"
  BY ActiveIsBusy
<1>5. ~ Store!Saving(p) => Stages[p] = "reading"
  BY StageOf DEF StageAt, Store!Saving
<1>6. at[p] = "validate" => Stages[p] = "written"
  BY StageOf DEF StageAt, Store!Saving, StoreInv, Counted
<1> QED BY <1>1, <1>3, <1>4, <1>5, <1>6, ShowFinish DEF Simulated

\* An operation that fails, in the register.
LEMMA FailsShown ==
  ASSUME StoreInv, NEW p \in Opener, at[p] # "idle", Store!Fails(p) \/ Store!Crash(p)
  PROVE  Simulated
BY ReturnShown DEF Store!Fails, Store!Crash, Store!files


\* A counter that moves within one stage.
LEMMA StagesStay ==
  ASSUME StoreInv, NEW p \in Opener, NEW c \in Store!Counters, Store!Go(p, c), doc' = doc,
         StageAt(c, doc[p]) = StageAt(at[p], doc[p])
  PROVE  Stages' = Stages
<1>1. Shows(p, Stages[p])
  BY DocTyped, StagesGo, StageOf
<1> QED BY <1>1 DEF Stages, Shows

\* A step that changes no document, and not what the operation stands for.
LEMMA ContinueShown ==
  ASSUME StoreInv, NEW p \in Opener, NEW c \in Store!Counters, Store!Go(p, c),
         StageAt(c, doc[p]) = StageAt(at[p], doc[p]), Current' = Current, Previous' = Previous,
         UNCHANGED <<doc, outcome, committed, raced>>
  PROVE  Simulated
<1>1. Shown' = Shown
  BY StagesStay DEF Shown
<1> QED BY <1>1, StutterShown DEF Simulated

\* What the operation of a save stands for: nothing else moves it.
Writing == {"temporary", "existing", "replace", "install", "move"}

\* The stages of an operation that saves.
LEMMA StagesAre ==
  ASSUME NEW d \in StoredDocument
  PROVE  /\ \A c \in Writing : StageAt(c, d) = "writing"
         /\ \A c \in {"validate", "remove", "restore", "put"} : StageAt(c, d) = "written"
         /\ StageAt("revalidate", d) = "undone" /\ StageAt("idle", d) = "idle"
         /\ \A c \in Store!Counters \ {"idle"} : StageAt(c, Missing) = "reading"
BY StoreAssumption DEF StageAt, Writing

\* An operation without a document reads.
LEMMA LoadsRead == \A c \in Store!Counters \ {"idle"} : StageAt(c, Missing) = "reading"
BY DEF StageAt

\* The steps of a save, in the register.
LEMMA SaveShown == ASSUME StoreInv, NEW p \in Opener, Store!Save(p) PROVE Simulated
<1>0. Counted(p) /\ Undamaged(p) /\ Store!TypeOK
  BY DEF StoreInv
<1>1. at[p] \in Writing \cup {"validate", "remove"} /\ doc[p] \in StoredDocument
  BY <1>0 DEF Store!Save, Store!WriteTemporary, Store!ReadExisting, Store!ReplaceMovesOld, Store!Install,
              Store!Validate, Store!RemoveUnconfirmed, Counted, Store!Saving, Store!TypeOK, Writing
<1>2. CASE Store!Fails(p)
  BY <1>1, <1>2, FailsShown DEF Writing
<1>3. Writing \cup {"validate", "remove", "restore"} \subseteq Store!Counters
  BY DEF Writing, Store!Counters
<1>4. StageAt(at[p], doc[p]) = IF at[p] \in Writing THEN "writing" ELSE "written"
  BY <1>1, StagesAre DEF Writing
<1>5. ASSUME Store!WriteTemporary(p), ~ Store!Fails(p) PROVE Simulated
  <2>1. /\ Store!Go(p, "existing") /\ Current' = Current /\ Previous' = Previous
        /\ UNCHANGED <<doc, outcome, committed, raced>> /\ at[p] = "temporary"
    BY <1>5 DEF Store!WriteTemporary, Store!files, Current, Previous, Store!Valid
  <2> QED BY <1>1, <1>3, <1>4, <2>1, StagesAre, ContinueShown DEF Writing
<1>6. ASSUME Store!ReadExisting(p), ~ Store!Fails(p) PROVE Simulated
  <2> DEFINE c == IF target = Missing THEN "move" ELSE "replace"
  <2>1. /\ Store!Go(p, c) /\ Current' = Current /\ Previous' = Previous
        /\ UNCHANGED <<doc, outcome, committed, raced>> /\ at[p] = "existing"
    BY <1>6 DEF Store!ReadExisting, Store!files, Current, Previous, Store!Valid
  <2>2. c \in Writing
    BY DEF Writing
  <2> HIDE DEF c
  <2> QED BY <1>1, <1>3, <1>4, <2>1, <2>2, StagesAre, ContinueShown DEF Writing
<1>7. ASSUME Store!ReplaceMovesOld(p), ~ Store!Fails(p) PROVE Simulated
  <2>1. /\ Store!Go(p, "install") /\ at[p] = "replace" /\ backup' = target /\ target' = Missing
        /\ target # Missing /\ UNCHANGED <<doc, outcome, committed, raced>>
    BY <1>7 DEF Store!ReplaceMovesOld, Store!Continue
  <2>2. target \in StoredDocument
    BY <1>0, <2>1 DEF Undamaged, Looked, Store!TypeOK, Store!Files
  <2>3. Current' = Current /\ Previous' = Current
    BY <2>1, <2>2, StoreAssumption DEF Current, Previous, Store!Valid
  <2>4. Stages' = Stages
    BY <1>1, <1>3, <1>4, <2>1, StagesAre, StagesStay DEF Writing
  <2>5. Stages[p] = "writing"
    BY <1>4, <2>1, StageOf DEF Writing
  <2> QED BY <2>1, <2>3, <2>4, <2>5, ShowSupersede DEF Simulated
<1>8. ASSUME Store!Install(p, "install") \/ Store!Install(p, "move"), ~ Store!Fails(p) PROVE Simulated
  <2>1. /\ Store!Go(p, "validate") /\ at[p] \in {"install", "move"} /\ target' = copy[p]
        /\ committed' = committed \cup {copy[p]} /\ UNCHANGED <<backup, doc, outcome, raced>>
    BY <1>8 DEF Store!Install
  <2>2. copy[p] = doc[p]
    BY <1>0, <2>1 DEF Counted
  <2>3. Current' = doc[p] /\ Previous' = Previous
    BY <1>1, <2>1, <2>2 DEF Current, Previous, Store!Valid
  <2>4. StageAt("validate", doc[p]) = "written" /\ "validate" \in Store!Counters
    BY <1>1, <1>3, StagesAre
  <2>5. Shows(p, "written")
    BY <2>1, <2>4, DocTyped, StagesGo
  <2>6. Stages[p] = "writing"
    BY <1>4, <2>1, StageOf DEF Writing
  <2> QED BY <2>1, <2>2, <2>3, <2>5, <2>6, ShowCommit DEF Simulated
<1>9. ASSUME Store!Validate(p) PROVE Simulated
  <2>1. CASE Store!Return(p, "saved")
    BY <1>9, <2>1, ReturnShown DEF Store!Validate, Store!files
  <2>2. CASE ~ Store!Return(p, "saved")
    <3> DEFINE c == IF had[p] THEN "restore" ELSE "remove"
    <3>1. /\ Store!Go(p, c) /\ Current' = Current /\ Previous' = Previous
          /\ UNCHANGED <<doc, outcome, committed, raced>> /\ at[p] = "validate"
      BY <1>9, <2>2 DEF Store!Validate, Store!Continue, Store!files, Current, Previous, Store!Valid
    <3>2. c \in {"restore", "remove"}
      OBVIOUS
    <3> HIDE DEF c
    <3> QED BY <1>1, <1>3, <1>4, <3>1, <3>2, StagesAre, ContinueShown DEF Writing
  <2> QED BY <2>1, <2>2
<1>10. ASSUME Store!RemoveUnconfirmed(p), ~ Store!Fails(p) PROVE Simulated
  <2>1. /\ Store!Go(p, "idle") /\ at[p] = "remove" /\ target' = Missing
        /\ outcome' = [outcome EXCEPT ![p] = "failed"]
        /\ UNCHANGED <<backup, doc, committed, raced>>
    BY <1>10 DEF Store!RemoveUnconfirmed, Store!Return
  <2>2. Current' = Previous /\ Previous' = Previous
    BY <2>1, StoreAssumption DEF Current, Previous, Store!Valid
  <2>3. StageAt("idle", doc[p]) = "idle" /\ "idle" \in Store!Counters
    BY <1>1, StagesAre DEF Store!Counters
  <2>4. Shows(p, "idle")
    BY <2>1, <2>3, DocTyped, StagesGo
  <2>5. Stages[p] = "written"
    BY <1>4, <2>1, StageOf DEF Writing
  <2> QED BY <2>1, <2>2, <2>4, <2>5, ShowUndo DEF Simulated
<1> QED BY <1>2, <1>5, <1>6, <1>7, <1>8, <1>9, <1>10 DEF Store!Save

\* The steps of a load, in the register.
LEMMA LoadShown == ASSUME StoreInv, NEW p \in Opener, Store!Load(p) PROVE Simulated
<1>0. Counted(p) /\ Alone(p) /\ Store!TypeOK /\ Stored
  BY DEF StoreInv
<1>1. at[p] \in {"read", "preserve", "backup"} /\ doc[p] = Missing /\ ~ Store!Saving(p)
  BY <1>0 DEF Store!Load, Store!ReadTarget, Store!PreserveCorrupt, Store!LoadBackup, Counted, Store!Saving
<1>2. /\ at[p] # "idle" /\ {"read", "preserve", "backup", "restore"} \subseteq Store!Counters
      /\ \A c \in {"read", "preserve", "backup", "restore"} : StageAt(c, doc[p]) = "reading"
  BY <1>1, LoadsRead DEF Store!Counters
<1>3. ASSUME NEW c \in {"preserve", "backup", "restore"}, Store!Continue(p, c),
             Current' = Current, Previous' = Previous
      PROVE  Simulated
  <2>1. Store!Go(p, c) /\ UNCHANGED <<doc, outcome, committed, raced>>
    BY <1>3 DEF Store!Continue
  <2> QED BY <1>1, <1>2, <1>3, <2>1, ContinueShown
<1>4. CASE Store!ReadTarget(p)
  <2>1. UNCHANGED <<target, backup, kept, Current, Previous>>
    BY <1>4 DEF Store!ReadTarget, Store!files, Current, Previous, Store!Valid
  <2>2. CASE target \in StoredDocument /\ Store!Return(p, target)
    BY <1>1, <2>1, <2>2, ReturnShown DEF Current
  <2>3. CASE Store!Return(p, "failed")
    BY <1>2, <2>1, <2>3, ReturnShown
  <2>4. CASE Store!Continue(p, "backup") \/ Store!Continue(p, "preserve")
    BY <1>3, <2>1, <2>4
  <2> QED BY <1>4, <2>2, <2>3, <2>4 DEF Store!ReadTarget
<1>5. CASE Store!PreserveCorrupt(p)
  <2>1. CASE Store!Fails(p)
    BY <1>2, <2>1, FailsShown
  <2>2. CASE ~ Store!Fails(p)
    <3>1. /\ at[p] = "preserve" /\ target' = Missing /\ backup' = backup
          /\ Store!Continue(p, "backup")
      BY <1>5, <2>2 DEF Store!PreserveCorrupt
    <3>2. Previous' = Previous /\ Current' = Previous
      BY <3>1, StoreAssumption DEF Current, Previous, Store!Valid
    <3>3. CASE p \notin raced
      <4>1. Current = Previous
        BY <1>0, <1>1, <3>1, <3>3, StoreAssumption DEF Alone, Current, Previous
      <4> QED BY <1>3, <3>1, <3>2, <4>1
    <3>4. CASE p \in raced
      <4>1. Current' \in committed \cup {Missing}
        BY <1>0, <3>2 DEF Previous, Store!Valid, Stored
      <4>2. Store!Go(p, "backup") /\ UNCHANGED <<doc, outcome, committed, raced>>
        BY <3>1 DEF Store!Continue
      <4>3. Stages' = Stages
        BY <1>1, <1>2, <4>2, StagesStay
      <4>4. Stages[p] = "reading"
        BY <1>1, <1>2, StageOf
      <4> QED BY <3>2, <3>4, <4>1, <4>2, <4>3, <4>4, ShowRewind DEF Simulated
    <3> QED BY <3>3, <3>4
  <2> QED BY <2>1, <2>2
<1>6. CASE Store!LoadBackup(p)
  <2>1. UNCHANGED <<target, backup, kept, Current, Previous>> /\ at[p] = "backup"
    BY <1>6 DEF Store!LoadBackup, Store!files, Current, Previous, Store!Valid
  <2>2. CASE backup \notin StoredDocument /\ Store!Return(p, Missing)
    <3>1. p \notin raced => Missing = Current
      BY <1>0, <1>1, <2>1, <2>2 DEF Alone, Current, Store!Valid
    <3> QED BY <1>1, <2>1, <2>2, <3>1, ReturnShown
  <2>3. CASE Store!Return(p, "failed")
    BY <1>2, <2>1, <2>3, ReturnShown
  <2>4. CASE Store!Continue(p, "restore")
    BY <1>3, <2>1, <2>4
  <2> QED BY <1>6, <2>2, <2>3, <2>4 DEF Store!LoadBackup
<1> QED BY <1>4, <1>5, <1>6 DEF Store!Load

\* The steps that put the backup back, in the register.
LEMMA RestoreShown == ASSUME StoreInv, NEW p \in Opener, Store!Restore(p) PROVE Simulated
<1>0. Counted(p) /\ Undamaged(p) /\ Alone(p) /\ Store!TypeOK /\ Stored
  BY DEF StoreInv
<1>1. at[p] \in {"restore", "put", "revalidate"} /\ at[p] # "idle" /\ doc[p] \in StoredDocument \cup {Missing}
  BY <1>0 DEF Store!Restore, Store!CopyBackup, Store!PutBackup, Store!Revalidate, Store!TypeOK
<1>2. {"put", "revalidate"} \subseteq Store!Counters
  BY DEF Store!Counters
<1>3. /\ StageAt("restore", doc[p]) = StageAt("put", doc[p])
      /\ ~ Store!Saving(p) => \A c \in {"restore", "put", "revalidate"} : StageAt(c, doc[p]) = "reading"
      /\ Store!Saving(p) => StageAt("put", doc[p]) = "written" /\ StageAt("revalidate", doc[p]) = "undone"
  BY <1>1, StagesAre, LoadsRead DEF Store!Saving, Store!Counters
<1>4. CASE Store!Fails(p)
  BY <1>1, <1>4, FailsShown
<1>5. ASSUME Store!CopyBackup(p), ~ Store!Fails(p) PROVE Simulated
  <2>1. /\ Store!Go(p, "put") /\ Current' = Current /\ Previous' = Previous
        /\ UNCHANGED <<doc, outcome, committed, raced>> /\ at[p] = "restore"
    BY <1>5 DEF Store!CopyBackup, Store!files, Current, Previous, Store!Valid
  <2> QED BY <1>2, <1>3, <2>1, ContinueShown
<1>6. ASSUME Store!PutBackup(p), ~ Store!Fails(p) PROVE Simulated
  <2>1. /\ Store!Go(p, "revalidate") /\ at[p] = "put" /\ target' = copy[p] /\ backup' = backup
        /\ UNCHANGED <<doc, outcome, committed, raced>>
    BY <1>6 DEF Store!PutBackup, Store!Continue
  <2>2. copy[p] \in committed /\ copy[p] \in StoredDocument
    BY <1>0, <2>1 DEF Counted, Store!TypeOK
  <2>3. Current' = copy[p] /\ Previous' = Previous
    BY <2>1, <2>2 DEF Current, Previous, Store!Valid
  <2>4. Stages[p] = StageAt("put", doc[p]) /\ Shows(p, StageAt("revalidate", doc[p]))
    BY <1>2, <2>1, StageOf, DocTyped, StagesGo
  <2>5. CASE Store!Saving(p)
    <3>1. Current' = Previous
      BY <1>0, <2>1, <2>2, <2>3, <2>5 DEF Undamaged, Looked, Previous, Store!Valid
    <3> QED BY <1>3, <2>1, <2>3, <2>4, <2>5, <3>1, ShowUndo DEF Simulated
  <2>6. CASE ~ Store!Saving(p)
    <3>1. Stages' = Stages /\ Stages[p] = "reading"
      BY <1>2, <1>3, <2>1, <2>4, <2>6, StagesStay
    <3>2. CASE p \in raced
      BY <2>1, <2>2, <2>3, <3>1, <3>2, ShowRewind DEF Simulated
    <3>3. CASE p \notin raced
      <4>1. Current' = Current
        BY <1>0, <2>1, <2>2, <2>3, <2>6, <3>3 DEF Alone, Current, Store!Valid
      <4> QED BY <1>2, <1>3, <2>1, <2>3, <2>6, <4>1, ContinueShown
    <3> QED BY <3>2, <3>3
  <2> QED BY <2>5, <2>6
<1>7. ASSUME Store!Revalidate(p), ~ Store!Fails(p) PROVE Simulated
  <2>1. /\ at[p] = "revalidate" /\ target \in StoredDocument /\ UNCHANGED <<target, backup, kept>>
        /\ Store!Return(p, IF Store!Saving(p) THEN "failed" ELSE copy[p])
    BY <1>7 DEF Store!Revalidate, Store!files
  <2>2. CASE Store!Saving(p)
    BY <1>1, <2>1, <2>2, ReturnShown
  <2>3. CASE ~ Store!Saving(p)
    <3>1. copy[p] \in committed /\ copy[p] \in StoredDocument
      BY <1>0, <2>1 DEF Counted, Store!TypeOK
    <3>2. p \notin raced => copy[p] = Current
      BY <1>0, <2>1, <2>3 DEF Alone, Current
    <3> QED BY <1>1, <2>1, <2>3, <3>1, <3>2, ReturnShown
  <2> QED BY <2>2, <2>3
<1> QED BY <1>4, <1>5, <1>6, <1>7 DEF Store!Restore

\* Damaged files, in the register.
LEMMA DamageShown == ASSUME StoreInv, Store!DamageFile PROVE Simulated
<1>1. Store!Busy = {} /\ UNCHANGED <<at, doc, outcome, committed, raced>>
  BY DEF Store!DamageFile
<1>2. Current' \in {Current, Previous, Missing} /\ Previous' \in {Previous, Missing}
  BY StoreAssumption DEF Store!DamageFile, Current, Previous, Store!Valid
<1>3. Stages' = Stages
  BY <1>1 DEF Stages, Store!Stage, Store!Saving
<1> QED BY <1>1, <1>2, <1>3, ShowDamage DEF Simulated

\* Every step of the store is a step of the register, or none.
LEMMA StoreStepShown == ASSUME StoreInv, StoreStep PROVE Simulated
<1>1. \A p \in Opener : Store!Crash(p) => at[p] # "idle"
  BY DEF Store!Crash
<1> QED BY <1>1, BeginShown, SaveShown, LoadShown, RestoreShown, FailsShown, DamageShown DEF StoreStep

\* Only preserve_corrupt_target takes the name of a document that does not parse.
LEMMA CorruptStays ==
  ASSUME StoreInv, StoreStep, target = Corrupt, target' # Corrupt
  PROVE  kept' = kept + 1
<1>1. \A p \in Opener : at[p] \notin Looked
  BY DEF StoreInv, Undamaged
<1>2. ASSUME NEW p \in Opener, Store!Save(p) PROVE target' = target
  BY <1>1, <1>2, StoreAssumption DEF Looked, Store!Save, Store!WriteTemporary, Store!ReadExisting,
       Store!ReplaceMovesOld, Store!Install, Store!Validate, Store!RemoveUnconfirmed, Store!Fails,
       Store!files
<1>3. ASSUME NEW p \in Opener, Store!Load(p) PROVE target' = target \/ kept' = kept + 1
  BY <1>3 DEF Store!Load, Store!ReadTarget, Store!PreserveCorrupt, Store!LoadBackup, Store!Fails, Store!files
<1>4. ASSUME NEW p \in Opener, Store!Restore(p) PROVE target' = target
  BY <1>1, <1>4 DEF Looked, Store!Restore, Store!CopyBackup, Store!PutBackup, Store!Revalidate,
       Store!Fails, Store!files
<1>5. Store!DamageFile => target' = target
  BY StoreAssumption DEF Store!DamageFile
<1> QED BY <1>2, <1>3, <1>4, <1>5 DEF StoreStep, Store!BeginSave, Store!BeginLoad, Store!Crash, Store!files

\* store.rs: whatever the interleaving of one process's saves and loads with the loads of others,
\* whatever dies or fails at any file operation, and whatever damage the files take at rest, the
\* document and its backup are a register that no failed step empties, and a document that does
\* not parse is moved aside before anything takes its name.
THEOREM StoreIsARegister == Spec => StoreKeeps
<1>1. Init => StoreInv
  BY StoreInit DEF Init
<1>2. ASSUME StoreInv, [Next]_vars PROVE StoreInv' /\ Simulated /\ [target = Corrupt /\ target' # Corrupt => kept' = kept + 1]_(Store!vars)
  <2>1. CASE StoreStep
    BY <1>2, <2>1, StoreStepKeeps, StoreStepShown, CorruptStays
  <2>2. CASE (Next /\ ~ StoreStep) \/ UNCHANGED vars
    <3>1. UNCHANGED storeVars
      BY <2>2 DEF Next, vars, AlertsStep, ConfigStep, AuthStep, CodexStep, RequestStep, LogStep,
                  CheckStep, UsageStep, VerdictStep, InAlerts, InConfig, InAuth, InCodex,
                  InRequest, InLog, InCheck, InUsage, InVerdict
    <3>2. StoreInv'
      BY <1>2, <3>1 DEF StoreInv, Store!TypeOK, Stored, Counted, Undamaged, Alone, Store!Saving, storeVars
    <3>3. Shown' = Shown
      BY <3>1 DEF storeVars, Shown, Current, Previous, Stages, Store!Valid, Store!Stage, Store!Saving
    <3>4. UNCHANGED Store!vars
      BY <3>1 DEF storeVars, Store!vars
    <3> QED BY <3>2, <3>3, <3>4, StutterShown DEF Simulated
  <2> QED BY <1>2, <2>1, <2>2
<1>3. StoreInv => (part = "store" => Store!TypeOK)
  BY DEF StoreInv
<1>4. Init => Store!Register!Init
  <2> SUFFICES ASSUME Init PROVE Store!Register!Init
    OBVIOUS
  <2>1. Store!Valid(Missing) = Missing
    BY DEF Store!Valid
  <2>2. \A p \in Opener : Store!Stage(p) = "idle"
    BY DEF Init, Store!Init, Store!Stage
  <2> QED BY StoreAssumption, <2>1, <2>2 DEF Init, Store!Init, Store!Register!Init
<1>5. StoreInv /\ [Next]_vars => [part = "store" => Simulated]_vars
  BY <1>2
<1> QED BY <1>1, <1>2, <1>3, <1>4, <1>5, PTL DEF Spec, StoreKeeps, Store!CorruptIsKept, Simulated

-----------------------------------------------------------------------------
\* A copy that reports no failure is what the file says.
Faithful(st, file) ==
    st.status \notin Config!Failures =>
        \/ /\ Config!IsDocument(file)
           /\ st.raw = file
           /\ st.settings = Config!DecodedSettings(file, TRUE)
        \/ /\ file = Missing
           /\ st.raw = Config!EmptyRaw
           /\ st.settings = Config!DecodedSettings(Config!EmptyRaw, FALSE)

\* The inductive invariant: what is stated, of well-typed copies.
ConfigInv == Config!TypeOK /\ Config!MemoryIsDisk

\* What decoded() makes of a document has its type.
LEMMA DecodedTyped ==
  ASSUME NEW d \in Config!AnyDocument, NEW existing \in BOOLEAN
  PROVE  Config!DecodedSettings(d, existing) \in Config!SettingsV1
<1> DEFINE n == Config!Preferred(d.poll, Config!Preferred(d.legacyPoll, DefaultPoll))
<1>1. n \in Int
  BY SettingsAssumption DEF Config!Preferred, Config!AnyDocument, Config!DocumentsWith
<1>2. Config!Clamp(n) \in MinPoll..MaxPoll
  <2> HIDE DEF n
  <2> QED BY <1>1, SettingsAssumption DEF Config!Clamp
<1>3. Config!Preferred(d.checks, existing) \in BOOLEAN
  BY DEF Config!Preferred, Config!AnyDocument, Config!DocumentsWith
<1> QED BY <1>2, <1>3 DEF Config!DecodedSettings, Config!SettingsV1

\* What is written over a document is a document again.
LEMMA EncodedTyped ==
  ASSUME NEW d \in Config!AnyDocument, NEW s \in Config!SettingsV1
  PROVE  /\ Config!Encoded(d, s) \in Config!AnyDocument
         /\ Config!IsDocument(Config!Encoded(d, s))
         /\ Config!DecodedSettings(Config!Encoded(d, s), TRUE) = s
<1>1. s.poll \in MinPoll..MaxPoll /\ s.checks \in BOOLEAN /\ s.poll # None /\ s.checks # None
      /\ s = [poll |-> s.poll, checks |-> s.checks] /\ s.poll \in Int
  BY SettingsAssumption DEF Config!SettingsV1
<1>2. Config!Encoded(d, s) \in Config!AnyDocument
  BY <1>1 DEF Config!Encoded, Config!AnyDocument, Config!DocumentsWith
<1>3. Config!IsDocument(Config!Encoded(d, s))
  BY <1>2, SettingsAssumption DEF Config!IsDocument
<1>4. Config!Clamp(s.poll) = s.poll
  BY <1>1, SettingsAssumption DEF Config!Clamp
<1>5. Config!DecodedSettings(Config!Encoded(d, s), TRUE) = [poll |-> s.poll, checks |-> s.checks]
  BY <1>1, <1>4 DEF Config!DecodedSettings, Config!Encoded, Config!Preferred
<1> QED BY <1>1, <1>2, <1>3, <1>5

\* A copy that has been decoded shows what was decoded.
LEMMA StateTyped ==
  ASSUME NEW d \in Config!AnyDocument, NEW source \in Config!ConfigStatus, NEW existed \in BOOLEAN,
         NEW existing \in BOOLEAN
  PROVE  LET st == Config!Decoded(d, source, existed, existing)
         IN  /\ st \in Config!ConfigState /\ st.raw = d /\ st.settings = Config!DecodedSettings(d, existing)
             /\ st.status = IF Config!AccessOf(d) = "Writable" THEN source ELSE Config!AccessOf(d)
<1> DEFINE s == Config!DecodedSettings(d, existing)
           a == Config!AccessOf(d)
           x == Config!StatusForAccess(d, source)
           w == IF existed /\ Config!AccessOf(d) = "Writable" /\ Config!NeedsMigration(d, s)
                THEN IF source = "RecoveredFromBackup" THEN "RecoveredAndMigrated" ELSE "MigratedLegacy"
                ELSE None
<1>1. s \in Config!SettingsV1
  BY DecodedTyped
<1>2. a \in {"Writable", "FutureSchema", "InvalidSchema"}
  BY DEF Config!AccessOf, Config!AnyDocument, Config!DocumentsWith
<1>3. x = (IF a = "Writable" THEN source ELSE a) /\ x \in Config!ConfigStatus
  BY <1>2 DEF Config!StatusForAccess, Config!ConfigStatus
<1>4. w \in {None, "MigratedLegacy", "RecoveredAndMigrated"}
  OBVIOUS
<1>5. Config!Decoded(d, source, existed, existing) = [settings |-> s, raw |-> d, access |-> a, status |-> x, pending |-> w]
  BY DEF Config!Decoded
<1> HIDE DEF s, a, x, w
<1>6. [settings |-> s, raw |-> d, access |-> a, status |-> x, pending |-> w] \in Config!ConfigState
  BY <1>1, <1>2, <1>3, <1>4 DEF Config!ConfigState
<1> QED BY <1>3, <1>5, <1>6 DEF s, a

\* The empty document may be written.
LEMMA EmptyTyped == Config!EmptyRaw \in Config!AnyDocument /\ Config!AccessOf(Config!EmptyRaw) = "Writable"
<1>1. Config!EmptyRaw \in Config!AnyDocument
  BY DEF Config!EmptyRaw, Config!AnyDocument, Config!DocumentsWith
<1>2. Config!EmptyRaw.schema = None
  BY DEF Config!EmptyRaw
<1> HIDE DEF Config!EmptyRaw
<1>3. Config!AccessOf(Config!EmptyRaw) = "Writable"
  BY <1>2, SettingsAssumption DEF Config!AccessOf
<1> QED BY <1>1, <1>3

\* A process that has no settings path.
LEMMA NoStateTyped == Config!NoState \in Config!ConfigState /\ Config!NoState.status = "PathUnavailable"
<1> DEFINE st == Config!Decoded(Config!EmptyRaw, "PathUnavailable", FALSE, FALSE)
<1>1. "PathUnavailable" \in Config!ConfigStatus
  BY DEF Config!ConfigStatus, Config!Failures
<1>2. st \in Config!ConfigState /\ st.status = "PathUnavailable"
  BY <1>1, EmptyTyped, StateTyped
<1>3. Config!NoState = [st EXCEPT !.access = "Writable"]
  BY DEF Config!NoState
<1> HIDE DEF st
<1> QED BY <1>2, <1>3 DEF Config!ConfigState

\* What a start finds is what the file says, or reports that it could not be read.
LEMMA FoundTyped ==
  ASSUME Config!TypeOK, NEW st \in Config!Found
  PROVE  /\ st \in Config!ConfigState /\ Faithful(st, settings)
         /\ st.status = "CorruptDefaults" => settings = Corrupt /\ settings # Missing
<1>0. {"Ready", "RecoveredFromBackup", "CorruptDefaults", "ReadFailed"} \subseteq Config!ConfigStatus
      /\ "ReadFailed" \in Config!Failures /\ "CorruptDefaults" \in Config!Failures
  BY DEF Config!ConfigStatus, Config!Failures
<1>1. CASE \E source \in {"Ready", "RecoveredFromBackup"} :
             Config!IsDocument(settings) /\ st = Config!Decoded(settings, source, TRUE, TRUE)
  <2>1. PICK source \in {"Ready", "RecoveredFromBackup"} :
             Config!IsDocument(settings) /\ st = Config!Decoded(settings, source, TRUE, TRUE)
    BY <1>1
  <2>2. settings \in Config!AnyDocument
    BY <2>1 DEF Config!TypeOK
  <2>3. /\ st \in Config!ConfigState /\ st.raw = settings /\ st.settings = Config!DecodedSettings(settings, TRUE)
        /\ st.status = IF Config!AccessOf(settings) = "Writable" THEN source ELSE Config!AccessOf(settings)
    BY <1>0, <2>1, <2>2, StateTyped
  <2>4. Config!AccessOf(settings) # "CorruptDefaults"
    BY <2>2 DEF Config!AccessOf, Config!AnyDocument, Config!DocumentsWith
  <2> QED BY <2>1, <2>3, <2>4 DEF Faithful
<1>2. CASE settings = Missing /\ st = Config!Decoded(Config!EmptyRaw, "Ready", FALSE, FALSE)
  <2>1. /\ st \in Config!ConfigState /\ st.raw = Config!EmptyRaw
        /\ st.settings = Config!DecodedSettings(Config!EmptyRaw, FALSE) /\ st.status = "Ready"
    BY <1>0, <1>2, EmptyTyped, StateTyped
  <2> QED BY <1>2, <2>1 DEF Faithful
<1>3. CASE ~ Config!IsDocument(settings) /\ settings # Missing
           /\ st = Config!Decoded(Config!EmptyRaw, "CorruptDefaults", FALSE, TRUE)
  <2>1. st \in Config!ConfigState /\ st.status = "CorruptDefaults"
    BY <1>0, <1>3, EmptyTyped, StateTyped
  <2> QED BY <1>0, <1>3, <2>1 DEF Faithful, Config!IsDocument
<1>4. CASE st = Config!Decoded(Config!EmptyRaw, "ReadFailed", FALSE, TRUE)
  <2>1. st \in Config!ConfigState /\ st.status = "ReadFailed"
    BY <1>0, <1>4, EmptyTyped, StateTyped
  <2> QED BY <1>0, <2>1 DEF Faithful
<1> QED BY <1>1, <1>2, <1>3, <1>4 DEF Config!Found

\* A step of one process: when it changes the file, the copies of the others are overtaken.
LEMMA ProcessStep ==
  ASSUME ConfigInv, NEW p \in Process,
         Config!IsDocument(settings') => settings' \in Config!AnyDocument,
         edits' = edits,
         stage' \in [Process -> {"down", "starting", "running"}],
         backend' \in [Process -> {"store", "unavailable"}],
         state' \in [Process -> Config!ConfigState],
         behind' \subseteq Process,
         \A q \in Process : q # p => state'[q] = state[q] /\ stage'[q] = stage[q]
                                     /\ (q \in behind => q \in behind'),
         \/ settings' = settings
         \/ \A q \in Process : q # p => q \in behind'
         \/ settings = Corrupt /\ settings' = Missing,
         stage'[p] # "down" /\ p \notin behind' => Faithful(state'[p], settings')
  PROVE  ConfigInv'
<1>1. Config!TypeOK'
  BY DEF ConfigInv, Config!TypeOK
<1>2. \A q \in Process : stage[q] # "down" /\ q \notin behind => Faithful(state[q], settings)
  BY DEF ConfigInv, Config!MemoryIsDisk, Faithful
<1>3. ASSUME NEW q \in Process, stage'[q] # "down", q \notin behind'
      PROVE  Faithful(state'[q], settings')
  <2>1. CASE q = p
    BY <1>3, <2>1
  <2>2. CASE q # p
    <3>1. state'[q] = state[q] /\ stage[q] # "down" /\ q \notin behind /\ Faithful(state[q], settings)
      BY <1>2, <1>3, <2>2
    <3>2. CASE settings' = settings
      BY <3>1, <3>2
    <3>3. CASE settings = Corrupt /\ settings' = Missing
      BY <3>1, <3>3 DEF Faithful, Config!IsDocument
    <3> QED BY <1>3, <2>2, <3>2, <3>3
  <2> QED BY <2>1, <2>2
<1>4. Config!MemoryIsDisk'
  BY <1>3 DEF Config!MemoryIsDisk, Faithful
<1> QED BY <1>1, <1>4 DEF ConfigInv

\* One save: what the others hold is overtaken when it changes the file.
LEMMA Saved ==
  ASSUME ConfigInv, NEW p \in Process, NEW d \in Config!AnyDocument, NEW ok \in BOOLEAN, Config!Save(p, d, ok)
  PROVE  /\ settings' = settings \/ settings' = d
         /\ ok => settings' = d
         /\ Config!IsDocument(settings') => settings' \in Config!AnyDocument
         /\ behind' \subseteq Process
         /\ \A q \in Process : q # p /\ q \in behind => q \in behind'
         /\ settings' = settings \/ \A q \in Process : q # p => q \in behind'
BY DEF Config!Save, ConfigInv, Config!TypeOK

\* persist_current, of a copy just read or of one held since the start.
LEMMA Migrated ==
  ASSUME ConfigInv, NEW p \in Process, NEW st \in Config!ConfigState, st.pending # None, NEW late \in BOOLEAN,
         Config!Migrate(p, st, late), edits' = edits,
         stage' \in [Process -> {"down", "starting", "running"}],
         backend' \in [Process -> {"store", "unavailable"}],
         \A q \in Process : q # p => stage'[q] = stage[q]
  PROVE  ConfigInv'
<1> DEFINE d == Config!Encoded(st.raw, st.settings)
<1>0. st.raw \in Config!AnyDocument /\ st.settings \in Config!SettingsV1
      /\ st.pending \in {"MigratedLegacy", "RecoveredAndMigrated"}
      /\ state \in [Process -> Config!ConfigState]
  BY DEF Config!ConfigState, ConfigInv, Config!TypeOK
<1>1. d \in Config!AnyDocument /\ Config!IsDocument(d) /\ Config!DecodedSettings(d, TRUE) = st.settings
  BY <1>0, EncodedTyped
<1>2. PICK ok \in BOOLEAN :
          /\ Config!Save(p, d, ok)
          /\ state' = [state EXCEPT ![p] =
                   IF ok THEN [st EXCEPT !.raw = d, !.status = st.pending, !.pending = None]
                   ELSE [st EXCEPT !.status = "WriteFailed",
                                   !.pending = IF late THEN @ ELSE None]]
  BY DEF Config!Migrate
<1> HIDE DEF d
<1>3. CASE ok
  <2> DEFINE s == [st EXCEPT !.raw = d, !.status = st.pending, !.pending = None]
  <2>1. st.pending \in Config!ConfigStatus
    BY <1>0 DEF Config!ConfigStatus
  <2>2. s \in Config!ConfigState /\ s.raw = d /\ s.settings = st.settings
    BY <1>1, <2>1 DEF Config!ConfigState
  <2>3. state' = [state EXCEPT ![p] = s]
    BY <1>2, <1>3
  <2> HIDE DEF s
  <2>4. state' \in [Process -> Config!ConfigState] /\ state'[p] = s /\ \A q \in Process : q # p => state'[q] = state[q]
    BY <1>0, <2>2, <2>3
  <2>5. Faithful(state'[p], settings')
    BY <1>1, <1>2, <1>3, <2>2, <2>4, Saved DEF Faithful
  <2> QED BY <1>1, <1>2, <2>4, <2>5, Saved, ProcessStep
<1>4. CASE ~ ok
  <2> DEFINE w == IF late THEN st.pending ELSE None
             s == [st EXCEPT !.status = "WriteFailed", !.pending = w]
  <2>1. w \in {None, "MigratedLegacy", "RecoveredAndMigrated"} /\ "WriteFailed" \in Config!ConfigStatus
        /\ "WriteFailed" \in Config!Failures
    BY <1>0 DEF Config!ConfigStatus, Config!Failures
  <2>2. s \in Config!ConfigState /\ s.status = "WriteFailed"
    <3> HIDE DEF w
    <3> QED BY <2>1 DEF Config!ConfigState
  <2>3. state' = [state EXCEPT ![p] = s]
    BY <1>2, <1>4
  <2> HIDE DEF s
  <2>4. state' \in [Process -> Config!ConfigState] /\ state'[p] = s /\ \A q \in Process : q # p => state'[q] = state[q]
    BY <1>0, <2>2, <2>3
  <2>5. Faithful(state'[p], settings')
    BY <2>1, <2>2, <2>4 DEF Faithful
  <2> QED BY <1>1, <1>2, <2>4, <2>5, Saved, ProcessStep
<1> QED BY <1>3, <1>4

\* save_settings and update_raw.
LEMMA Updated ==
  ASSUME ConfigInv, NEW p \in Process, NEW d \in Config!AnyDocument, NEW s \in Config!SettingsV1,
         Config!Update(p, d, s)
  PROVE  ConfigInv'
<1> DEFINE e == Config!Encoded(d, s)
<1>0. state \in [Process -> Config!ConfigState] /\ state[p] \in Config!ConfigState
      /\ stage \in [Process -> {"down", "starting", "running"}]
      /\ backend \in [Process -> {"store", "unavailable"}]
  BY DEF ConfigInv, Config!TypeOK
<1>1. e \in Config!AnyDocument /\ Config!IsDocument(e) /\ Config!DecodedSettings(e, TRUE) = s
  BY EncodedTyped
<1>2. PICK ok \in BOOLEAN :
        /\ Config!Save(p, e, ok)
        /\ state' = [state EXCEPT ![p] =
               IF ok THEN [@ EXCEPT !.settings = s, !.raw = e, !.status = "Ready"]
               ELSE [@ EXCEPT !.status = "WriteFailed"]]
        /\ UNCHANGED <<edits, stage, backend>>
  BY DEF Config!Update
<1>s. {"Ready", "WriteFailed"} \subseteq Config!ConfigStatus /\ "WriteFailed" \in Config!Failures
  BY DEF Config!ConfigStatus, Config!Failures
<1> HIDE DEF e
<1>3. CASE ok
  <2> DEFINE t == [state[p] EXCEPT !.settings = s, !.raw = e, !.status = "Ready"]
  <2>2. t \in Config!ConfigState /\ t.raw = e /\ t.settings = s
    BY <1>0, <1>1, <1>s DEF Config!ConfigState
  <2>3. state' = [state EXCEPT ![p] = t]
    BY <1>2, <1>3
  <2> HIDE DEF t
  <2>4. state' \in [Process -> Config!ConfigState] /\ state'[p] = t /\ \A q \in Process : q # p => state'[q] = state[q]
    BY <1>0, <2>2, <2>3
  <2>5. Faithful(state'[p], settings')
    BY <1>1, <1>2, <1>3, <2>2, <2>4, Saved DEF Faithful
  <2> QED BY <1>0, <1>1, <1>2, <2>4, <2>5, Saved, ProcessStep
<1>4. CASE ~ ok
  <2> DEFINE t == [state[p] EXCEPT !.status = "WriteFailed"]
  <2>2. t \in Config!ConfigState /\ t.status = "WriteFailed"
    BY <1>0, <1>s DEF Config!ConfigState
  <2>3. state' = [state EXCEPT ![p] = t]
    BY <1>2, <1>4
  <2> HIDE DEF t
  <2>4. state' \in [Process -> Config!ConfigState] /\ state'[p] = t /\ \A q \in Process : q # p => state'[q] = state[q]
    BY <1>0, <2>2, <2>3
  <2>5. Faithful(state'[p], settings')
    BY <1>s, <2>2, <2>4 DEF Faithful
  <2> QED BY <1>0, <1>1, <1>2, <2>4, <2>5, Saved, ProcessStep
<1> QED BY <1>3, <1>4

\* initialize, initialize_compatibility and initialize_read_only.
LEMMA Started ==
  ASSUME ConfigInv, NEW p \in Process,
         (\E allow \in BOOLEAN : Config!Initialize(p, allow)) \/ Config!InitializeReadOnly(p)
  PROVE  ConfigInv'
<1>0. /\ state \in [Process -> Config!ConfigState] /\ Config!TypeOK
      /\ stage \in [Process -> {"down", "starting", "running"}]
      /\ backend \in [Process -> {"store", "unavailable"}]
      /\ behind \subseteq Process
  BY DEF ConfigInv, Config!TypeOK
<1>1. CASE \E allow \in BOOLEAN : Config!Initialize(p, allow)
  <2>1. /\ stage' \in [Process -> {"down", "starting", "running"}]
        /\ backend' \in [Process -> {"store", "unavailable"}] /\ edits' = edits
        /\ \A q \in Process : q # p => stage'[q] = stage[q]
    BY <1>0, <1>1 DEF Config!Initialize
  <2>2. PICK allow \in BOOLEAN, st \in Config!Found :
           IF allow /\ st.pending # None
           THEN Config!Migrate(p, st, FALSE)
           ELSE /\ state' = [state EXCEPT ![p] = st]
                /\ settings' = IF st.status = "CorruptDefaults" THEN Missing ELSE settings
                /\ behind' = behind \ {p}
    BY <1>1 DEF Config!Initialize
  <2>3. /\ st \in Config!ConfigState /\ Faithful(st, settings)
        /\ st.status = "CorruptDefaults" => settings = Corrupt /\ settings # Missing
    BY <1>0, FoundTyped
  <2>4. CASE allow /\ st.pending # None
    BY <2>1, <2>2, <2>3, <2>4, Migrated
  <2>5. CASE ~ (allow /\ st.pending # None)
    <3>1. /\ state' \in [Process -> Config!ConfigState] /\ state'[p] = st
          /\ \A q \in Process : q # p => state'[q] = state[q]
      BY <1>0, <2>2, <2>3, <2>5
    <3>2. /\ behind' \subseteq Process /\ \A q \in Process : q # p /\ q \in behind => q \in behind'
      BY <1>0, <2>2, <2>5
    <3>3. settings' = settings \/ (settings = Corrupt /\ settings' = Missing /\ st.status = "CorruptDefaults")
      BY <2>2, <2>3, <2>5
    <3>4. Config!IsDocument(settings') => settings' \in Config!AnyDocument
      BY <1>0, <3>3 DEF Config!TypeOK, Config!IsDocument
    <3>5. Faithful(state'[p], settings')
      BY <2>3, <3>1, <3>3 DEF Faithful, Config!Failures
    <3> QED BY <2>1, <3>1, <3>2, <3>3, <3>4, <3>5, ProcessStep
  <2> QED BY <2>4, <2>5
<1>2. CASE Config!InitializeReadOnly(p)
  <2>1. /\ stage' \in [Process -> {"down", "starting", "running"}] /\ UNCHANGED <<settings, edits, backend>>
        /\ \A q \in Process : q # p => stage'[q] = stage[q]
        /\ behind' = behind \ {p}
    BY <1>0, <1>2 DEF Config!InitializeReadOnly
  <2>2. PICK st \in Config!Found \cup {Config!NoState} :
          state' = [state EXCEPT ![p] =
               [st EXCEPT !.pending = None,
                          !.status = IF @ = "ReadFailed" THEN "PathUnavailable" ELSE @]]
    BY <1>2 DEF Config!InitializeReadOnly
  <2> DEFINE x == IF st.status = "ReadFailed" THEN "PathUnavailable" ELSE st.status
             s == [st EXCEPT !.pending = None, !.status = x]
  <2>3. st \in Config!ConfigState /\ Faithful(st, settings)
    BY <1>0, <2>2, FoundTyped, NoStateTyped DEF Faithful, Config!Failures
  <2>4. x \in Config!ConfigStatus /\ (x \notin Config!Failures => st.status \notin Config!Failures)
    BY <2>3 DEF Config!ConfigState, Config!ConfigStatus, Config!Failures
  <2>5. s \in Config!ConfigState /\ s.status = x /\ s.raw = st.raw /\ s.settings = st.settings
    <3> HIDE DEF x
    <3> QED BY <2>3, <2>4 DEF Config!ConfigState
  <2>6. state' = [state EXCEPT ![p] = s]
    BY <2>2
  <2> HIDE DEF s, x
  <2>7. /\ state' \in [Process -> Config!ConfigState] /\ state'[p] = s
        /\ \A q \in Process : q # p => state'[q] = state[q]
    BY <1>0, <2>5, <2>6
  <2>8. Faithful(state'[p], settings')
    BY <2>1, <2>3, <2>4, <2>5, <2>7 DEF Faithful
  <2>9. Config!IsDocument(settings') => settings' \in Config!AnyDocument
    BY <1>0, <2>1 DEF Config!TypeOK
  <2> QED BY <1>0, <2>1, <2>7, <2>8, <2>9, ProcessStep
<1> QED BY <1>1, <1>2

\* A migration that is written, or fails to be.
LEMMA Committed ==
  ASSUME ConfigInv, NEW p \in Process, Config!CommitPendingMigration(p)
  PROVE  ConfigInv'
<1>0. /\ state \in [Process -> Config!ConfigState] /\ Config!TypeOK /\ state[p] \in Config!ConfigState
      /\ stage \in [Process -> {"down", "starting", "running"}]
      /\ backend \in [Process -> {"store", "unavailable"}]
      /\ behind \subseteq Process
  BY DEF ConfigInv, Config!TypeOK
<1>1. /\ stage' \in [Process -> {"down", "starting", "running"}]
      /\ UNCHANGED <<edits, backend>> /\ stage[p] = "starting"
      /\ \A q \in Process : q # p => stage'[q] = stage[q]
  BY <1>0 DEF Config!CommitPendingMigration
<1>2. CASE state[p].pending # None
  <2>1. Config!Migrate(p, state[p], TRUE)
    BY <1>2 DEF Config!CommitPendingMigration
  <2> QED BY <1>0, <1>1, <1>2, <2>1, Migrated
<1>3. CASE state[p].pending = None
  <2>1. UNCHANGED <<settings, state, behind>>
    BY <1>3 DEF Config!CommitPendingMigration
  <2>2. p \notin behind => Faithful(state[p], settings)
    BY <1>1 DEF ConfigInv, Config!MemoryIsDisk, Faithful
  <2>3. Config!IsDocument(settings') => settings' \in Config!AnyDocument
    BY <1>0, <2>1 DEF Config!TypeOK
  <2> QED BY <1>0, <1>1, <2>1, <2>2, <2>3, ProcessStep
<1> QED BY <1>2, <1>3

\* The setters, which write the copy of the process back.
LEMMA PreferenceSet ==
  ASSUME ConfigInv, NEW p \in Process,
         \/ Config!SetPollInterval(p) \/ Config!SetUpdateChecks(p)
         \/ Config!SaveAlertReceipts(p) \/ Config!ClearLegacyLid(p)
  PROVE  ConfigInv'
<1> DEFINE s == state[p].settings
           d == state[p].raw
<1>0. s \in Config!SettingsV1 /\ d \in Config!AnyDocument
  BY DEF ConfigInv, Config!TypeOK, Config!ConfigState
<1>1. CASE Config!SetPollInterval(p)
  <2>1. PICK n \in Polls : Config!Update(p, d, [s EXCEPT !.poll = Config!Clamp(n)])
    BY <1>1 DEF Config!SetPollInterval
  <2>2. Config!Clamp(n) \in MinPoll..MaxPoll
    BY SettingsAssumption DEF Config!Clamp
  <2>3. [s EXCEPT !.poll = Config!Clamp(n)] \in Config!SettingsV1
    BY <1>0, <2>2 DEF Config!SettingsV1
  <2> HIDE DEF s, d
  <2> QED BY <1>0, <2>1, <2>3, Updated
<1>2. CASE Config!SetUpdateChecks(p)
  <2>1. PICK b \in BOOLEAN : Config!Update(p, d, [s EXCEPT !.checks = b])
    BY <1>2 DEF Config!SetUpdateChecks
  <2>3. [s EXCEPT !.checks = b] \in Config!SettingsV1
    BY <1>0 DEF Config!SettingsV1
  <2> HIDE DEF s, d
  <2> QED BY <1>0, <2>1, <2>3, Updated
<1>3. CASE Config!SaveAlertReceipts(p) \/ Config!ClearLegacyLid(p)
  <2>1. \E e \in Config!AnyDocument : Config!Update(p, e, s)
    <3>1. CASE Config!SaveAlertReceipts(p)
      <4>1. [d EXCEPT !.keys = @ \cup {Config!AlertedKey}] \in Config!AnyDocument
        BY <1>0 DEF Config!AnyDocument, Config!DocumentsWith
      <4>2. Config!Update(p, [d EXCEPT !.keys = @ \cup {Config!AlertedKey}], s)
        BY <3>1 DEF Config!SaveAlertReceipts
      <4> QED BY <4>1, <4>2
    <3>2. CASE Config!ClearLegacyLid(p)
      <4>1. [d EXCEPT !.keys = @ \ {Config!LidKey}] \in Config!AnyDocument
        BY <1>0 DEF Config!AnyDocument, Config!DocumentsWith
      <4>2. Config!Update(p, [d EXCEPT !.keys = @ \ {Config!LidKey}], s)
        BY <3>2 DEF Config!ClearLegacyLid
      <4> QED BY <4>1, <4>2
    <3> QED BY <1>3, <3>1, <3>2
  <2> QED BY <1>0, <2>1, Updated
<1> QED BY <1>1, <1>2, <1>3

\* A process that ends, and a file another program edits.
LEMMA Stopped ==
  ASSUME ConfigInv, (\E p \in Process : Config!Stop(p)) \/ Config!Edit
  PROVE  ConfigInv'
<1>0. /\ state \in [Process -> Config!ConfigState] /\ Config!TypeOK
      /\ stage \in [Process -> {"down", "starting", "running"}]
      /\ backend \in [Process -> {"store", "unavailable"}]
      /\ behind \subseteq Process
  BY DEF ConfigInv, Config!TypeOK
<1>1. CASE \E p \in Process : Config!Stop(p)
  <2>1. PICK p \in Process : Config!Stop(p)
    BY <1>1
  <2>2. /\ stage' \in [Process -> {"down", "starting", "running"}] /\ stage'[p] = "down"
        /\ backend' \in [Process -> {"store", "unavailable"}]
        /\ state' \in [Process -> Config!ConfigState]
        /\ \A q \in Process : q # p => state'[q] = state[q] /\ stage'[q] = stage[q]
    BY <1>0, <2>1, NoStateTyped DEF Config!Stop
  <2>3. UNCHANGED <<settings, edits>> /\ behind' = behind \ {p}
    BY <2>1 DEF Config!Stop
  <2>4. Config!IsDocument(settings') => settings' \in Config!AnyDocument
    BY <1>0, <2>3 DEF Config!TypeOK
  <2> QED BY <1>0, <2>2, <2>3, <2>4, ProcessStep
<1>2. CASE Config!Edit
  <2>1. edits' \in 0..MaxEdits
    BY <1>0, <1>2, SettingsAssumption DEF Config!Edit, Config!TypeOK
  <2>2. ~ Config!IsDocument(settings')
    BY <1>2 DEF Config!Edit, Config!IsDocument
  <2>3. Config!TypeOK'
    BY <1>0, <1>2, <2>1, <2>2 DEF Config!Edit, Config!TypeOK
  <2>4. Config!MemoryIsDisk'
    BY <1>2 DEF Config!Edit, Config!MemoryIsDisk
  <2> QED BY <2>3, <2>4 DEF ConfigInv
<1> QED BY <1>1, <1>2

\* config.rs: whatever is migrated, deferred, damaged or fails to be written, and in whichever
\* order the program and the recovery command work, a process that reports no failure and that no
\* other one has overtaken shows what the file says.
THEOREM CopiesAreFaithful == Spec => []MemoryIsDisk
<1>1. Init => ConfigInv
  <2> SUFFICES ASSUME Init PROVE ConfigInv
    OBVIOUS
  <2>1. settings \in Config!RawDocument \cup {Missing}
    BY DEF Init, Config!Init
  <2>2. Config!RawDocument \subseteq Config!AnyDocument
    BY SettingsAssumption DEF Config!RawDocument, Config!AnyDocument, Config!DocumentsWith
  <2>3. Config!IsDocument(settings) => settings \in Config!AnyDocument
    BY <2>1, <2>2 DEF Config!IsDocument
  <2>4. Config!TypeOK
    BY <2>3, NoStateTyped, SettingsAssumption DEF Init, Config!Init, Config!TypeOK
  <2>5. Config!MemoryIsDisk
    BY DEF Init, Config!Init, Config!MemoryIsDisk
  <2> QED BY <2>4, <2>5 DEF ConfigInv
<1>2. ASSUME ConfigInv, [Next]_vars PROVE ConfigInv'
  <2>1. CASE ConfigStep
    BY <1>2, <2>1, Started, Committed, PreferenceSet, Stopped DEF ConfigStep, Program
  <2>2. CASE (Next /\ ~ ConfigStep) \/ UNCHANGED vars
    <3>1. UNCHANGED settingsVars
      BY <2>2 DEF Next, vars, StoreStep, AlertsStep, AuthStep, CodexStep, RequestStep, LogStep, CheckStep,
                  UsageStep, VerdictStep, InStore, InAlerts, InAuth,
                  InCodex, InRequest, InLog, InCheck, InUsage, InVerdict
    <3> QED BY <1>2, <3>1 DEF ConfigInv, Config!TypeOK, Config!MemoryIsDisk, settingsVars
  <2> QED BY <1>2, <2>1, <2>2
<1>3. ConfigInv => MemoryIsDisk
  BY DEF ConfigInv, MemoryIsDisk
<1> QED BY <1>1, <1>2, <1>3, PTL DEF Spec

-----------------------------------------------------------------------------
\* The n lines after line a.
Segment(a, n) == [i \in 1..n |-> a + i]

\* A segment is a sequence of its length.
LEMMA SegmentIsSeq ==
  ASSUME NEW a \in Int, NEW n \in Nat
  PROVE  Segment(a, n) \in Seq(Int) /\ Len(Segment(a, n)) = n
BY DEF Segment

\* The lines of a segment.
LEMMA SegmentAt ==
  ASSUME NEW a \in Int, NEW n \in Nat, NEW i \in 1..n
  PROVE  Segment(a, n)[i] = a + i
BY DEF Segment

\* Two segments that meet are one.
LEMMA SegmentsMeet ==
  ASSUME NEW a \in Int, NEW n \in Nat, NEW m \in Nat
  PROVE  Segment(a, n) \o Segment(a + n, m) = Segment(a, n + m)
<1> DEFINE s == Segment(a, n)
           t == Segment(a + n, m)
<1>1. s \in Seq(Int) /\ t \in Seq(Int) /\ Len(s) = n /\ Len(t) = m
  BY SegmentIsSeq
<1>2. s \o t \in Seq(Int) /\ Len(s \o t) = n + m
  BY <1>1, ConcatProperties
<1>3. Segment(a, n + m) \in Seq(Int) /\ Len(Segment(a, n + m)) = n + m
  BY SegmentIsSeq
<1>4. ASSUME NEW i \in 1..(n + m) PROVE (s \o t)[i] = Segment(a, n + m)[i]
  <2>0. Segment(a, n + m)[i] = a + i
    BY DEF Segment
  <2>1. (s \o t)[i] = IF i <= n THEN s[i] ELSE t[i - n]
    <3> HIDE DEF s, t
    <3> QED BY <1>1, ConcatProperties
  <2>2. CASE i <= n
    <3>1. s[i] = a + i
      BY <2>2, SegmentAt
    <3> HIDE DEF s, t
    <3> QED BY <2>0, <2>1, <2>2, <3>1
  <2>3. CASE i > n
    <3>1. i - n \in 1..m /\ a + n \in Int
      BY <2>3
    <3>2. t[i - n] = (a + n) + (i - n)
      BY <3>1, SegmentAt
    <3> HIDE DEF s, t
    <3> QED BY <2>0, <2>1, <2>3, <3>2
  <2>4. i <= n \/ i > n
    OBVIOUS
  <2> QED BY <2>2, <2>3, <2>4
<1> QED BY <1>2, <1>3, <1>4, SeqEqual

\* A line appended to a segment.
LEMMA SegmentGrows ==
  ASSUME NEW a \in Int, NEW n \in Nat
  PROVE  Append(Segment(a, n), a + n + 1) = Segment(a, n + 1)
<1>1. Segment(a, n) \in Seq(Int) /\ Len(Segment(a, n)) = n
  BY SegmentIsSeq
<1>2. /\ Append(Segment(a, n), a + n + 1) \in Seq(Int)
      /\ Len(Append(Segment(a, n), a + n + 1)) = n + 1
      /\ \A i \in 1..n : Append(Segment(a, n), a + n + 1)[i] = Segment(a, n)[i]
      /\ Append(Segment(a, n), a + n + 1)[n + 1] = a + n + 1
  BY <1>1, AppendProperties
<1>3. Segment(a, n + 1) \in Seq(Int) /\ Len(Segment(a, n + 1)) = n + 1
  BY SegmentIsSeq
<1>4. ASSUME NEW i \in 1..(n + 1) PROVE Append(Segment(a, n), a + n + 1)[i] = Segment(a, n + 1)[i]
  <2>0. Segment(a, n + 1)[i] = a + i
    BY DEF Segment
  <2>1. CASE i \in 1..n
    <3>1. Segment(a, n)[i] = a + i
      BY <2>1, SegmentAt
    <3> QED BY <1>2, <2>0, <2>1, <3>1
  <2>2. CASE i = n + 1
    BY <1>2, <2>0, <2>2
  <2>3. i \in 1..n \/ i = n + 1
    OBVIOUS
  <2> QED BY <2>1, <2>2, <2>3
<1> QED BY <1>2, <1>3, <1>4, SeqEqual

-----------------------------------------------------------------------------
\* The files from the newest to the oldest hold the last lines without a gap.
LogInv ==
    LET l == Log!Length(log)
        p == Log!Length(previous)
        o == Log!Length(oldest)
    IN  /\ Log!TypeOK
        /\ Log!Lines(log) = Segment(written - l, l)
        /\ Log!Lines(previous) = Segment(written - l - p, p)
        /\ Log!Lines(oldest) = Segment(written - l - p - o, o)
        /\ l + p + o <= written
        /\ l + p + o >= written \/ l + p + o >= LogBytes
        /\ step \in {"remove", "shift", "rotate"} => l = LogBytes
        /\ step = "shift" => oldest = None
        /\ step = "rotate" => previous = None
        /\ step = "append" => l < LogBytes
        /\ step # "idle" => written < MaxLines

\* No file outgrows its limit.
LEMMA FileLength ==
  ASSUME NEW f \in Log!File
  PROVE  Log!Length(f) \in 0..LogBytes
<1>1. CASE f = None
  BY <1>1, LogAssumption DEF Log!Length
<1>2. CASE f # None
  <2>1. PICK n \in 0..LogBytes : f \in [1..n -> 1..MaxLines]
    BY <1>2 DEF Log!File
  <2>2. Len(f) = n
    BY <2>1, LogAssumption, LenProperties
  <2> QED BY <1>2, <2>2 DEF Log!Length
<1> QED BY <1>1, <1>2

\* A segment without lines.
LEMMA NoLines ==
  ASSUME NEW a \in Int
  PROVE  Segment(a, 0) = <<>>
<1>1. Segment(a, 0) \in Seq(Int) /\ Len(Segment(a, 0)) = 0
  BY SegmentIsSeq
<1> QED BY <1>1, EmptySeq

\* A segment within the limits is a file.
LEMMA SegmentIsFile ==
  ASSUME NEW a \in Nat, NEW n \in 0..LogBytes, a + n <= MaxLines
  PROVE  Segment(a, n) \in Log!File /\ Segment(a, n) # None
<1>1. Segment(a, n) \in [1..n -> 1..MaxLines]
  BY LogAssumption DEF Segment
<1> QED BY <1>1, LogAssumption DEF Log!File

\* What a file that holds a segment says.
LEMMA FileLines ==
  ASSUME NEW a \in Int, NEW n \in Nat, Segment(a, n) # None
  PROVE  Log!Length(Segment(a, n)) = n /\ Log!Lines(Segment(a, n)) = Segment(a, n)
BY SegmentIsSeq DEF Log!Length, Log!Lines

\* A file that is absent holds no lines.
LEMMA NoFile == Log!Length(None) = 0 /\ Log!Lines(None) = <<>>
BY DEF Log!Length, Log!Lines

\* The invariant holds of a log that has not been written.
LEMMA LogStarts == ASSUME Log!Init PROVE LogInv
<1>1. Log!TypeOK
  <2>1. 0 \in 0..MaxLines /\ None \in Log!File
    BY LogAssumption DEF Log!File
  <2> QED BY <2>1 DEF Log!Init, Log!TypeOK
<1>2. Segment(0, 0) = <<>>
  BY NoLines
<1> QED BY <1>1, <1>2, NoFile, LogAssumption DEF Log!Init, LogInv

\* The steps that leave the lines of the log alone: a record, and those of rotate().
LEMMA LogMoves ==
  ASSUME LogInv, (\E code \in Code : Log!Record(code)) \/ Log!RemoveOldest \/ Log!ShiftPrevious
                   \/ Log!Rotate \/ Log!Restart
  PROVE  LogInv'
<1> DEFINE l == Log!Length(log)
           p == Log!Length(previous)
           o == Log!Length(oldest)
<1>0. /\ log \in Log!File /\ previous \in Log!File /\ oldest \in Log!File
      /\ lastIssue \in Issue \cup {None} /\ writeFailed \in BOOLEAN
      /\ step \in {"idle", "remove", "shift", "rotate", "append"}
      /\ written \in 0..MaxLines /\ written \in Nat
      /\ l \in 0..LogBytes /\ p \in 0..LogBytes /\ o \in 0..LogBytes
      /\ l \in Nat /\ p \in Nat /\ o \in Nat
  BY FileLength, LogAssumption DEF LogInv, Log!TypeOK
<1>1. /\ Log!Lines(log) = Segment(written - l, l)
      /\ Log!Lines(previous) = Segment(written - l - p, p)
      /\ Log!Lines(oldest) = Segment(written - l - p - o, o)
      /\ l + p + o <= written
      /\ l + p + o >= written \/ l + p + o >= LogBytes
      /\ step \in {"remove", "shift", "rotate"} => l = LogBytes
      /\ step = "shift" => oldest = None
      /\ step = "rotate" => previous = None
      /\ step = "append" => l < LogBytes
      /\ step # "idle" => written < MaxLines
  BY DEF LogInv
<1>2. None \in Log!File
  BY DEF Log!File
<1>n. \A a \in Int : Segment(a, 0) = <<>>
  BY NoLines
<1>3. ASSUME UNCHANGED <<log, previous, oldest, written>>, step' = "idle",
             lastIssue' \in Issue \cup {None}, writeFailed' \in BOOLEAN
      PROVE  LogInv'
  BY <1>0, <1>1, <1>3 DEF LogInv, Log!TypeOK, Log!Length, Log!Lines
<1>4. CASE Log!GivesUp \/ Log!Restart
  BY <1>0, <1>3, <1>4 DEF Log!GivesUp, Log!Restart
<1>5. CASE \E code \in Code : Log!Record(code)
  <2>1. PICK code \in Code : Log!Record(code)
    BY <1>5
  <2>2. /\ UNCHANGED <<log, previous, oldest, written, writeFailed>>
        /\ lastIssue' \in Issue \cup {None}
        /\ step' = IF l + 1 > LogBytes THEN "remove" ELSE "append"
        /\ written < MaxLines
    BY <1>0, <2>1 DEF Log!Record
  <2>3. step' \in {"remove", "append"} /\ (step' = "remove" => l = LogBytes) /\ (step' = "append" => l < LogBytes)
    BY <1>0, <2>2, LogAssumption
  <2> QED BY <1>0, <1>1, <2>2, <2>3 DEF LogInv, Log!TypeOK, Log!Length, Log!Lines
<1>6. CASE Log!RemoveOldest /\ ~ Log!GivesUp
  <2>1. /\ UNCHANGED <<log, previous, written, lastIssue, writeFailed>>
        /\ oldest' = None /\ step = "remove" /\ step' = "shift"
    BY <1>6 DEF Log!RemoveOldest
  <2>2. Log!TypeOK'
    BY <1>0, <1>2, <2>1 DEF Log!TypeOK
  <2>3. /\ Log!Length(oldest') = 0 /\ Log!Lines(oldest') = <<>>
        /\ Log!Length(log') = l /\ Log!Length(previous') = p
        /\ Log!Lines(log') = Log!Lines(log) /\ Log!Lines(previous') = Log!Lines(previous)
    BY <2>1, NoFile
  <2>4. Segment(written - l - p - 0, 0) = <<>>
    BY <1>0, <1>n
  <2> HIDE DEF l, p, o
  <2> QED BY <1>0, <1>1, <2>1, <2>2, <2>3, <2>4 DEF LogInv
<1>7. CASE Log!ShiftPrevious /\ ~ Log!GivesUp
  <2>1. /\ UNCHANGED <<log, written, lastIssue, writeFailed>>
        /\ oldest' = (IF previous = None THEN oldest ELSE previous) /\ step = "shift" /\ step' = "rotate"
        /\ previous' = None /\ oldest = None
    BY <1>1, <1>7 DEF Log!ShiftPrevious
  <2>2. oldest' = previous
    BY <2>1
  <2>3. Log!TypeOK'
    BY <1>0, <1>2, <2>1, <2>2 DEF Log!TypeOK
  <2>4. /\ Log!Length(previous') = 0 /\ Log!Lines(previous') = <<>>
        /\ Log!Length(log') = l /\ Log!Length(oldest') = p /\ o = 0
        /\ Log!Lines(log') = Log!Lines(log) /\ Log!Lines(oldest') = Log!Lines(previous)
    BY <2>1, <2>2, NoFile
  <2>5. Segment(written - l - 0, 0) = <<>> /\ written - l - 0 - p = written - l - p
    BY <1>0, <1>n
  <2> HIDE DEF l, p, o
  <2> QED BY <1>0, <1>1, <2>1, <2>3, <2>4, <2>5 DEF LogInv
<1>8. CASE Log!Rotate /\ ~ Log!GivesUp
  <2>0. log # None /\ previous = None /\ l = LogBytes /\ step = "rotate"
    BY <1>1, <1>8, NoFile, LogAssumption DEF Log!Rotate
  <2>1. /\ UNCHANGED <<oldest, written, lastIssue, writeFailed>>
        /\ previous' = log /\ log' = None /\ step' = "append"
    BY <1>8, <2>0 DEF Log!Rotate
  <2>2. Log!TypeOK'
    BY <1>0, <1>2, <2>1 DEF Log!TypeOK
  <2>3. /\ Log!Length(log') = 0 /\ Log!Lines(log') = <<>>
        /\ Log!Length(previous') = l /\ Log!Length(oldest') = o /\ p = 0
        /\ Log!Lines(previous') = Log!Lines(log) /\ Log!Lines(oldest') = Log!Lines(oldest)
    BY <2>0, <2>1, NoFile
  <2>4. Segment(written - 0, 0) = <<>> /\ written - 0 - l = written - l
        /\ written - 0 - l - o = written - l - p - o /\ LogBytes > 0
    BY <1>0, <1>n, <2>3, LogAssumption
  <2> HIDE DEF l, p, o
  <2> QED BY <1>0, <1>1, <2>0, <2>1, <2>2, <2>3, <2>4 DEF LogInv
<1> QED BY <1>4, <1>5, <1>6, <1>7, <1>8 DEF Log!RemoveOldest, Log!ShiftPrevious, Log!Rotate

\* The line that is due reaches the file.
LEMMA LineAppended ==
  ASSUME LogInv, Log!AppendLine
  PROVE  LogInv'
<1> DEFINE l == Log!Length(log)
           p == Log!Length(previous)
           o == Log!Length(oldest)
<1>0. /\ log \in Log!File /\ previous \in Log!File /\ oldest \in Log!File
      /\ lastIssue \in Issue \cup {None} /\ writeFailed \in BOOLEAN
      /\ written \in 0..MaxLines /\ written \in Nat
      /\ l \in 0..LogBytes /\ p \in 0..LogBytes /\ o \in 0..LogBytes
      /\ l \in Nat /\ p \in Nat /\ o \in Nat
  BY FileLength, LogAssumption DEF LogInv, Log!TypeOK
<1>1. /\ Log!Lines(log) = Segment(written - l, l)
      /\ Log!Lines(previous) = Segment(written - l - p, p)
      /\ Log!Lines(oldest) = Segment(written - l - p - o, o)
      /\ l + p + o <= written
      /\ l + p + o >= written \/ l + p + o >= LogBytes
      /\ l < LogBytes /\ written < MaxLines
  BY DEF LogInv, Log!AppendLine
<1>2. CASE Log!GivesUp
  BY <1>0, <1>1, <1>2 DEF LogInv, Log!TypeOK, Log!GivesUp, Log!Length, Log!Lines
<1>3. CASE ~ Log!GivesUp
  <2>1. /\ log' = Append(Log!Lines(log), written + 1) /\ written' = written + 1 /\ step' = "idle"
        /\ UNCHANGED <<previous, oldest, lastIssue, writeFailed>>
    BY <1>3 DEF Log!AppendLine, Log!Lines
  <2>2. log' = Segment(written - l, l + 1)
    <3>1. written - l \in Int /\ written + 1 = (written - l) + l + 1
      BY <1>0
    <3> HIDE DEF l
    <3> QED BY <1>0, <1>1, <2>1, <3>1, SegmentGrows
  <2>3. written - l \in Nat /\ l + 1 \in 0..LogBytes /\ (written - l) + (l + 1) <= MaxLines
        /\ written' \in 0..MaxLines
    <3> HIDE DEF l, p, o
    <3> QED BY <1>0, <1>1, <2>1, LogAssumption
  <2>4. log' \in Log!File /\ log' # None
    <3> HIDE DEF l, p, o
    <3> QED BY <2>2, <2>3, SegmentIsFile
  <2>5. Log!Length(log') = l + 1 /\ Log!Lines(log') = Segment(written - l, l + 1)
    <3> HIDE DEF l, p, o
    <3> QED BY <1>0, <2>2, <2>3, <2>4, FileLines
  <2>6. Log!TypeOK'
    BY <1>0, <2>1, <2>3, <2>4 DEF Log!TypeOK
  <2>7. /\ Log!Length(previous') = p /\ Log!Length(oldest') = o
        /\ Log!Lines(previous') = Log!Lines(previous) /\ Log!Lines(oldest') = Log!Lines(oldest)
    BY <2>1
  <2>8. /\ written' - (l + 1) = written - l
        /\ written' - (l + 1) - p = written - l - p
        /\ written' - (l + 1) - p - o = written - l - p - o
        /\ (l + 1) + p + o <= written'
        /\ (l + 1) + p + o >= written' \/ (l + 1) + p + o >= LogBytes
    <3> HIDE DEF l, p, o
    <3> QED BY <1>0, <1>1, <2>1, LogAssumption
  <2>9. /\ Log!Lines(log') = Segment(written' - (l + 1), l + 1)
        /\ Log!Lines(previous') = Segment(written' - (l + 1) - p, p)
        /\ Log!Lines(oldest') = Segment(written' - (l + 1) - p - o, o)
    BY <1>1, <2>5, <2>7, <2>8
  <2> HIDE DEF l, p, o
  <2> QED BY <2>1, <2>5, <2>6, <2>7, <2>8, <2>9 DEF LogInv
<1> QED BY <1>2, <1>3

\* The three segments are the newest lines, in order.
LEMMA LinesAreNewest == ASSUME LogInv PROVE Log!TypeOK /\ Log!NewestInOrder
<1> DEFINE l == Log!Length(log)
           p == Log!Length(previous)
           o == Log!Length(oldest)
           lines == Log!Lines(oldest) \o Log!Lines(previous) \o Log!Lines(log)
<1>0. /\ written \in Nat
      /\ l \in 0..LogBytes /\ p \in 0..LogBytes /\ o \in 0..LogBytes
      /\ l \in Nat /\ p \in Nat /\ o \in Nat
  BY FileLength, LogAssumption DEF LogInv, Log!TypeOK
<1>1. /\ Log!Lines(log) = Segment(written - l, l)
      /\ Log!Lines(previous) = Segment(written - l - p, p)
      /\ Log!Lines(oldest) = Segment(written - l - p - o, o)
      /\ l + p + o >= written \/ l + p + o >= LogBytes
  BY DEF LogInv
<1> DEFINE a == written - l - p - o
<1>a. a \in Int /\ a + o = written - l - p /\ a + (o + p) = written - l
      /\ written - (o + p + l) = a /\ o + p \in Nat /\ o + p + l \in Nat
  BY <1>0
<1>2. Log!Lines(oldest) \o Log!Lines(previous) = Segment(a, o + p)
  <2>1. Segment(a, o) \o Segment(a + o, p) = Segment(a, o + p)
    <3> HIDE DEF l, p, o, a
    <3> QED BY <1>0, <1>a, SegmentsMeet
  <2>2. Log!Lines(oldest) = Segment(a, o) /\ Log!Lines(previous) = Segment(a + o, p)
    BY <1>1, <1>a
  <2> QED BY <2>1, <2>2
<1>3. lines = Segment(written - (o + p + l), o + p + l)
  <2>1. Segment(a, o + p) \o Segment(a + (o + p), l) = Segment(a, (o + p) + l)
    <3> HIDE DEF l, p, o, a
    <3> QED BY <1>0, <1>a, SegmentsMeet
  <2>2. lines = Segment(a, o + p) \o Segment(a + (o + p), l)
    BY <1>1, <1>2, <1>a
  <2>3. Segment(a, (o + p) + l) = Segment(written - (o + p + l), o + p + l)
    BY <1>a
  <2> HIDE DEF lines, l, p, o, a
  <2> QED BY <2>1, <2>2, <2>3
<1>4. Len(lines) = o + p + l
  <2>1. o + p + l \in Nat /\ written - (o + p + l) \in Int
    BY <1>0
  <2> HIDE DEF lines, l, p, o, a
  <2> QED BY <1>3, <2>1, SegmentIsSeq
<1>5. lines = [i \in 1..Len(lines) |-> written - Len(lines) + i]
  <2> HIDE DEF lines, l, p, o
  <2> QED BY <1>3, <1>4 DEF Segment
<1>6. Len(lines) >= written \/ Len(lines) >= LogBytes
  <2> HIDE DEF lines, l, p, o
  <2> QED BY <1>0, <1>1, <1>4
<1>7. l <= LogBytes /\ p <= LogBytes /\ o <= LogBytes
  BY <1>0, LogAssumption
<1> QED BY <1>5, <1>6, <1>7 DEF LogInv, Log!NewestInOrder

\* diagnostics.rs: whatever file operation fails and wherever the program ends, the three files
\* hold the newest lines in order, one file's worth at least, and none outgrows its limit.
THEOREM LogsKeepNewest == Spec => []NewestInOrder
<1>1. Init => LogInv
  BY LogStarts DEF Init
<1>2. ASSUME LogInv, [Next]_vars PROVE LogInv'
  <2>1. CASE LogStep
    BY <1>2, <2>1, LogMoves, LineAppended DEF LogStep
  <2>2. CASE (Next /\ ~ LogStep) \/ UNCHANGED vars
    <3>1. UNCHANGED logVars
      BY <2>2 DEF Next, vars, StoreStep, AlertsStep, ConfigStep, AuthStep, CodexStep, RequestStep, CheckStep,
                  UsageStep, VerdictStep, InStore, InAlerts, InConfig, InAuth,
                  InCodex, InRequest, InCheck, InUsage, InVerdict
    <3> QED BY <1>2, <3>1 DEF LogInv, Log!TypeOK, Log!Length, Log!Lines, logVars
  <2> QED BY <1>2, <2>1, <2>2
<1>3. LogInv => NewestInOrder
  BY LinesAreNewest DEF NewestInOrder
<1> QED BY <1>1, <1>2, <1>3, PTL DEF Spec

-----------------------------------------------------------------------------
\* A set of natural numbers that is not empty has a least one.
LEMMA Least ==
  ASSUME NEW T, T \subseteq Nat, T # {}
  PROVE  \E x \in T : \A y \in T : x <= y
<1> DEFINE R == OpToRel(<, Nat)
<1>1. IsWellFoundedOn(R, Nat)
  BY NatLessThanWellFounded
<1>2. \A x, y \in Nat : x < y => <<x,y>> \in R
  BY DEF OpToRel
<1> HIDE DEF R
<1>3. PICK x \in T : \A y \in T : ~ (<<y, x>> \in R)
  BY <1>1, WFMin
<1>4. \A y \in T : ~ (y < x)
  BY <1>2, <1>3
<1> QED BY <1>3, <1>4

\* Induction over the natural numbers, as a fact about a set.
LEMMA SetInduction ==
  ASSUME NEW S, 0 \in S, \A n \in Nat : n \in S => n + 1 \in S
  PROVE Nat \subseteq S
<1> SUFFICES ASSUME Nat \ S # {} PROVE FALSE
  OBVIOUS
<1>1. PICK x \in Nat \ S : \A y \in Nat \ S : x <= y
  BY Least
<1>2. x - 1 \in Nat /\ x - 1 \in S
  BY <1>1
<1> QED BY <1>1, <1>2

\* One row of a snapshot.
RowStep(prev, p, a, seen, i) ==
   IF seen[i] = None THEN prev
            ELSE LET one == Alerts!Observe(prev.receipts, p, a, Rows[i], seen[i].high, seen[i].reset)
                 IN  [receipts |-> one.receipts,
                      fired |-> prev.fired \cup (IF one.fire THEN {i} ELSE {})]

\* The receipts before a snapshot.
Start == [receipts |-> receipts, fired |-> {}]

\* g holds the receipts before the first n rows, and after each.
Goes(n, g, p, a, seen) == g = [i \in 0..n |-> IF i = 0 THEN Start ELSE RowStep(g[i-1], p, a, seen, i)]

\* Rows that have been done can be followed by one more.
LEMMA GoesOn ==
  ASSUME NEW p, NEW a, NEW seen, NEW n \in Nat, NEW g, Goes(n, g, p, a, seen)
  PROVE  \E h : Goes(n + 1, h, p, a, seen)
<1> DEFINE h == [i \in 0..(n+1) |-> IF i = n + 1 THEN RowStep(g[n], p, a, seen, n+1) ELSE g[i]]
<1>1. ASSUME NEW i \in 0..(n + 1) PROVE h[i] = IF i = 0 THEN Start ELSE RowStep(h[i-1], p, a, seen, i)
  <2>1. CASE i = 0
    BY <2>1 DEF Goes
  <2>2. CASE i = n + 1
    <3>1. h[i-1] = g[n] /\ h[i] = RowStep(g[n], p, a, seen, n+1)
      BY <2>2
    <3> QED BY <2>2, <3>1
  <2>3. CASE i \in 1..n
    <3>1. h[i-1] = g[i-1] /\ h[i] = g[i]
      BY <2>3
    <3>2. g[i] = RowStep(g[i-1], p, a, seen, i)
      BY <2>3 DEF Goes
    <3> QED BY <2>3, <3>1, <3>2
  <2> QED BY <2>1, <2>2, <2>3
<1>2. Goes(n + 1, h, p, a, seen)
  BY <1>1 DEF Goes
<1> QED BY <1>2

\* What a snapshot does is what its rows do one after the other.
LEMMA RowsAfter == 
  ASSUME NEW p, NEW a, NEW seen
  PROVE  \E g : Goes(Len(Rows), g, p, a, seen) /\ Alerts!Observed(p, a, seen) = g[Len(Rows)]
<1> DEFINE S == {n \in Nat : \E g : Goes(n, g, p, a, seen)}
<1>1. 0 \in S
  <2>1. Goes(0, [i \in 0..0 |-> Start], p, a, seen)
    BY DEF Goes
  <2> QED BY <2>1
<1>2. ASSUME NEW n \in Nat, n \in S PROVE n + 1 \in S
  BY <1>2, GoesOn
<1>3. Len(Rows) \in S
  <2> HIDE DEF S
  <2>1. Nat \subseteq S
    BY <1>1, <1>2, SetInduction
  <2>2. Len(Rows) \in Nat
    BY AlertsAssumption
  <2> QED BY <2>1, <2>2
<1>4. PICK f : Goes(Len(Rows), f, p, a, seen)
  BY <1>3
<1>5. Alerts!Observed(p, a, seen) = (CHOOSE g : Goes(Len(Rows), g, p, a, seen))[Len(Rows)]
  BY DEF Alerts!Observed, RowStep, Goes, Start
<1>6. Goes(Len(Rows), CHOOSE g : Goes(Len(Rows), g, p, a, seen), p, a, seen)
  BY <1>4
<1> QED BY <1>5, <1>6

\* The receipt that an announcement leaves.
ReceiptOf(p, a, id, t) == [provider |-> p, account |-> a, limit |-> id, reset |-> t, below |-> FALSE]

\* The receipts of the window a row reports.
Matching(rs, p, a, id, t) ==
    {r \in rs : Alerts!SameLimit(r, p, a, id) /\ Alerts!SameWindow(r.reset, t)}

\* The mark of a receipt says nothing about its window.
LEMMA SetsBelow ==
  ASSUME NEW r \in Alerts!Receipt, NEW b \in BOOLEAN
  PROVE  LET s == [r EXCEPT !.below = b]
         IN  /\ s \in Alerts!Receipt /\ s.reset = r.reset
             /\ \A p, a, id : Alerts!SameLimit(s, p, a, id) <=> Alerts!SameLimit(r, p, a, id)
BY DEF Alerts!Receipt, Alerts!SameLimit

\* What apply_observation does to the receipts.
ObserveDoes(rs, p, a, id, high, t) ==
    LET one == Alerts!Observe(rs, p, a, id, high, t)
        new == ReceiptOf(p, a, id, t)
    IN  /\ one.receipts \subseteq Alerts!Receipt
        /\ one.fire \in BOOLEAN
        /\ \A r : ~ Alerts!SameLimit(r, p, a, id) => (r \in one.receipts <=> r \in rs)
        /\ \A r \in one.receipts : r.reset # None => r \in rs \/ (one.fire /\ r = new)
        /\ t # None => \A r \in Matching(rs, p, a, id, t) : r \in one.receipts
        /\ one.fire => high /\ (t # None => new \in one.receipts /\ Matching(rs, p, a, id, t) = {})
        /\ ~ one.fire /\ high /\ t # None => Matching(rs, p, a, id, t) # {}

\* apply_observation, for one row.
LEMMA ObserveFacts ==
  ASSUME NEW rs \in SUBSET Alerts!Receipt, NEW p \in AlertProvider, NEW a \in AlertAccount,
         NEW i \in DOMAIN Rows, NEW high \in BOOLEAN, NEW t \in Alerts!Instant \cup {None}
  PROVE  ObserveDoes(rs, p, a, Rows[i], high, t)
<1> DEFINE id == Rows[i]
           one == Alerts!Observe(rs, p, a, id, high, t)
           new == ReceiptOf(p, a, id, t)
           same == {r \in rs : Alerts!SameLimit(r, p, a, id)}
           match == {r \in same : Alerts!SameWindow(r.reset, t)}
           rearmed == {r \in match : t = None /\ r.below}
           lowered == {[r EXCEPT !.below = TRUE] : r \in match}
           raised == {[r EXCEPT !.below = FALSE] : r \in rearmed}
<1>1. match = Matching(rs, p, a, id, t)
  BY DEF Matching
<1>2. new \in Alerts!Receipt /\ Alerts!SameLimit(new, p, a, id) /\ new.reset = t
  BY DEF ReceiptOf, Alerts!Receipt, Alerts!SameLimit, Alerts!Row
<1>3. \A r \in match : r \in rs /\ r \in Alerts!Receipt /\ Alerts!SameLimit(r, p, a, id) /\ (t = None => r.reset = None)
  BY DEF Alerts!SameWindow
<1>4. /\ lowered \subseteq Alerts!Receipt
      /\ \A r \in lowered : Alerts!SameLimit(r, p, a, id) /\ (t = None => r.reset = None)
  BY <1>3, SetsBelow
<1>5. /\ raised \subseteq Alerts!Receipt
      /\ \A r \in raised : Alerts!SameLimit(r, p, a, id) /\ r.reset = None
      /\ (t # None => raised = {} /\ rearmed = {})
  BY <1>3, SetsBelow
<1>6. one = IF ~ high
            THEN [fire |-> FALSE, receipts |-> IF t # None THEN rs ELSE (rs \ match) \cup lowered]
            ELSE IF match = {} THEN [fire |-> TRUE, receipts |-> (rs \ same) \cup {new}]
            ELSE [fire |-> rearmed # {}, receipts |-> (rs \ rearmed) \cup raised]
  BY DEF Alerts!Observe, ReceiptOf
<1>7. rearmed \subseteq match /\ match \subseteq same /\ \A r : r \in same <=> r \in rs /\ Alerts!SameLimit(r, p, a, id)
  OBVIOUS
<1> HIDE DEF one, new, same, match, rearmed, lowered, raised, id
<1>8. CASE ~ high /\ t # None
  <2>1. one.fire = FALSE /\ one.receipts = rs
    BY <1>6, <1>8
  <2> QED BY <1>1, <1>8, <2>1, <1>3 DEF one, new, id, ObserveDoes
<1>9. CASE ~ high /\ t = None
  <2>1. one.fire = FALSE /\ one.receipts = (rs \ match) \cup lowered
    BY <1>6, <1>9
  <2> QED BY <1>1, <1>3, <1>4, <1>9, <2>1 DEF one, new, id, ObserveDoes
<1>10. CASE high /\ match = {}
  <2>1. one.fire = TRUE /\ one.receipts = (rs \ same) \cup {new}
    BY <1>6, <1>10
  <2> QED BY <1>1, <1>2, <1>7, <1>10, <2>1 DEF one, new, id, ObserveDoes
<1>11. CASE high /\ match # {}
  <2>1. one.fire = (rearmed # {}) /\ one.receipts = (rs \ rearmed) \cup raised
    BY <1>6, <1>11
  <2>2. one.fire \in BOOLEAN /\ one.receipts \subseteq Alerts!Receipt
    BY <1>5, <2>1
  <2>3. \A r : ~ Alerts!SameLimit(r, p, a, id) => (r \in one.receipts <=> r \in rs)
    BY <1>3, <1>5, <1>7, <2>1
  <2>4. \A r \in one.receipts : r.reset # None => r \in rs
    BY <1>5, <2>1
  <2>5. t # None => one.receipts = rs /\ one.fire = FALSE
    BY <1>5, <2>1
  <2> QED BY <1>1, <1>3, <1>11, <2>2, <2>3, <2>4, <2>5 DEF one, new, id, ObserveDoes
<1> QED BY <1>8, <1>9, <1>10, <1>11

\* A snapshot of one provider: a report or nothing for every row.
Snapshot == [DOMAIN Rows -> [high : BOOLEAN, reset : Alerts!Instant \cup {None}] \cup {None}]

\* What the first n rows of a snapshot have done to the receipts.
RowsDone(n, S, p, a, seen) ==
    /\ S.receipts \subseteq Alerts!Receipt
    /\ S.fired \subseteq 1..n
    /\ \A r \in S.receipts : r.reset # None =>
         r \in receipts \/ \E i \in S.fired : seen[i] # None /\ r = ReceiptOf(p, a, Rows[i], seen[i].reset)
    /\ \A r : (\A i \in 1..n : ~ Alerts!SameLimit(r, p, a, Rows[i])) =>
         (r \in S.receipts <=> r \in receipts)
    /\ \A i \in 1..n, r \in receipts :
         /\ Alerts!SameLimit(r, p, a, Rows[i])
         /\ r.reset # None
         /\ seen[i] # None => seen[i].reset # None /\ Alerts!SameWindow(r.reset, seen[i].reset)
         => r \in S.receipts
    /\ \A i \in S.fired :
         /\ seen[i] # None /\ seen[i].high
         /\ seen[i].reset # None => /\ ReceiptOf(p, a, Rows[i], seen[i].reset) \in S.receipts
                                    /\ Matching(receipts, p, a, Rows[i], seen[i].reset) = {}
    /\ \A i \in 1..n \ S.fired : seen[i] # None /\ seen[i].high /\ seen[i].reset # None =>
         Matching(receipts, p, a, Rows[i], seen[i].reset) # {}

\* One more row of a snapshot.
LEMMA RowDone ==
  ASSUME NEW p \in AlertProvider, NEW a \in AlertAccount, NEW seen \in Snapshot,
         NEW n \in Nat, n + 1 <= Len(Rows), NEW S, RowsDone(n, S, p, a, seen)
  PROVE  RowsDone(n + 1, RowStep(S, p, a, seen, n + 1), p, a, seen)
<1> DEFINE m == n + 1
           T == RowStep(S, p, a, seen, m)
           id == Rows[m]
<1>1. m \in DOMAIN Rows /\ 1..m = 1..n \cup {m} /\ m \notin 1..n /\ 1..n \subseteq DOMAIN Rows
  BY AlertsAssumption
<1>2. \A i \in 1..n : Rows[i] # id
  BY <1>1, AlertsAssumption
<1>3. \A r : Alerts!SameLimit(r, p, a, id) => \A i \in 1..n : ~ Alerts!SameLimit(r, p, a, Rows[i])
  BY <1>2 DEF Alerts!SameLimit
<1>4. \A r : Alerts!SameLimit(r, p, a, id) => (r \in S.receipts <=> r \in receipts)
  BY <1>3 DEF RowsDone
<1> HIDE DEF m, id
<1>5. CASE seen[m] = None
  <2>1. T = S
    BY <1>5 DEF RowStep
  <2> HIDE DEF T
  <2>2. \A r \in receipts : Alerts!SameLimit(r, p, a, Rows[m]) => r \in S.receipts
    BY <1>4 DEF id
  <2>3. /\ S.receipts \subseteq Alerts!Receipt
        /\ S.fired \subseteq 1..m
        /\ \A r \in S.receipts : r.reset # None =>
             r \in receipts \/ \E i \in S.fired : seen[i] # None /\ r = ReceiptOf(p, a, Rows[i], seen[i].reset)
    BY <1>1 DEF RowsDone
  <2>4. \A r : (\A i \in 1..m : ~ Alerts!SameLimit(r, p, a, Rows[i])) => (r \in S.receipts <=> r \in receipts)
    BY <1>1 DEF RowsDone
  <2>5. \A i \in 1..m, r \in receipts :
          /\ Alerts!SameLimit(r, p, a, Rows[i])
          /\ r.reset # None
          /\ seen[i] # None => seen[i].reset # None /\ Alerts!SameWindow(r.reset, seen[i].reset)
          => r \in S.receipts
    BY <1>1, <2>2 DEF RowsDone
  <2>6. \A i \in S.fired :
          /\ seen[i] # None /\ seen[i].high
          /\ seen[i].reset # None => /\ ReceiptOf(p, a, Rows[i], seen[i].reset) \in S.receipts
                                     /\ Matching(receipts, p, a, Rows[i], seen[i].reset) = {}
    BY DEF RowsDone
  <2>7. \A i \in 1..m \ S.fired : seen[i] # None /\ seen[i].high /\ seen[i].reset # None =>
          Matching(receipts, p, a, Rows[i], seen[i].reset) # {}
    BY <1>1, <1>5 DEF RowsDone
  <2>8. RowsDone(m, S, p, a, seen)
    BY <2>3, <2>4, <2>5, <2>6, <2>7 DEF RowsDone
  <2> QED BY <2>1, <2>8 DEF T, m
<1>6. CASE seen[m] # None
  <2> DEFINE h == seen[m].high
             t == seen[m].reset
             one == Alerts!Observe(S.receipts, p, a, id, h, t)
             new == ReceiptOf(p, a, id, t)
  <2>1. h \in BOOLEAN /\ t \in Alerts!Instant \cup {None}
    BY <1>1, <1>6 DEF Snapshot
  <2>2. T.receipts = one.receipts /\ T.fired = S.fired \cup (IF one.fire THEN {m} ELSE {})
    BY <1>6 DEF RowStep, id
  <2>3. S.receipts \in SUBSET Alerts!Receipt
    BY DEF RowsDone
  <2> HIDE DEF h, t, one, new, T
  <2>4. /\ one.receipts \subseteq Alerts!Receipt
        /\ one.fire \in BOOLEAN
        /\ \A r : ~ Alerts!SameLimit(r, p, a, id) => (r \in one.receipts <=> r \in S.receipts)
        /\ \A r \in one.receipts : r.reset # None => r \in S.receipts \/ (one.fire /\ r = new)
        /\ t # None => \A r \in Matching(S.receipts, p, a, id, t) : r \in one.receipts
        /\ one.fire => h /\ (t # None => new \in one.receipts /\ Matching(S.receipts, p, a, id, t) = {})
        /\ ~ one.fire /\ h /\ t # None => Matching(S.receipts, p, a, id, t) # {}
    <3>1. ObserveDoes(S.receipts, p, a, Rows[m], h, t)
      BY <1>1, <2>1, <2>3, ObserveFacts
    <3> QED BY <3>1 DEF ObserveDoes, one, new, id
  <2>5. Matching(S.receipts, p, a, id, t) = Matching(receipts, p, a, id, t)
    BY <1>4 DEF Matching
  <2>6. m \notin S.fired /\ S.fired \subseteq 1..n
    BY <1>1 DEF RowsDone
  <2>7. T.receipts \subseteq Alerts!Receipt /\ T.fired \subseteq 1..m
    BY <1>1, <2>2, <2>4, <2>6
  <2>8. \A r \in T.receipts : r.reset # None =>
          r \in receipts \/ \E i \in T.fired : seen[i] # None /\ r = ReceiptOf(p, a, Rows[i], seen[i].reset)
    <3> TAKE r \in T.receipts
    <3> HAVE r.reset # None
    <3>1. CASE r \in S.receipts
      BY <2>2, <3>1 DEF RowsDone
    <3>2. CASE one.fire /\ r = new
      <4>1. m \in T.fired
        BY <2>2, <3>2
      <4> QED BY <1>6, <3>2, <4>1 DEF new, id, t
    <3> QED BY <2>2, <2>4, <3>1, <3>2
  <2>9. \A r : (\A i \in 1..m : ~ Alerts!SameLimit(r, p, a, Rows[i])) => (r \in T.receipts <=> r \in receipts)
    <3> TAKE r
    <3> HAVE \A i \in 1..m : ~ Alerts!SameLimit(r, p, a, Rows[i])
    <3>1. ~ Alerts!SameLimit(r, p, a, id) /\ \A i \in 1..n : ~ Alerts!SameLimit(r, p, a, Rows[i])
      BY <1>1 DEF id
    <3> QED BY <2>2, <2>4, <3>1 DEF RowsDone
  <2>10. \A i \in 1..m, r \in receipts :
           /\ Alerts!SameLimit(r, p, a, Rows[i])
           /\ r.reset # None
           /\ seen[i] # None => seen[i].reset # None /\ Alerts!SameWindow(r.reset, seen[i].reset)
           => r \in T.receipts
    <3> TAKE i \in 1..m, r \in receipts
    <3> HAVE /\ Alerts!SameLimit(r, p, a, Rows[i])
             /\ r.reset # None
             /\ seen[i] # None => seen[i].reset # None /\ Alerts!SameWindow(r.reset, seen[i].reset)
    <3>1. CASE i = m
      <4>1. r \in Matching(receipts, p, a, id, t) /\ t # None
        BY <1>6, <3>1 DEF Matching, id, t
      <4> QED BY <2>2, <2>4, <2>5, <4>1
    <3>2. CASE i \in 1..n
      <4>1. r \in S.receipts
        BY <3>2 DEF RowsDone
      <4>2. ~ Alerts!SameLimit(r, p, a, id)
        BY <1>3, <3>2
      <4> QED BY <2>2, <2>4, <4>1, <4>2
    <3> QED BY <1>1, <3>1, <3>2
  <2>11. \A i \in T.fired :
           /\ seen[i] # None /\ seen[i].high
           /\ seen[i].reset # None => /\ ReceiptOf(p, a, Rows[i], seen[i].reset) \in T.receipts
                                      /\ Matching(receipts, p, a, Rows[i], seen[i].reset) = {}
    <3> TAKE i \in T.fired
    <3>1. CASE i = m
      <4>1. one.fire
        BY <2>2, <2>6, <3>1
      <4> QED BY <1>6, <2>2, <2>4, <2>5, <3>1, <4>1 DEF new, id, t, h
    <3>2. CASE i # m
      <4>1. i \in S.fired /\ i \in 1..n
        BY <2>2, <2>6, <3>2
      <4>2. /\ seen[i] # None /\ seen[i].high
            /\ seen[i].reset # None => /\ ReceiptOf(p, a, Rows[i], seen[i].reset) \in S.receipts
                                       /\ Matching(receipts, p, a, Rows[i], seen[i].reset) = {}
        BY <4>1 DEF RowsDone
      <4>3. ~ Alerts!SameLimit(ReceiptOf(p, a, Rows[i], seen[i].reset), p, a, id)
        BY <1>2, <4>1 DEF Alerts!SameLimit, ReceiptOf
      <4> QED BY <2>2, <2>4, <4>2, <4>3
    <3> QED BY <3>1, <3>2
  <2>12. \A i \in 1..m \ T.fired : seen[i] # None /\ seen[i].high /\ seen[i].reset # None =>
           Matching(receipts, p, a, Rows[i], seen[i].reset) # {}
    <3> TAKE i \in 1..m \ T.fired
    <3> HAVE seen[i] # None /\ seen[i].high /\ seen[i].reset # None
    <3>1. CASE i = m
      <4>1. ~ one.fire
        BY <2>2, <2>4, <3>1
      <4> QED BY <2>4, <2>5, <3>1, <4>1 DEF id, t, h
    <3>2. CASE i # m
      <4>1. i \in 1..n \ S.fired
        BY <1>1, <2>2, <3>2
      <4> QED BY <4>1 DEF RowsDone
    <3> QED BY <3>1, <3>2
  <2> QED BY <2>7, <2>8, <2>9, <2>10, <2>11, <2>12 DEF RowsDone, m, T
<1> QED BY <1>5, <1>6 DEF m

\* The rows of a snapshot, one after the other.
LEMMA ObservedFacts ==
  ASSUME receipts \subseteq Alerts!Receipt, NEW p \in AlertProvider, NEW a \in AlertAccount,
         NEW seen \in Snapshot
  PROVE  RowsDone(Len(Rows), Alerts!Observed(p, a, seen), p, a, seen)
<1>1. PICK g : Goes(Len(Rows), g, p, a, seen) /\ Alerts!Observed(p, a, seen) = g[Len(Rows)]
  BY RowsAfter
<1> DEFINE S == {n \in Nat : n <= Len(Rows) => RowsDone(n, g[n], p, a, seen)}
<1>2. Len(Rows) \in Nat
  BY AlertsAssumption
<1>3. 0 \in S
  <2>1. g[0] = Start
    BY <1>1, <1>2 DEF Goes
  <2>2. RowsDone(0, Start, p, a, seen)
    BY DEF RowsDone, Start
  <2> QED BY <2>1, <2>2
<1>4. ASSUME NEW n \in Nat, n \in S PROVE n + 1 \in S
  <2> SUFFICES ASSUME n + 1 <= Len(Rows) PROVE RowsDone(n + 1, g[n + 1], p, a, seen)
    OBVIOUS
  <2>1. n + 1 \in 0..Len(Rows) /\ n + 1 # 0 /\ (n + 1) - 1 = n
    BY <1>2
  <2>2. g[n + 1] = RowStep(g[n], p, a, seen, n + 1)
    BY <1>1, <2>1 DEF Goes
  <2>3. RowsDone(n, g[n], p, a, seen)
    BY <1>2, <1>4
  <2> QED BY <2>2, <2>3, RowDone
<1>5. Nat \subseteq S
  <2> HIDE DEF S
  <2> QED BY <1>3, <1>4, SetInduction
<1> QED BY <1>1, <1>2, <1>5

-----------------------------------------------------------------------------

\* Receipts of one account per provider.
Own(rs) == \A r, s \in rs : r.provider = s.provider => r.account = s.account

\* Receipts of one account per provider; those that may be saved, of a stable one.
Owned ==
    /\ Own(receipts) /\ Own(held.receipts) /\ Own(stored.receipts)
    /\ \A r \in held.receipts \cup stored.receipts : r.account \in Persistent
    /\ \A r \in receipts : persistence[r.provider] = "stable" => r.account \in Persistent
    /\ \A r \in receipts : bound[r.provider] # None => r.account = bound[r.provider]
    /\ \A p \in AlertProvider :
         bound[p] # None => loaded /\ persistence[p] = Alerts!Level(bound[p]) /\ (bound[p] \in Persistent => salt)

\* A receipt that carries an instant is of a window that has been, and one of
\* the present window has been announced or was inherited.
Accounted(r) ==
    r.reset # None =>
        \A i \in DOMAIN Rows : r.limit = Rows[i] =>
            \E w \in 1..window[<<r.provider, i>>] :
                /\ r.reset \in Alerts!ReportedAs(w)
                /\ w = window[<<r.provider, i>>] => <<r.provider, r.account, i>> \in warned \cup inherited

Dated == /\ \A r \in receipts \cup held.receipts \cup stored.receipts : Accounted(r)
         /\ \A p \in AlertProvider, i \in DOMAIN Rows :
              legacy[<<p, i>>] \notin {None, Alerts!Undated} =>
                  \E w \in 1..window[<<p, i>>] : legacy[<<p, i>>] \in Alerts!ReportedAs(w)

\* Who was told of the present window, in none of the cases that AlertsOnce leaves out.
Announced == warned \ excused

\* Each of them has a receipt that says so, in memory while its account is bound,
\* and on the disk if it can be there.
Notified(k) ==
    LET p == k[1]
        a == k[2]
    IN  /\ bound[p] = a \/ (bound[p] = None /\ a \in Persistent /\ salt /\ p \notin unsaved)
        /\ loaded /\ a \in Persistent => persistence[p] = "stable"
        /\ \E t \in Alerts!ReportedAs(window[<<p, k[3]>>]) :
             LET r == ReceiptOf(p, a, Rows[k[3]], t)
             IN  /\ loaded => r \in receipts
                 /\ a \in Persistent /\ salt /\ p \notin unsaved => r \in held.receipts /\ r \in stored.receipts

\* The inductive invariant.
AlertInv == /\ Alerts!TypeOK
            /\ Owned
            /\ Dated
            /\ \A k \in Announced : Notified(k)
            /\ again \subseteq excused
            /\ owed \subseteq inherited

-----------------------------------------------------------------------------

\* Windows lie at least a gap apart.
LEMMA Multiples ==
  ASSUME NEW v \in Nat, NEW w \in Nat, v < w
  PROVE  v * Gap \in Nat /\ w * Gap \in Nat /\ v * Gap + Gap <= w * Gap
<1>1. PICK d \in Nat : w = v + 1 + d
  <2>1. w - v - 1 \in Nat /\ w = v + 1 + (w - v - 1)
    OBVIOUS
  <2> QED BY <2>1
<1>2. Gap \in Nat /\ d * Gap \in Nat /\ v * Gap \in Nat
  BY AlertsAssumption
<1>3. w * Gap = v * Gap + Gap + d * Gap
  BY <1>1, <1>2
<1> QED BY <1>2, <1>3

\* Two instants are of one window exactly if EPOCH_SLOP takes them for it.
LEMMA WindowsApart ==
  ASSUME NEW v \in 1..ResetWindows, NEW w \in 1..ResetWindows,
         NEW s \in Alerts!ReportedAs(v), NEW t \in Alerts!ReportedAs(w)
  PROVE  /\ Alerts!SameWindow(s, t) <=> v = w
         /\ s \in Alerts!ReportedAs(w) => v = w
<1> DEFINE x == v * Gap
           y == w * Gap
<1>1. v \in Nat /\ w \in Nat /\ x \in Nat /\ y \in Nat
  BY AlertsAssumption
<1>2. (v < w => x + Gap <= y) /\ (w < v => y + Gap <= x) /\ (v = w => x = y)
  BY <1>1, Multiples
<1>3. s \in x..(x + Drift) /\ t \in y..(y + Drift) /\ (s \in Alerts!ReportedAs(w) => s \in y..(y + Drift))
  BY DEF Alerts!ReportedAs
<1> HIDE DEF x, y
<1>4. s \in Nat /\ t \in Nat /\ s # None /\ t # None
  BY <1>1, <1>3, AlertsAssumption
<1>5. Alerts!SameWindow(s, t) <=> Alerts!Abs(t - s) <= Slop
  BY <1>4 DEF Alerts!SameWindow
<1>6. Alerts!Abs(t - s) = IF t < s THEN s - t ELSE t - s
  BY <1>4 DEF Alerts!Abs
<1>7. v = w => Alerts!Abs(t - s) <= Slop
  BY <1>1, <1>2, <1>3, <1>6, AlertsAssumption
<1>8. v < w \/ w < v => ~ (Alerts!Abs(t - s) <= Slop) /\ s \notin y..(y + Drift)
  BY <1>1, <1>2, <1>3, <1>6, AlertsAssumption
<1>9. v = w \/ v < w \/ w < v
  BY <1>1
<1> QED BY <1>3, <1>5, <1>7, <1>8, <1>9

\* The instants a window may be reported at.
LEMMA InstantsTyped ==
  ASSUME NEW w \in 1..ResetWindows, NEW t \in Alerts!ReportedAs(w)
  PROVE  t \in Alerts!Instant /\ t # None /\ t # Alerts!Undated /\ t \in Int
<1> DEFINE x == w * Gap
           y == ResetWindows * Gap
<1>1. w \in Nat /\ ResetWindows \in Nat /\ Gap \in Nat /\ Drift \in Nat /\ x \in Nat /\ y \in Nat /\ 1 <= Gap
  BY AlertsAssumption
<1>2. x <= y /\ Gap <= x
  <2>1. w < ResetWindows => x + Gap <= y
    BY <1>1, Multiples
  <2>2. w = ResetWindows => x = y
    OBVIOUS
  <2>3. w <= ResetWindows /\ 0 < w
    BY <1>1
  <2>4. 0 * Gap + Gap <= x
    BY <1>1, <2>3, Multiples
  <2> HIDE DEF x, y
  <2> QED BY <1>1, <2>1, <2>2, <2>3, <2>4
<1>3. t \in x..(x + Drift)
  BY DEF Alerts!ReportedAs
<1>4. Alerts!Instant = 0..(y + Drift)
  BY DEF Alerts!Instant
<1> HIDE DEF x, y
<1>5. t \in Int /\ 0 < t /\ t <= y + Drift
  BY <1>1, <1>2, <1>3
<1> QED BY <1>1, <1>4, <1>5, AlertsAssumption DEF Alerts!Undated

-----------------------------------------------------------------------------

\* A row of a provider.
Slot == AlertProvider \X DOMAIN Rows

\* The invariant holds at the start.
LEMMA AlertInit == ASSUME Alerts!Init PROVE AlertInv
<1>1. 1 \in 1..ResetWindows
  BY AlertsAssumption
<1>2. /\ receipts = {} /\ loaded = FALSE /\ held = [receipts |-> {}, migrated |-> {}] /\ stored = held
      /\ warned = {} /\ again = {} /\ owed = {} /\ excused = {} /\ inherited = {} /\ unsaved = {}
      /\ salt = TRUE
  BY DEF Alerts!Init, Alerts!NewDocument
<1>3. /\ persistence = [p \in AlertProvider |-> None] /\ bound = [p \in AlertProvider |-> None]
      /\ window = [k \in Slot |-> 1]
      /\ legacy \in [Slot -> {None, Alerts!Undated} \cup Alerts!ReportedAs(1)]
  BY DEF Alerts!Init, Slot, Alerts!Row
<1>4. /\ \A k \in Slot : window[k] = 1 /\ legacy[k] \in {None, Alerts!Undated} \cup Alerts!ReportedAs(1)
      /\ \A p \in AlertProvider : bound[p] = None
  BY <1>3
<1>5. \A t \in Alerts!ReportedAs(1) : t \in Alerts!Instant
  BY <1>1, InstantsTyped
<1>6. Alerts!Undated \in Alerts!Instant
  BY <1>1, AlertsAssumption, InstantsTyped DEF Alerts!Undated, Alerts!Instant, Alerts!ReportedAs
<1>7. Alerts!TypeOK
  <2>1. legacy \in [Slot -> Alerts!Instant \cup {None}]
    BY <1>3, <1>5, <1>6
  <2>2. window \in [Slot -> 1..ResetWindows]
    BY <1>1, <1>3
  <2>3. held \in Alerts!Document /\ stored \in Alerts!Document
    BY <1>2 DEF Alerts!Document
  <2> QED BY <1>2, <1>3, <2>1, <2>2, <2>3 DEF Alerts!TypeOK, Slot, Alerts!Row
<1>8. Owned
  BY <1>2, <1>4 DEF Owned, Own
<1>9. Dated
  <2>1. ASSUME NEW p \in AlertProvider, NEW i \in DOMAIN Rows, legacy[<<p, i>>] \notin {None, Alerts!Undated}
        PROVE  \E w \in 1..window[<<p, i>>] : legacy[<<p, i>>] \in Alerts!ReportedAs(w)
    <3>1. <<p, i>> \in Slot
      BY DEF Slot
    <3>2. window[<<p, i>>] = 1 /\ legacy[<<p, i>>] \in Alerts!ReportedAs(1)
      BY <1>4, <2>1, <3>1
    <3> QED BY <3>2
  <2> QED BY <1>2, <2>1 DEF Dated
<1> QED BY <1>2, <1>7, <1>8, <1>9 DEF AlertInv, Announced

\* The limit resets.
LEMMA WindowKeeps ==
  ASSUME AlertInv, NEW p \in AlertProvider, NEW i \in DOMAIN Rows, Alerts!NextWindow(p, i)
  PROVE  AlertInv'
<1> DEFINE Others(ks) == {k \in ks : k[1] # p \/ k[3] # i}
<1>0. <<p, i>> \in Slot /\ Alerts!TypeOK /\ window \in [Slot -> 1..ResetWindows]
  BY DEF AlertInv, Alerts!TypeOK, Slot, Alerts!Row
<1>1. /\ window[<<p, i>>] < ResetWindows /\ window' = [window EXCEPT ![<<p, i>>] = @ + 1]
      /\ warned' = Others(warned) /\ owed' = Others(owed) /\ excused' = Others(excused)
      /\ inherited' = Others(inherited) /\ again' = {}
      /\ UNCHANGED <<receipts, loaded, persistence, salt, held, stored, legacy, bound, unsaved>>
  BY DEF Alerts!NextWindow
<1>2. /\ window' \in [Slot -> 1..ResetWindows] /\ window'[<<p, i>>] = window[<<p, i>>] + 1
      /\ \A k \in Slot : k # <<p, i>> => window'[k] = window[k]
      /\ \A k \in Slot : window[k] \in 1..ResetWindows /\ window'[k] \in 1..ResetWindows /\ window[k] <= window'[k]
  <2>1. \A k \in Slot : window[k] \in 1..ResetWindows /\ window[k] \in Int
    BY <1>0, AlertsAssumption
  <2>2. window[<<p, i>>] + 1 \in 1..ResetWindows
    BY <1>0, <1>1, <2>1, AlertsAssumption
  <2>3. window' \in [Slot -> 1..ResetWindows] /\ window'[<<p, i>>] = window[<<p, i>>] + 1
    BY <1>0, <1>1, <2>2
  <2>4. \A k \in Slot : k # <<p, i>> => window'[k] = window[k]
    BY <1>0, <1>1
  <2>5. \A k \in Slot : window'[k] \in 1..ResetWindows /\ window[k] <= window'[k]
    BY <2>1, <2>3, <2>4
  <2> QED BY <2>1, <2>3, <2>4, <2>5
<1>3. Alerts!TypeOK'
  BY <1>0, <1>1, <1>2 DEF Alerts!TypeOK, Slot, Alerts!Row
<1>4. Owned'
  BY <1>1 DEF AlertInv, Owned
<1>5. ASSUME NEW r \in receipts \cup held.receipts \cup stored.receipts PROVE Accounted(r)'
  <2>1. Accounted(r) /\ r \in Alerts!Receipt
    BY <1>0 DEF AlertInv, Dated, Alerts!TypeOK, Alerts!Document
  <2>2. r.provider \in AlertProvider
    BY <2>1 DEF Alerts!Receipt
  <2> SUFFICES ASSUME r.reset # None, NEW j \in DOMAIN Rows, r.limit = Rows[j]
               PROVE  \E w \in 1..window'[<<r.provider, j>>] :
                        /\ r.reset \in Alerts!ReportedAs(w)
                        /\ w = window'[<<r.provider, j>>] =>
                             <<r.provider, r.account, j>> \in warned' \cup inherited'
    BY DEF Accounted, Alerts!ReportedAs
  <2>3. PICK w \in 1..window[<<r.provider, j>>] :
              /\ r.reset \in Alerts!ReportedAs(w)
              /\ w = window[<<r.provider, j>>] => <<r.provider, r.account, j>> \in warned \cup inherited
    BY <2>1 DEF Accounted
  <2>4. <<r.provider, j>> \in Slot
    BY <2>2 DEF Slot
  <2>5. w \in 1..window'[<<r.provider, j>>]
    BY <1>2, <2>4
  <2>6. CASE <<r.provider, j>> = <<p, i>>
    <3>1. w # window'[<<r.provider, j>>]
      BY <1>2, <2>4, <2>6
    <3> QED BY <2>3, <2>5, <3>1
  <2>7. CASE <<r.provider, j>> # <<p, i>>
    <3>1. window'[<<r.provider, j>>] = window[<<r.provider, j>>]
      BY <1>2, <2>4, <2>7
    <3>2. r.provider # p \/ j # i
      BY <2>7
    <3>3. <<r.provider, r.account, j>> \in warned \cup inherited =>
            <<r.provider, r.account, j>> \in warned' \cup inherited'
      BY <1>1, <3>2
    <3> QED BY <2>3, <2>5, <3>1, <3>3
  <2> QED BY <2>6, <2>7
<1>6. Dated'
  <2>1. ASSUME NEW q \in AlertProvider, NEW j \in DOMAIN Rows, legacy[<<q, j>>] \notin {None, Alerts!Undated}
        PROVE  \E w \in 1..window'[<<q, j>>] : legacy[<<q, j>>] \in Alerts!ReportedAs(w)
    <3>1. PICK w \in 1..window[<<q, j>>] : legacy[<<q, j>>] \in Alerts!ReportedAs(w)
      BY <2>1 DEF AlertInv, Dated
    <3>2. <<q, j>> \in Slot
      BY DEF Slot
    <3>3. w \in 1..window'[<<q, j>>]
      BY <1>2, <3>2
    <3> QED BY <3>1, <3>3
  <2> QED BY <1>1, <1>5, <2>1 DEF Dated, Alerts!ReportedAs, Alerts!Undated
<1>7. ASSUME NEW k \in Announced' PROVE Notified(k)'
  <2>1. k \in Announced /\ (k[1] # p \/ k[3] # i) /\ Notified(k)
    BY <1>1 DEF AlertInv, Announced
  <2>2. <<k[1], k[3]>> \in Slot
    BY <1>0, <2>1 DEF Alerts!TypeOK, Alerts!Key, Slot, Alerts!Row, Announced
  <2>3. window'[<<k[1], k[3]>>] = window[<<k[1], k[3]>>]
    BY <1>2, <2>1, <2>2
  <2> QED BY <1>1, <2>1, <2>3 DEF Notified, Alerts!ReportedAs
<1>8. again' \subseteq excused' /\ owed' \subseteq inherited'
  BY <1>1 DEF AlertInv
<1> QED BY <1>3, <1>4, <1>6, <1>7, <1>8 DEF AlertInv

\* The program starts again.
LEMMA RestartKeeps == ASSUME AlertInv, Alerts!Restart PROVE AlertInv'
<1>0. Alerts!TypeOK
  BY DEF AlertInv
<1>1. /\ loaded' = FALSE /\ receipts' = {} /\ unsaved' = {} /\ again' = {}
      /\ persistence' = [p \in AlertProvider |-> None] /\ bound' = [p \in AlertProvider |-> None]
      /\ UNCHANGED <<legacy, window, warned, owed, inherited>>
  BY DEF Alerts!Restart
<1>2. \/ /\ held' = stored /\ salt' = TRUE /\ stored' = stored
         /\ excused' = excused \cup {k \in warned : k[1] \in unsaved \/ ~salt \/ k[2] \notin Persistent}
      \/ /\ held' = Alerts!NewDocument /\ salt' \in BOOLEAN
         /\ stored' \in {stored, Alerts!NewDocument} /\ excused' = warned
  BY DEF Alerts!Restart
<1>3. /\ held' \in {stored, Alerts!NewDocument} /\ stored' \in {stored, Alerts!NewDocument}
      /\ Alerts!NewDocument \in Alerts!Document /\ Alerts!NewDocument.receipts = {}
      /\ salt' \in BOOLEAN
  BY <1>2 DEF Alerts!NewDocument, Alerts!Document
<1>4. Announced' \subseteq Announced /\ excused' \subseteq Alerts!Key
  BY <1>0, <1>1, <1>2 DEF Alerts!TypeOK, Announced
<1>5. Alerts!TypeOK'
  BY <1>0, <1>1, <1>3, <1>4 DEF Alerts!TypeOK
<1>6. \A p \in AlertProvider : bound'[p] = None
  BY <1>1
<1>7. Owned'
  BY <1>1, <1>3, <1>6 DEF AlertInv, Owned, Own
<1>8. ASSUME NEW r \in held'.receipts \cup stored'.receipts PROVE Accounted(r)'
  <2>1. Accounted(r)
    BY <1>3 DEF AlertInv, Dated
  <2>2. warned \cup inherited \subseteq warned' \cup inherited'
    BY <1>1
  <2> QED BY <1>1, <2>1, <2>2 DEF Accounted, Alerts!ReportedAs
<1>9. Dated'
  BY <1>1, <1>8 DEF AlertInv, Dated, Alerts!ReportedAs, Alerts!Undated
<1>10. ASSUME NEW k \in Announced' PROVE Notified(k)'
  <2>1. k \in warned /\ k \in Alerts!Key /\ k \notin excused' /\ Notified(k)
    BY <1>0, <1>1, <1>4 DEF AlertInv, Alerts!TypeOK, Announced
  <2>2. /\ k[1] \notin unsaved /\ salt /\ k[2] \in Persistent /\ held' = stored /\ stored' = stored
        /\ salt' = TRUE
    BY <1>2, <2>1
  <2>3. k[1] \in AlertProvider
    BY <2>1 DEF Alerts!Key
  <2> QED BY <1>1, <1>6, <2>1, <2>2, <2>3 DEF Notified, Alerts!ReportedAs
<1> QED BY <1>1, <1>5, <1>7, <1>9, <1>10 DEF AlertInv

-----------------------------------------------------------------------------
\* What select_account keeps and migrates.
LEMMA NextAccount ==
  ASSUME AlertInv, NEW p \in AlertProvider, NEW a \in AlertAccount \cup {None}
  PROVE  LET next == Alerts!NextAccountState(p, a)
         IN  /\ next \in Alerts!Document
             /\ \A r : r.provider # p => (r \in next.receipts <=> r \in held.receipts)
             /\ \A r \in next.receipts : r.provider = p => a \in Persistent /\ r.account = a
             /\ \A r \in held.receipts : r.provider = p /\ a \in Persistent /\ r.account = a => r \in next.receipts
             /\ \A r \in next.receipts : r \notin held.receipts =>
                  /\ r.provider = p /\ a \in Persistent /\ r.account = a
                  /\ \E i \in DOMAIN Rows :
                       /\ legacy[<<p, i>>] # None /\ r.limit = Rows[i]
                       /\ r.reset = IF legacy[<<p, i>>] = Alerts!Undated THEN None ELSE legacy[<<p, i>>]
<1> DEFINE mine == {r \in held.receipts : r.provider # p \/ (a \in Persistent /\ r.account = a)}
           old == Alerts!MigratedReceipts(p, a)
           next == Alerts!NextAccountState(p, a)
<1>1. held \in Alerts!Document /\ held.receipts \subseteq Alerts!Receipt /\ held.migrated \subseteq AlertProvider
  BY DEF AlertInv, Alerts!TypeOK, Alerts!Document
<1>2. ASSUME a \in Persistent, NEW r \in old
      PROVE  /\ r \in Alerts!Receipt /\ r.provider = p /\ r.account = a
             /\ \E i \in DOMAIN Rows :
                  /\ legacy[<<p, i>>] # None /\ r.limit = Rows[i]
                  /\ r.reset = IF legacy[<<p, i>>] = Alerts!Undated THEN None ELSE legacy[<<p, i>>]
  <2>1. PICK i \in DOMAIN Rows :
              /\ legacy[<<p, i>>] # None
              /\ r = [provider |-> p, account |-> a, limit |-> Rows[i],
                      reset |-> IF legacy[<<p, i>>] = Alerts!Undated THEN None ELSE legacy[<<p, i>>],
                      below |-> FALSE]
    BY <1>2 DEF Alerts!MigratedReceipts, Alerts!Row
  <2>2. a \in AlertAccount /\ <<p, i>> \in AlertProvider \X DOMAIN Rows
    BY <1>2, AlertsAssumption
  <2>3. legacy[<<p, i>>] \in Alerts!Instant \cup {None}
    BY <2>2 DEF AlertInv, Alerts!TypeOK, Alerts!Row
  <2>4. r \in Alerts!Receipt
    BY <2>1, <2>2, <2>3 DEF Alerts!Receipt, Alerts!Row
  <2> QED BY <2>1, <2>4
<1> HIDE DEF old
<1>3. CASE a \in Persistent /\ p \notin held.migrated
  <2>1. next = [receipts |-> mine \cup old, migrated |-> held.migrated \cup {p}]
    BY <1>3 DEF Alerts!NextAccountState, old
  <2>2. next.receipts = mine \cup old /\ next \in Alerts!Document
    BY <1>1, <1>2, <1>3, <2>1 DEF Alerts!Document
  <2> HIDE DEF next
  <2>3. \A r : r \in next.receipts <=> r \in mine \/ r \in old
    BY <2>2
  <2>4. \A r : r \in mine <=> r \in held.receipts /\ (r.provider # p \/ r.account = a)
    BY <1>3
  <2> HIDE DEF mine
  <2> QED BY <1>2, <1>3, <2>2, <2>3, <2>4 DEF next
<1>4. CASE ~ (a \in Persistent /\ p \notin held.migrated)
  <2>1. next = [held EXCEPT !.receipts = mine]
    BY <1>4 DEF Alerts!NextAccountState
  <2>2. next.receipts = mine /\ next \in Alerts!Document
    BY <1>1, <2>1 DEF Alerts!Document
  <2> HIDE DEF next
  <2> QED BY <2>2 DEF next
<1> QED BY <1>3, <1>4

\* An account is adopted or given up.
LEMMA AccountKeeps ==
  ASSUME AlertInv, NEW p \in AlertProvider, Alerts!ChangeAccount(p)
  PROVE  AlertInv'
<1>0. PICK a \in AlertAccount \cup {None}, ok \in BOOLEAN :
            a # bound[p] /\ (a \in Persistent => salt) /\ Alerts!AccountChanged(p, a, ok)
  BY DEF Alerts!ChangeAccount
<1> DEFINE next == Alerts!NextAccountState(p, a)
           after == IF next # held /\ salt /\ ok THEN next ELSE held
           sel == {r \in Alerts!Selected(p, a, next, ok) : r.provider = p}
           others == {r \in Alerts!Loaded(after) : r.provider # p}
           lp == Alerts!LoadedPersistence(after)
           level == IF a = None THEN None ELSE Alerts!Level(a)
           gone == {k \in warned : k[1] = p /\ k[2] # a}
           taken == {k \in Alerts!Key : k[1] = p /\ k[2] = a /\ Alerts!Inherits(k, next)}
<1>1. /\ next \in Alerts!Document
      /\ \A r : r.provider # p => (r \in next.receipts <=> r \in held.receipts)
      /\ \A r \in next.receipts : r.provider = p => a \in Persistent /\ r.account = a
      /\ \A r \in held.receipts : r.provider = p /\ a \in Persistent /\ r.account = a => r \in next.receipts
      /\ \A r \in next.receipts : r \notin held.receipts =>
           /\ r.provider = p /\ a \in Persistent /\ r.account = a
           /\ \E i \in DOMAIN Rows :
                /\ legacy[<<p, i>>] # None /\ r.limit = Rows[i]
                /\ r.reset = IF legacy[<<p, i>>] = Alerts!Undated THEN None ELSE legacy[<<p, i>>]
  BY NextAccount
<1>2. /\ receipts' = others \cup sel /\ loaded' = TRUE /\ persistence' = [lp EXCEPT ![p] = level]
      /\ bound' = [bound EXCEPT ![p] = a] /\ excused' = excused \cup gone /\ inherited' = inherited \cup taken
      /\ again' = {} /\ UNCHANGED <<salt, legacy, window, warned, owed>>
  BY <1>0 DEF Alerts!AccountChanged
<1>3. /\ held' = after /\ stored' \in {stored, next}
      /\ unsaved' \subseteq unsaved \cup {p} /\ unsaved \subseteq unsaved' \cup {p}
      /\ p \notin unsaved' => (held' = next /\ stored' = next) \/ (held' = held /\ stored' = stored /\ (next = held \/ ~ salt))
  BY <1>0 DEF Alerts!AccountChanged, Alerts!SaveDocument
<1>4. /\ Alerts!TypeOK /\ held \in Alerts!Document /\ stored \in Alerts!Document
      /\ receipts \subseteq Alerts!Receipt /\ bound \in [AlertProvider -> AlertAccount \cup {None}]
  BY DEF AlertInv, Alerts!TypeOK
<1>5. after \in {next, held} /\ (\A r : r.provider # p => (r \in after.receipts <=> r \in held.receipts))
  BY <1>1
<1>6. /\ \A r \in sel : r \in next.receipts /\ r.provider = p
      /\ \A r \in next.receipts : r.provider = p /\ (salt \/ next = held) => r \in sel
  BY <1>1 DEF Alerts!Selected
<1>7. \A r \in others : r.provider # p /\ (r \in IF loaded THEN receipts ELSE held.receipts)
  BY <1>5 DEF Alerts!Loaded
<1>8. \A r : r.provider # p /\ (r \in IF loaded THEN receipts ELSE held.receipts) => r \in others
  BY <1>5 DEF Alerts!Loaded
<1>9. /\ lp \in [AlertProvider -> {None, "stable", "process"}]
      /\ loaded => lp = persistence
      /\ ~ loaded => \A q \in AlertProvider : (\E r \in after.receipts : r.provider = q) => lp[q] = "stable"
  BY <1>4 DEF Alerts!LoadedPersistence, Alerts!TypeOK
<1>10. level \in {None, "stable", "process"}
  BY DEF Alerts!Level
<1> HIDE DEF next, after, sel, others, lp, level, gone
<1>11. /\ persistence'[p] = level /\ \A q \in AlertProvider \ {p} : persistence'[q] = lp[q]
       /\ persistence' \in [AlertProvider -> {None, "stable", "process"}]
       /\ bound'[p] = a /\ \A q \in AlertProvider \ {p} : bound'[q] = bound[q]
       /\ bound' \in [AlertProvider -> AlertAccount \cup {None}]
  BY <1>2, <1>4, <1>9, <1>10
<1>12. /\ \A r \in next.receipts \cup held.receipts \cup stored.receipts \cup receipts :
            r \in Alerts!Receipt /\ r.provider \in AlertProvider /\ r.account \in AlertAccount
  BY <1>1, <1>4 DEF Alerts!Document, Alerts!Receipt
<1>13. Alerts!TypeOK'
  <2>1. receipts' \subseteq Alerts!Receipt
    BY <1>2, <1>6, <1>7, <1>12
  <2>2. excused' \subseteq Alerts!Key /\ inherited' \subseteq Alerts!Key /\ warned' \subseteq Alerts!Key
    BY <1>2, <1>4 DEF Alerts!TypeOK, gone
  <2>3. held' \in Alerts!Document /\ stored' \in Alerts!Document /\ unsaved' \subseteq AlertProvider
    BY <1>1, <1>3, <1>4, <1>5 DEF Alerts!TypeOK
  <2> QED BY <1>2, <1>4, <1>11, <2>1, <2>2, <2>3 DEF Alerts!TypeOK
<1>14. /\ Own(next.receipts) /\ \A r \in next.receipts : r.account \in Persistent
  BY <1>1 DEF AlertInv, Owned, Own
<1>15. Owned'
  <2>2. /\ Own(held'.receipts) /\ Own(stored'.receipts)
        /\ \A r \in held'.receipts \cup stored'.receipts : r.account \in Persistent
    BY <1>3, <1>5, <1>14 DEF AlertInv, Owned
  <2>3. ASSUME NEW r \in others PROVE
          /\ persistence'[r.provider] = "stable" => r.account \in Persistent
          /\ bound'[r.provider] # None => r.account = bound'[r.provider]
    <3>1. r.provider # p /\ r.provider \in AlertProvider /\ persistence'[r.provider] = lp[r.provider]
          /\ bound'[r.provider] = bound[r.provider]
      BY <1>7, <1>11, <1>12
    <3> QED BY <1>7, <1>9, <2>3, <3>1 DEF AlertInv, Owned
  <2>4. ASSUME NEW r \in sel PROVE
          /\ persistence'[r.provider] = "stable" => r.account \in Persistent
          /\ bound'[r.provider] # None => r.account = bound'[r.provider]
    BY <1>1, <1>6, <1>11
  <2>5. Own(receipts')
    <3>1. Own(IF loaded THEN receipts ELSE held.receipts)
      BY DEF AlertInv, Owned
    <3> QED BY <1>1, <1>2, <1>6, <1>7, <3>1 DEF Own
  <2>6. ASSUME NEW q \in AlertProvider, bound'[q] # None
        PROVE  /\ persistence'[q] = Alerts!Level(bound'[q])
               /\ bound'[q] \in Persistent => salt'
    <3>1. CASE q = p
      BY <1>0, <1>2, <1>11, <2>6, <3>1 DEF level
    <3>2. CASE q # p
      BY <1>2, <1>9, <1>11, <2>6, <3>2 DEF AlertInv, Owned
    <3> QED BY <3>1, <3>2
  <2> QED BY <1>2, <2>2, <2>3, <2>4, <2>5, <2>6 DEF Owned, Own, Alerts!Level
<1>16. warned \cup inherited \subseteq warned' \cup inherited'
  BY <1>2
<1>17. ASSUME NEW r, Accounted(r) PROVE Accounted(r)'
  BY <1>2, <1>16, <1>17 DEF Accounted, Alerts!ReportedAs
<1>18. ASSUME NEW r \in next.receipts, r \notin held.receipts PROVE Accounted(r)'
  <2>1. PICK i \in DOMAIN Rows :
              /\ r.provider = p /\ a \in Persistent /\ r.account = a
              /\ legacy[<<p, i>>] # None /\ r.limit = Rows[i]
              /\ r.reset = IF legacy[<<p, i>>] = Alerts!Undated THEN None ELSE legacy[<<p, i>>]
    BY <1>1, <1>18
  <2> SUFFICES ASSUME r.reset # None, NEW j \in DOMAIN Rows, r.limit = Rows[j]
               PROVE  \E w \in 1..window[<<r.provider, j>>] :
                        /\ r.reset \in Alerts!ReportedAs(w)
                        /\ w = window[<<r.provider, j>>] =>
                             <<r.provider, r.account, j>> \in warned' \cup inherited'
    BY <1>2 DEF Accounted, Alerts!ReportedAs
  <2>2. j = i
    BY <2>1, AlertsAssumption
  <2>3. r.reset = legacy[<<p, i>>] /\ legacy[<<p, i>>] # Alerts!Undated
    BY <2>1
  <2>4. PICK w \in 1..window[<<p, i>>] : r.reset \in Alerts!ReportedAs(w)
    BY <2>1, <2>3 DEF AlertInv, Dated
  <2>5. ASSUME w = window[<<p, i>>] PROVE <<p, a, i>> \in taken
    <3> DEFINE k == <<p, a, i>>
    <3>1. k \in Alerts!Key /\ k[1] = p /\ k[2] = a /\ k[3] = i
      BY <2>1, AlertsAssumption DEF Alerts!Key, Alerts!Row
    <3>2. Alerts!Inherits(k, next)
      BY <1>18, <2>1, <2>4, <2>5, <3>1 DEF Alerts!Inherits
    <3> QED BY <3>1, <3>2
  <2> QED BY <1>2, <2>1, <2>2, <2>4, <2>5
<1>19. Dated'
  <2>1. ASSUME NEW r \in receipts' \cup held'.receipts \cup stored'.receipts PROVE Accounted(r)'
    <3>1. r \in next.receipts \cup held.receipts \cup stored.receipts \cup receipts
      BY <1>2, <1>3, <1>5, <1>6, <1>7
    <3> QED BY <1>17, <1>18, <3>1 DEF AlertInv, Dated
  <2> QED BY <1>2, <2>1 DEF AlertInv, Dated, Alerts!ReportedAs, Alerts!Undated
<1> HIDE DEF taken
<1>20. ASSUME NEW k \in Announced' PROVE Notified(k)'
  <2>1. k \in warned /\ k \in Alerts!Key /\ (k[1] # p \/ k[2] = a) /\ Notified(k)
    BY <1>2, <1>4 DEF AlertInv, Alerts!TypeOK, gone, Announced
  <2>2. k[1] \in AlertProvider /\ k[2] \in AlertAccount /\ k[2] # None
    BY <2>1, AlertsAssumption DEF Alerts!Key
  <2> DEFINE R(t) == ReceiptOf(k[1], k[2], Rows[k[3]], t)
  <2>3. PICK t \in Alerts!ReportedAs(window[<<k[1], k[3]>>]) :
          /\ loaded => R(t) \in receipts
          /\ k[2] \in Persistent /\ salt /\ k[1] \notin unsaved => R(t) \in held.receipts /\ R(t) \in stored.receipts
    BY <2>1 DEF Notified
  <2>4. R(t).provider = k[1] /\ R(t).account = k[2]
    BY DEF ReceiptOf
  <2> DEFINE r == R(t)
  <2> HIDE DEF R
  <2>5. CASE k[1] = p
    <3>1. bound[p] = None /\ a \in Persistent /\ salt /\ p \notin unsaved /\ k[2] = a
      BY <1>0, <2>1, <2>5 DEF Notified
    <3>2. r \in held.receipts /\ r \in stored.receipts /\ r \in next.receipts
      BY <1>1, <2>3, <2>4, <2>5, <3>1
    <3>3. r \in receipts' /\ (p \notin unsaved' => r \in held'.receipts /\ r \in stored'.receipts)
      BY <1>2, <1>3, <1>6, <2>4, <2>5, <3>1, <3>2
    <3>4. bound'[p] = k[2] /\ persistence'[p] = "stable"
      BY <1>11, <2>2, <3>1 DEF level, Alerts!Level
    <3> QED BY <1>2, <2>3, <2>5, <3>3, <3>4 DEF Notified, R, Alerts!ReportedAs
  <2>6. CASE k[1] # p
    <3>1. bound'[k[1]] = bound[k[1]] /\ (k[1] \in unsaved' <=> k[1] \in unsaved)
          /\ persistence'[k[1]] = lp[k[1]]
      BY <1>3, <1>11, <2>2, <2>6
    <3>2. bound'[k[1]] = k[2] \/ (bound'[k[1]] = None /\ k[2] \in Persistent /\ salt' /\ k[1] \notin unsaved')
      BY <1>2, <2>1, <3>1 DEF Notified
    <3>3. ~ loaded => k[2] \in Persistent /\ salt /\ k[1] \notin unsaved /\ r \in held.receipts
      BY <2>1, <2>2, <2>3 DEF AlertInv, Owned, Notified
    <3>4. k[2] \in Persistent => persistence'[k[1]] = "stable"
      BY <1>5, <1>9, <2>1, <2>2, <2>4, <2>6, <3>1, <3>3 DEF Notified
    <3>5. r \in receipts'
      BY <1>2, <1>8, <2>3, <2>4, <2>6, <3>3
    <3>6. k[2] \in Persistent /\ salt' /\ k[1] \notin unsaved' => r \in held'.receipts /\ r \in stored'.receipts
      BY <1>1, <1>2, <1>3, <1>5, <2>3, <2>4, <2>6, <3>1
    <3> QED BY <1>2, <2>3, <3>2, <3>4, <3>5, <3>6 DEF Notified, R, Alerts!ReportedAs
  <2> QED BY <2>5, <2>6
<1>21. again' \subseteq excused' /\ owed' \subseteq inherited'
  BY <1>2 DEF AlertInv
<1> QED BY <1>13, <1>15, <1>19, <1>20, <1>21 DEF AlertInv

-----------------------------------------------------------------------------
\* A fresh snapshot is observed.
LEMMA ObservationKeeps ==
  ASSUME AlertInv, NEW p \in AlertProvider, Alerts!Observation(p)
  PROVE  AlertInv'
<1>0. PICK seen \in [DOMAIN Rows -> UNION {Alerts!Report(p, i) : i \in DOMAIN Rows}] :
            (\A i \in DOMAIN Rows : seen[i] \in Alerts!Report(p, i)) /\ Alerts!Check(p, seen)
  BY DEF Alerts!Observation, Alerts!Row
<1> DEFINE a == bound[p]
           all == Alerts!Observed(p, a, seen)
           Ks(is) == {<<p, a, i>> : i \in is}
           unnamed == {i \in DOMAIN Rows : seen[i] # None /\ seen[i].reset = None}
           high == {i \in DOMAIN Rows : seen[i] # None /\ seen[i].high} \ unnamed
           P == Alerts!Persistable(all.receipts)
           doc1 == [held EXCEPT !.receipts = P]
           heard == [k \in DOMAIN legacy |-> IF k[1] # p \/ k[2] \notin all.fired THEN legacy[k]
                                             ELSE IF seen[k[2]].reset = None THEN Alerts!Undated
                                             ELSE seen[k[2]].reset]
<1>1. /\ a # None /\ receipts' = all.receipts /\ legacy' \in {legacy, heard}
      /\ warned' = warned \cup Ks(all.fired) /\ again' = Ks(all.fired) \cap warned
      /\ excused' = excused \cup (Ks(unnamed) \cap warned')
      /\ owed' = (owed \cup (Ks(high) \ warned)) \ Ks(all.fired)
      /\ UNCHANGED <<loaded, persistence, salt, bound, window, inherited>>
  BY <1>0 DEF Alerts!Check, Alerts!Row
<1>2. \/ /\ all.receipts # receipts /\ salt /\ held' = doc1 /\ stored' = doc1 /\ unsaved' = {}
      \/ /\ all.receipts # receipts /\ salt /\ held' = held /\ stored' \in {stored, doc1}
         /\ unsaved' = unsaved \cup {p}
      \/ /\ all.receipts = receipts \/ ~ salt
         /\ held' = held /\ stored' = stored /\ unsaved' = unsaved
  BY <1>0 DEF Alerts!Check, Alerts!SaveDocument
<1>3. /\ Alerts!TypeOK /\ held \in Alerts!Document /\ stored \in Alerts!Document
      /\ receipts \subseteq Alerts!Receipt /\ a \in AlertAccount /\ loaded
      /\ persistence[p] = Alerts!Level(a)
  BY <1>1 DEF AlertInv, Alerts!TypeOK, Owned
<1>4. \A i \in DOMAIN Rows : <<p, i>> \in Slot /\ window[<<p, i>>] \in 1..ResetWindows
  BY <1>3 DEF Slot, Alerts!TypeOK, Alerts!Row
<1>5. \A i \in DOMAIN Rows : seen[i] # None =>
        /\ seen[i] \in [high : BOOLEAN, reset : Alerts!Instant \cup {None}]
        /\ seen[i].reset # None => seen[i].reset \in Alerts!ReportedAs(window[<<p, i>>])
  BY <1>0, <1>4, InstantsTyped DEF Alerts!Report
<1>6. seen \in Snapshot
  BY <1>0, <1>5 DEF Snapshot
<1>7. RowsDone(Len(Rows), all, p, a, seen) /\ DOMAIN Rows = 1..Len(Rows)
  BY <1>3, <1>6, ObservedFacts, AlertsAssumption
<1> HIDE DEF a, all, P, doc1, unnamed, high, heard
<1>8. /\ all.receipts \subseteq Alerts!Receipt /\ all.fired \subseteq DOMAIN Rows
      /\ \A r \in all.receipts : r \in receipts \/ (r.provider = p /\ r.account = a)
      /\ \A r : r.provider # p => (r \in all.receipts <=> r \in receipts)
  BY <1>7 DEF RowsDone, Alerts!SameLimit
<1>9. \A i \in DOMAIN Rows : <<p, a, i>> \in Alerts!Key
  BY <1>3 DEF Alerts!Key, Alerts!Row
<1>10. doc1 \in Alerts!Document /\ doc1.receipts = P /\ P \subseteq all.receipts
       /\ \A r \in all.receipts : persistence[r.provider] = "stable" <=> r \in P
  <2>1. P = {r \in all.receipts : persistence[r.provider] = "stable"}
    BY DEF P, Alerts!Persistable
  <2>2. P \subseteq Alerts!Receipt
    BY <1>8, <2>1
  <2> QED BY <1>3, <2>1, <2>2 DEF doc1, Alerts!Document
<1>11. /\ held' \in {held, doc1} /\ stored' \in {stored, doc1} /\ unsaved' \subseteq unsaved \cup {p}
  BY <1>2
<1>12. \A i \in all.fired : i \in DOMAIN Rows /\ seen[i] # None
  BY <1>7, <1>8 DEF RowsDone
<1>24. ASSUME NEW i \in all.fired, seen[i].reset # None
       PROVE  /\ ReceiptOf(p, a, Rows[i], seen[i].reset) \in all.receipts
              /\ Matching(receipts, p, a, Rows[i], seen[i].reset) = {}
  BY <1>7, <1>24 DEF RowsDone
<1>23. Alerts!Undated \in Alerts!Instant
  <2>1. 1 \in 1..ResetWindows /\ 1 * Gap \in Nat
    BY AlertsAssumption
  <2>2. 1 * Gap \in Alerts!ReportedAs(1)
    BY <2>1, AlertsAssumption DEF Alerts!ReportedAs
  <2>3. 1 * Gap \in Alerts!Instant /\ 1 * Gap \in Int
    BY <2>1, <2>2, InstantsTyped
  <2> QED BY <2>3, AlertsAssumption DEF Alerts!Undated, Alerts!Instant
<1>13. legacy' \in [Slot -> Alerts!Instant \cup {None}]
  <2>1. legacy \in [Slot -> Alerts!Instant \cup {None}]
    BY <1>3 DEF Alerts!TypeOK, Slot, Alerts!Row
  <2>2. heard \in [Slot -> Alerts!Instant \cup {None}]
    <3>1. \A k \in Slot : heard[k] = IF k[1] # p \/ k[2] \notin all.fired THEN legacy[k]
                                     ELSE IF seen[k[2]].reset = None THEN Alerts!Undated
                                     ELSE seen[k[2]].reset
      BY <2>1 DEF heard
    <3>2. \A i \in all.fired : seen[i].reset \in Alerts!Instant \cup {None}
      <4> TAKE i \in all.fired
      <4>1. i \in DOMAIN Rows /\ seen[i] # None
        BY <1>12
      <4>2. seen[i] \in [high : BOOLEAN, reset : Alerts!Instant \cup {None}]
        BY <1>5, <4>1
      <4> QED BY <4>2
    <3>4. heard = [k \in Slot |-> heard[k]]
      BY <2>1 DEF heard
    <3> QED BY <1>23, <2>1, <3>1, <3>2, <3>4
  <2> QED BY <1>1, <2>1, <2>2
<1>14. Alerts!TypeOK'
  <2>1. /\ excused' \subseteq Alerts!Key /\ warned' \subseteq Alerts!Key
        /\ again' \subseteq Alerts!Key /\ owed' \subseteq Alerts!Key
    BY <1>1, <1>3, <1>8, <1>9 DEF Alerts!TypeOK, unnamed, high
  <2>2. held' \in Alerts!Document /\ stored' \in Alerts!Document /\ unsaved' \subseteq AlertProvider
    BY <1>3, <1>10, <1>11 DEF Alerts!TypeOK
  <2> QED BY <1>1, <1>3, <1>8, <1>13, <2>1, <2>2 DEF Alerts!TypeOK, Slot, Alerts!Row
<1>15. Owned'
  <2>1. Own(all.receipts)
    BY <1>1, <1>8 DEF AlertInv, Owned, Own, a
  <2>2. \A r \in P : r.account \in Persistent
    BY <1>3, <1>8, <1>10 DEF AlertInv, Owned, Alerts!Level
  <2>3. \A r \in all.receipts : persistence[r.provider] = "stable" => r.account \in Persistent
    BY <1>10, <2>2
  <2>4. \A r \in all.receipts : bound[r.provider] # None => r.account = bound[r.provider]
    BY <1>8 DEF AlertInv, Owned, a
  <2>5. Own(P)
    BY <1>10, <2>1 DEF Own
  <2> QED BY <1>1, <1>10, <1>11, <2>1, <2>2, <2>3, <2>4, <2>5 DEF AlertInv, Owned, Own, Alerts!Level
<1>16. warned \cup inherited \subseteq warned' \cup inherited'
  BY <1>1
<1>17. ASSUME NEW r \in all.receipts PROVE Accounted(r)'
  <2>1. CASE r \in receipts
    <3>1. Accounted(r)
      BY <2>1 DEF AlertInv, Dated
    <3> QED BY <1>1, <1>16, <3>1 DEF Accounted, Alerts!ReportedAs
  <2>2. CASE r.reset # None /\ r \notin receipts
    <3>1. PICK i \in all.fired : seen[i] # None /\ r = ReceiptOf(p, a, Rows[i], seen[i].reset)
      BY <1>7, <2>2 DEF RowsDone
    <3>2. /\ r.provider = p /\ r.account = a /\ r.limit = Rows[i] /\ r.reset = seen[i].reset
          /\ i \in DOMAIN Rows
      BY <1>8, <3>1 DEF ReceiptOf
    <3>3. r.reset \in Alerts!ReportedAs(window[<<p, i>>]) /\ window[<<p, i>>] \in 1..window[<<p, i>>]
      BY <1>4, <1>5, <2>2, <3>1, <3>2, AlertsAssumption
    <3>4. <<p, a, i>> \in warned'
      BY <1>1
    <3>5. \A j \in DOMAIN Rows : r.limit = Rows[j] => j = i
      BY <3>2, AlertsAssumption
    <3> QED BY <1>1, <3>2, <3>3, <3>4, <3>5 DEF Accounted, Alerts!ReportedAs
  <2>3. CASE r.reset = None
    BY <2>3 DEF Accounted
  <2> QED BY <2>1, <2>2, <2>3
<1>18. Dated'
  <2>1. ASSUME NEW r \in receipts' \cup held'.receipts \cup stored'.receipts PROVE Accounted(r)'
    <3>1. CASE r \in all.receipts
      BY <1>17, <3>1
    <3>2. CASE r \in held.receipts \cup stored.receipts
      <4>1. Accounted(r)
        BY <3>2 DEF AlertInv, Dated
      <4> QED BY <1>1, <1>16, <4>1 DEF Accounted, Alerts!ReportedAs
    <3> QED BY <1>1, <1>10, <1>11, <3>1, <3>2
  <2>2. ASSUME NEW q \in AlertProvider, NEW i \in DOMAIN Rows, legacy'[<<q, i>>] \notin {None, Alerts!Undated}
        PROVE  \E w \in 1..window[<<q, i>>] : legacy'[<<q, i>>] \in Alerts!ReportedAs(w)
    <3>1. CASE legacy'[<<q, i>>] = legacy[<<q, i>>]
      BY <2>2, <3>1 DEF AlertInv, Dated
    <3>2. CASE legacy'[<<q, i>>] # legacy[<<q, i>>]
      <4>1. <<q, i>> \in DOMAIN legacy /\ legacy' = heard
        BY <1>1, <1>3, <3>2 DEF Alerts!TypeOK, Alerts!Row
      <4>2. q = p /\ i \in all.fired /\ legacy'[<<q, i>>] = seen[i].reset /\ seen[i].reset # None
        BY <2>2, <3>2, <4>1 DEF heard
      <4>3. seen[i].reset \in Alerts!ReportedAs(window[<<p, i>>]) /\ window[<<p, i>>] \in 1..window[<<p, i>>]
        <5>1. i \in DOMAIN Rows /\ seen[i] # None
          BY <1>12, <4>2
        <5>2. window[<<p, i>>] \in 1..window[<<p, i>>]
          BY <1>4, <5>1, AlertsAssumption
        <5> QED BY <1>5, <4>2, <5>1, <5>2
      <4> QED BY <4>2, <4>3
    <3> QED BY <3>1, <3>2
  <2> QED BY <1>1, <2>1, <2>2 DEF Dated, Alerts!ReportedAs, Alerts!Undated
\* A receipt of the present window matches whatever instant the window is reported with.
<1>19. ASSUME NEW i \in DOMAIN Rows, NEW t \in Alerts!ReportedAs(window[<<p, i>>]),
              seen[i] # None, seen[i].reset # None
       PROVE  Alerts!SameWindow(t, seen[i].reset)
  BY <1>4, <1>5, <1>19, WindowsApart
<1>20. ASSUME NEW k \in Announced' PROVE Notified(k)'
  <2>1. CASE k \in Ks(all.fired)
    <3>1. PICK i \in all.fired : k = <<p, a, i>>
      BY <2>1
    <3>2. i \notin unnamed /\ i \in DOMAIN Rows /\ seen[i] # None
      <4>1. k \notin Ks(unnamed)
        BY <1>1 DEF Announced
      <4>2. i \notin unnamed
        BY <3>1, <4>1
      <4> QED BY <1>12, <3>1, <4>2
    <3> DEFINE t == seen[i].reset
               r == ReceiptOf(p, a, Rows[i], t)
    <3>3. t # None /\ t \in Alerts!ReportedAs(window[<<p, i>>])
      BY <1>5, <3>2 DEF unnamed
    <3>4. r \in all.receipts /\ Matching(receipts, p, a, Rows[i], t) = {}
      BY <1>24, <3>1, <3>3
    <3>5. r.provider = p /\ Alerts!SameLimit(r, p, a, Rows[i]) /\ r.reset = t
      BY DEF ReceiptOf, Alerts!SameLimit
    <3> HIDE DEF t, r
    <3>6. r \notin receipts
      BY <1>19, <3>2, <3>3, <3>4, <3>5 DEF Matching, t
    <3>7. a \in Persistent => persistence[p] = "stable"
      BY <1>3 DEF Alerts!Level
    <3>8. a \in Persistent /\ salt /\ p \notin unsaved' => r \in held'.receipts /\ r \in stored'.receipts
      BY <1>2, <1>10, <3>4, <3>5, <3>6, <3>7
    <3>9. k[1] = p /\ k[2] = a /\ k[3] = i
      BY <3>1
    <3> QED BY <1>1, <3>3, <3>4, <3>7, <3>8, <3>9 DEF Notified, Alerts!ReportedAs, r, a
  <2>2. CASE k \in Announced /\ k \notin Ks(all.fired)
    <3>1. Notified(k) /\ k \in Alerts!Key /\ k[3] \in DOMAIN Rows /\ k[1] \in AlertProvider
      BY <1>3, <2>2 DEF AlertInv, Alerts!TypeOK, Alerts!Key, Alerts!Row, Announced
    <3> DEFINE R(t) == ReceiptOf(k[1], k[2], Rows[k[3]], t)
    <3>2. PICK t \in Alerts!ReportedAs(window[<<k[1], k[3]>>]) :
            /\ R(t) \in receipts
            /\ k[2] \in Persistent /\ salt /\ k[1] \notin unsaved => R(t) \in held.receipts /\ R(t) \in stored.receipts
      BY <1>3, <3>1 DEF Notified
    <3> DEFINE r == R(t)
    <3>3. r.provider = k[1] /\ r.reset = t /\ Alerts!SameLimit(r, k[1], k[2], Rows[k[3]])
      BY DEF ReceiptOf, Alerts!SameLimit
    <3> HIDE DEF R
    <3>4. k[1] = p => k[2] = a
      BY <1>1, <3>1 DEF Notified, a
    <3>5. r \in all.receipts
      <4>1. CASE k[1] # p
        BY <1>8, <3>2, <3>3, <4>1
      <4>2. CASE k[1] = p
        <5>1. k = <<p, a, k[3]>>
          BY <3>1, <3>4, <4>2 DEF Alerts!Key
        <5>2. k[3] \notin unnamed
          BY <1>1, <5>1 DEF Announced
        <5>3. seen[k[3]] # None => seen[k[3]].reset # None /\ Alerts!SameWindow(r.reset, seen[k[3]].reset)
          BY <1>19, <3>1, <3>2, <3>3, <4>2, <5>2 DEF unnamed
        <5>4. r.reset # None
          BY <1>4, <3>1, <3>2, <3>3, <4>2, InstantsTyped
        <5> QED BY <1>7, <3>1, <3>2, <3>3, <3>4, <4>2, <5>3, <5>4 DEF RowsDone
      <4> QED BY <4>1, <4>2
    <3>6. k[2] \in Persistent => persistence[k[1]] = "stable"
      BY <1>3, <3>1 DEF Notified
    <3>7. k[2] \in Persistent /\ salt /\ k[1] \notin unsaved' => r \in held'.receipts /\ r \in stored'.receipts
      BY <1>2, <1>10, <3>2, <3>3, <3>5, <3>6
    <3>8. bound[k[1]] = k[2] \/ (bound[k[1]] = None /\ k[2] \in Persistent /\ salt /\ k[1] \notin unsaved')
      BY <1>1, <1>11, <3>1 DEF Notified, a
    <3> QED BY <1>1, <3>2, <3>5, <3>6, <3>7, <3>8 DEF Notified, R, Alerts!ReportedAs
  <2> QED BY <1>1, <2>1, <2>2 DEF Announced
<1>21. again' \subseteq excused'
  <2> SUFFICES ASSUME NEW k \in Ks(all.fired) \cap warned, k \notin excused' PROVE FALSE
    BY <1>1
  <2>1. PICK i \in all.fired : k = <<p, a, i>>
    OBVIOUS
  <2>2. i \notin unnamed /\ i \in DOMAIN Rows /\ seen[i] # None /\ k[1] = p /\ k[2] = a /\ k[3] = i
    <3>1. k \notin Ks(unnamed)
      BY <1>1
    <3>2. i \notin unnamed
      BY <2>1, <3>1
    <3> QED BY <1>12, <2>1, <3>2
  <2>3. seen[i].reset # None /\ Matching(receipts, p, a, Rows[i], seen[i].reset) = {}
    <3>1. seen[i].reset # None
      BY <2>2 DEF unnamed
    <3> QED BY <1>24, <2>1, <3>1
  <2>4. PICK t \in Alerts!ReportedAs(window[<<p, i>>]) : ReceiptOf(p, a, Rows[i], t) \in receipts
    BY <1>1, <1>3, <2>2 DEF AlertInv, Notified, Announced
  <2>5. ReceiptOf(p, a, Rows[i], t) \in Matching(receipts, p, a, Rows[i], seen[i].reset)
    BY <1>19, <2>2, <2>3, <2>4 DEF Matching, ReceiptOf, Alerts!SameLimit
  <2> QED BY <2>3, <2>5
<1>22. owed' \subseteq inherited'
  <2> SUFFICES ASSUME NEW k \in Ks(high), k \notin warned, k \notin Ks(all.fired)
               PROVE  k \in inherited
    BY <1>1 DEF AlertInv
  <2>1. PICK i \in high : k = <<p, a, i>>
    OBVIOUS
  <2>2. i \in DOMAIN Rows /\ seen[i] # None /\ seen[i].high /\ seen[i].reset # None /\ i \notin all.fired
    BY <2>1 DEF high, unnamed
  <2>3. PICK r \in receipts : Alerts!SameLimit(r, p, a, Rows[i]) /\ Alerts!SameWindow(r.reset, seen[i].reset)
    BY <1>7, <2>2 DEF RowsDone, Matching
  <2>4. r.reset # None /\ r.provider = p /\ r.account = a /\ r.limit = Rows[i]
    BY <2>2, <2>3 DEF Alerts!SameWindow, Alerts!SameLimit
  <2>5. PICK w \in 1..window[<<p, i>>] :
               /\ r.reset \in Alerts!ReportedAs(w)
               /\ w = window[<<p, i>>] => k \in warned \cup inherited
    BY <2>1, <2>2, <2>4 DEF AlertInv, Dated, Accounted
  <2>6. w \in 1..ResetWindows
    BY <1>4, <2>2, <2>5, AlertsAssumption
  <2>7. w = window[<<p, i>>]
    BY <1>4, <1>5, <2>2, <2>3, <2>5, <2>6, WindowsApart
  <2> QED BY <2>5, <2>7
<1> QED BY <1>1, <1>14, <1>15, <1>18, <1>20, <1>21, <1>22 DEF AlertInv

\* alerts.rs, runtime_state.rs: whatever is observed, whoever signs in, however a window's instant
\* drifts, whichever saves fail and whenever the program starts again: an account that is warned
\* of a window twice was in between reported without an instant, given up, or left without a
\* receipt on the disk at a restart; nobody is missed because of another receipt, and what is
\* saved is of one stable account per provider.
THEOREM AlertsRepeatForAReason == Spec => []AlertsOnce
<1>1. Init => AlertInv
  BY AlertInit DEF Init
<1>2. ASSUME AlertInv, [Next]_vars PROVE AlertInv'
  <2>1. CASE AlertsStep
    BY <1>2, <2>1, AccountKeeps, ObservationKeeps, WindowKeeps, RestartKeeps DEF AlertsStep
  <2>2. CASE (Next /\ ~ AlertsStep) \/ UNCHANGED vars
    <3>1. UNCHANGED alertsVars
      BY <2>2 DEF Next, vars, StoreStep, ConfigStep, AuthStep, CodexStep, RequestStep, LogStep, CheckStep,
                  UsageStep, VerdictStep, InStore, InConfig, InAuth,
                  InCodex, InRequest, InLog, InCheck, InUsage, InVerdict
    <3>2. Alerts!TypeOK' /\ Owned' /\ Dated'
      BY <1>2, <3>1 DEF AlertInv, Alerts!TypeOK, Owned, Own, Dated, Accounted, Alerts!ReportedAs,
                        Alerts!Undated, alertsVars
    <3>3. \A k \in Announced' : Notified(k)'
      BY <1>2, <3>1 DEF AlertInv, Announced, Notified, Alerts!ReportedAs, alertsVars
    <3> QED BY <1>2, <3>1, <3>2, <3>3 DEF AlertInv, alertsVars
  <2> QED BY <1>2, <2>1, <2>2
<1>3. AlertInv => AlertsOnce
  BY DEF AlertInv, AlertsOnce, Owned, Own, Alerts!OnceWhileKept, Alerts!NeverSilenced, Alerts!SavedReceiptsAreOwn
<1> QED BY <1>1, <1>2, <1>3, PTL DEF Spec

=============================================================================
