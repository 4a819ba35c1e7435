----------------------------- MODULE AtomicStore -----------------------------
(***************************************************************************)
(* The atomic JSON store of store.rs: one document, its backup generation  *)
(* and the temporary files of every operation under way.  A step ends      *)
(* where a crash, a failing file operation or another process can tell the *)
(* difference: at each file operation that changes a name or reads one.    *)
(***************************************************************************)
EXTENDS Naturals, FiniteSets

CONSTANTS Procs,      \* the processes that open the document
          Savers,     \* those of them that save it
          Values,     \* the documents that parse
          Missing,    \* no file under that name
          Corrupt,    \* a file that does not parse
          MaxDamage   \* bound: how often the disk damages a file

VARIABLES target,     \* the document
          backup,     \* its ".bak" sibling
          kept,       \* documents moved to a ".corrupt" sibling
          at,         \* program counter of every process
          doc,        \* the document a save writes
          copy,       \* the content of a process's temporary file
          had,        \* had_existing
          outcome,    \* the last result
          committed,  \* history: every document a save put in place
          raced,      \* history: processes whose operation overlapped another's
          damage      \* history: how often a file was damaged

files == <<target, backup, kept>>
vars == <<target, backup, kept, at, doc, copy, had, outcome, committed, raced, damage>>

Files == Values \cup {Missing, Corrupt}

Counters == {"idle", "temporary", "existing", "replace", "install", "move", "validate", "remove",
             "restore", "put", "revalidate", "read", "preserve", "backup"}

Init == /\ target = Missing
        /\ backup = Missing
        /\ kept = 0
        /\ at = [p \in Procs |-> "idle"]
        /\ doc = [p \in Procs |-> Missing]
        /\ copy = [p \in Procs |-> Missing]
        /\ had = [p \in Procs |-> FALSE]
        /\ outcome = [p \in Procs |-> "none"]
        /\ committed = {}
        /\ raced = {}
        /\ damage = 0

Busy == {p \in Procs : at[p] # "idle"}

Overlaps(p) == IF Busy \ {p} = {} THEN raced \ {p} ELSE raced \cup Busy \cup {p}

Go(p, to) == at' = [at EXCEPT ![p] = to]

\* An operation ends: its temporary file is in place or removed by the guard.
Return(p, result) == /\ Go(p, "idle")
                     /\ outcome' = [outcome EXCEPT ![p] = result]
                     /\ copy' = [copy EXCEPT ![p] = Missing]
                     /\ UNCHANGED <<doc, had, committed, raced, damage>>

Continue(p, to) == /\ Go(p, to)
                   /\ UNCHANGED <<doc, copy, had, outcome, committed, raced, damage>>

\* An operation is a load when it carries no document to save.
Saving(p) == doc[p] # Missing

Fails(p) == Return(p, "failed") /\ UNCHANGED files

-----------------------------------------------------------------------------
\* save: the document is encoded, and decoded again, before any file is touched.
BeginSave(p, v) ==
    /\ at[p] = "idle"
    /\ p \in Savers
    /\ Go(p, "temporary")
    /\ doc' = [doc EXCEPT ![p] = v]
    /\ outcome' = [outcome EXCEPT ![p] = "none"]
    /\ raced' = Overlaps(p)
    /\ UNCHANGED <<files, copy, had, committed, damage>>

WriteTemporary(p) ==
    /\ at[p] = "temporary"
    /\ \/ /\ copy' = [copy EXCEPT ![p] = doc[p]]
          /\ Go(p, "existing")
          /\ UNCHANGED <<files, doc, had, outcome, committed, raced, damage>>
       \/ Fails(p)

\* A document that does not parse is never replaced.
ReadExisting(p) ==
    /\ at[p] = "existing"
    /\ \/ /\ target # Corrupt
          /\ had' = [had EXCEPT ![p] = target # Missing]
          /\ Go(p, IF target = Missing THEN "move" ELSE "replace")
          /\ UNCHANGED <<files, doc, copy, outcome, committed, raced, damage>>
       \/ Fails(p)

\* Mutant of ReplaceMovesOld: the old document is deleted instead of kept.
ReplaceDeletesOld(p) ==
    /\ at[p] = "replace"
    /\ target # Missing
    /\ target' = Missing
    /\ UNCHANGED <<backup, kept>>
    /\ Continue(p, "install")

\* ReplaceFileW renames the document to the backup, then the temporary file to
\* the document; it may fail before, between and, if the name is taken, after.
ReplaceMovesOld(p) ==
    /\ at[p] = "replace"
    /\ \/ /\ target # Missing
          /\ backup' = target
          /\ target' = Missing
          /\ UNCHANGED kept
          /\ Continue(p, "install")
       \/ Fails(p)

Install(p, from) ==
    /\ at[p] = from
    /\ \/ /\ target = Missing
          /\ target' = copy[p]
          /\ committed' = committed \cup {copy[p]}
          /\ copy' = [copy EXCEPT ![p] = Missing]
          /\ Go(p, "validate")
          /\ UNCHANGED <<backup, kept, doc, had, outcome, raced, damage>>
       \/ Fails(p)

\* The validations after the commit; any of them may fail.
Validate(p) ==
    /\ at[p] = "validate"
    /\ UNCHANGED files
    /\ \/ /\ target \in Values
          /\ had[p] => backup \in Values
          /\ Return(p, "saved")
       \/ Continue(p, IF had[p] THEN "restore" ELSE "remove")

RemoveUnconfirmed(p) ==
    /\ at[p] = "remove"
    /\ \/ /\ target' = Missing
          /\ UNCHANGED <<backup, kept>>
          /\ Return(p, "failed")
       \/ Fails(p)

-----------------------------------------------------------------------------
\* restore_verified_backup, reached from a failed save and from a load.
CopyBackup(p) ==
    /\ at[p] = "restore"
    /\ \/ /\ backup \in Values
          /\ copy' = [copy EXCEPT ![p] = backup]
          /\ Go(p, "put")
          /\ UNCHANGED <<files, doc, had, outcome, committed, raced, damage>>
       \/ Fails(p)

\* move_into_place replaces whatever exists at that moment.
PutBackup(p) ==
    /\ at[p] = "put"
    /\ \/ /\ target' = copy[p]
          /\ UNCHANGED <<backup, kept>>
          /\ Continue(p, "revalidate")
       \/ Fails(p)

\* A load answers with what it read from the backup; a save reports its error.
Revalidate(p) ==
    /\ at[p] = "revalidate"
    /\ \/ /\ target \in Values
          /\ backup \in Values
          /\ Return(p, IF Saving(p) THEN "failed" ELSE copy[p])
          /\ UNCHANGED files
       \/ Fails(p)

-----------------------------------------------------------------------------
BeginLoad(p) ==
    /\ at[p] = "idle"
    /\ Go(p, "read")
    /\ doc' = [doc EXCEPT ![p] = Missing]
    /\ outcome' = [outcome EXCEPT ![p] = "none"]
    /\ raced' = Overlaps(p)
    /\ UNCHANGED <<files, copy, had, committed, damage>>

ReadTarget(p) ==
    /\ at[p] = "read"
    /\ UNCHANGED files
    /\ \/ target \in Values /\ Return(p, target)
       \/ target = Missing /\ Continue(p, "backup")
       \/ target = Corrupt /\ Continue(p, "preserve")
       \/ Return(p, "failed")

\* preserve_corrupt_target moves whatever bears the name by now.
PreserveCorrupt(p) ==
    /\ at[p] = "preserve"
    /\ \/ /\ target # Missing
          /\ target' = Missing
          /\ kept' = kept + 1
          /\ UNCHANGED backup
          /\ Continue(p, "backup")
       \/ Fails(p)

\* load_backup_or_missing; without a valid backup there is nothing to return,
\* whether the answer is Missing or CorruptPreserved.
LoadBackup(p) ==
    /\ at[p] = "backup"
    /\ UNCHANGED files
    /\ \/ backup \in Values /\ Continue(p, "restore")
       \/ backup \notin Values /\ Return(p, Missing)
       \/ Return(p, "failed")

-----------------------------------------------------------------------------
\* The process dies; its temporary file has a name nobody uses again.
Crash(p) ==
    /\ at[p] # "idle"
    /\ Return(p, "crashed")
    /\ UNCHANGED files

\* A file is damaged at rest by something else than this program.
DamageFile ==
    /\ Busy = {}
    /\ damage < MaxDamage
    /\ damage' = damage + 1
    /\ \/ target \in Values /\ target' = Corrupt /\ UNCHANGED backup
       \/ target \in Values /\ target' = Missing /\ UNCHANGED backup
       \/ backup \in Values /\ backup' = Corrupt /\ UNCHANGED target
    /\ UNCHANGED <<kept, at, doc, copy, had, outcome, committed, raced>>

Save(p) == \/ WriteTemporary(p)
           \/ ReadExisting(p)
           \/ ReplaceMovesOld(p)
           \/ Install(p, "install")
           \/ Install(p, "move")
           \/ Validate(p)
           \/ RemoveUnconfirmed(p)

Load(p) == \/ ReadTarget(p)
           \/ PreserveCorrupt(p)
           \/ LoadBackup(p)

Restore(p) == CopyBackup(p) \/ PutBackup(p) \/ Revalidate(p)

Next == \/ \E p \in Procs, v \in Values : BeginSave(p, v)
        \/ \E p \in Procs : BeginLoad(p)
        \/ \E p \in Procs : Save(p)
        \/ \E p \in Procs : Load(p)
        \/ \E p \in Procs : Restore(p)
        \/ \E p \in Procs : Crash(p)
        \/ DamageFile

Spec == Init /\ [][Next]_vars

-----------------------------------------------------------------------------
TypeOK == /\ target \in Files
          /\ backup \in Files
          /\ kept \in Nat
          /\ at \in [Procs -> Counters]
          /\ doc \in [Procs -> Values \cup {Missing}]
          /\ copy \in [Procs -> Values \cup {Missing}]
          /\ had \in [Procs -> BOOLEAN]
          /\ outcome \in [Procs -> Values \cup {"none", "saved", "failed", "crashed", Missing}]
          /\ committed \subseteq Values
          /\ raced \subseteq Procs
          /\ damage \in 0..MaxDamage

\* A document that does not parse is never destroyed, whatever a save, a load
\* or both together do: it leaves its name only for a sibling of its own
\* (preserve_corrupt_target, and the refusal of save to replace it).
CorruptIsKept == [][(target = Corrupt /\ target' # Corrupt) => kept' = kept + 1]_vars

-----------------------------------------------------------------------------
Stage(p) == CASE at[p] = "idle" -> "idle"
              [] at[p] # "idle" /\ ~Saving(p) -> "reading"
              [] Saving(p) /\ at[p] \in {"temporary", "existing", "replace", "install", "move"} -> "writing"
              [] Saving(p) /\ at[p] \in {"validate", "remove", "restore", "put"} -> "written"
              [] Saving(p) /\ at[p] = "revalidate" -> "undone"

Valid(file) == IF file \in Values THEN file ELSE Missing

Register == INSTANCE DurableRegister WITH
    None <- Missing,
    cur <- IF target \in Values THEN target ELSE Valid(backup),
    prev <- Valid(backup),
    ever <- committed,
    stage <- [p \in Procs |-> Stage(p)],
    value <- doc

==============================================================================
