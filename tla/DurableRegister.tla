--------------------------- MODULE DurableRegister ---------------------------
(***************************************************************************)
(* What a JSON document of the program promises to those who save and load *)
(* it: a register with one earlier generation.  A save that reports        *)
(* success has stored its value; one that fails or dies leaves the old     *)
(* value or the new one; a load returns what is stored.  Damage from       *)
(* outside costs at most one generation per file.  Only a load that        *)
(* overlaps an operation of another process may bring an earlier           *)
(* generation back.                                                        *)
(***************************************************************************)
CONSTANTS Procs,     \* the processes that open the document
          Values,    \* the valid documents
          None       \* no document at all

VARIABLES cur,       \* what a load would find
          prev,      \* what a load would find if the document were lost
          ever,      \* every document that was stored
          stage,     \* what each process is doing
          value,     \* the document each process saves
          raced,     \* the processes whose operation overlaps another one's
          outcome    \* what each process was told last

vars == <<cur, prev, ever, stage, value, raced, outcome>>

Init == /\ cur = None
        /\ prev = None
        /\ ever = {}
        /\ stage = [p \in Procs |-> "idle"]
        /\ value = [p \in Procs |-> None]
        /\ raced = {}
        /\ outcome = [p \in Procs |-> "none"]

Active == {p \in Procs : stage[p] # "idle"}

\* Overlaps(p) is the set of racing processes once p has begun.
Overlaps(p) == IF Active \ {p} = {} THEN raced \ {p} ELSE raced \cup Active \cup {p}

BeginSave(p, v) == /\ stage[p] = "idle"
                   /\ stage' = [stage EXCEPT ![p] = "writing"]
                   /\ value' = [value EXCEPT ![p] = v]
                   /\ outcome' = [outcome EXCEPT ![p] = "none"]
                   /\ raced' = Overlaps(p)
                   /\ UNCHANGED <<cur, prev, ever>>

BeginLoad(p) == /\ stage[p] = "idle"
                /\ stage' = [stage EXCEPT ![p] = "reading"]
                /\ outcome' = [outcome EXCEPT ![p] = "none"]
                /\ value' = [value EXCEPT ![p] = None]
                /\ raced' = Overlaps(p)
                /\ UNCHANGED <<cur, prev, ever>>

\* The current generation becomes the earlier one before the new is stored.
Supersede(p) == /\ stage[p] = "writing"
                /\ prev' = cur
                /\ UNCHANGED <<cur, ever, stage, value, raced, outcome>>

Commit(p) == /\ stage[p] = "writing"
             /\ stage' = [stage EXCEPT ![p] = "written"]
             /\ cur' = value[p]
             /\ ever' = ever \cup {value[p]}
             /\ UNCHANGED <<prev, value, raced, outcome>>

\* A stored document that cannot be confirmed is withdrawn.
Undo(p) == /\ stage[p] = "written"
           /\ \/ stage' = [stage EXCEPT ![p] = "undone"] /\ UNCHANGED outcome
              \/ /\ stage' = [stage EXCEPT ![p] = "idle"]
                 /\ outcome' = [outcome EXCEPT ![p] = "failed"]
           /\ cur' = prev
           /\ UNCHANGED <<prev, ever, value, raced>>

Finish(p, told) == /\ \/ told = "saved" /\ stage[p] = "written"
                      \/ told = "failed" /\ stage[p] # "idle"
                      \/ told = "crashed" /\ stage[p] # "idle"
                      \/ told = cur /\ stage[p] = "reading"
                      \/ told \in ever \cup {None} /\ stage[p] = "reading" /\ p \in raced
                   /\ stage' = [stage EXCEPT ![p] = "idle"]
                   /\ outcome' = [outcome EXCEPT ![p] = told]
                   /\ UNCHANGED <<cur, prev, ever, value, raced>>

\* A load that overlaps another process's operation may undo a save.
Rewind(p) == /\ stage[p] = "reading"
             /\ p \in raced
             /\ cur' \in ever \cup {None}
             /\ UNCHANGED <<prev, ever, stage, value, raced, outcome>>

Damage == /\ Active = {}
          /\ cur' \in {cur, prev, None}
          /\ prev' \in {prev, None}
          /\ UNCHANGED <<ever, stage, value, raced, outcome>>

Next == \/ \E p \in Procs :
             \/ \E v \in Values : BeginSave(p, v)
             \/ BeginLoad(p)
             \/ Supersede(p)
             \/ Commit(p)
             \/ Undo(p)
             \/ \E told \in {"saved", "failed", "crashed", None} \cup Values : Finish(p, told)
             \/ Rewind(p)
        \/ Damage

Spec == Init /\ [][Next]_vars
==============================================================================
