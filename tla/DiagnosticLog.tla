------------------------------ MODULE DiagnosticLog ------------------------------
(***************************************************************************)
(* The diagnostic log of diagnostics.rs: fixed codes, a repeated issue is  *)
(* written once, and three files that rotate when the next line would not  *)
(* fit.  Any file operation may fail, and the program may end between two. *)
(* A line is its number; its size is one.                                  *)
(***************************************************************************)
EXTENDS Naturals, Sequences

CONSTANTS None,
          Code,      \* codes of the fixed vocabulary; a subset are issues
          Issue,
          LogBytes,  \* LOG_BYTES, in lines
          MaxLines   \* bound: lines ever written

VARIABLES log, previous, oldest,   \* diagnostics.log, .log.1, .log.2: their lines, or None
          lastIssue, writeFailed,  \* LogState; its path is set once
          step,                    \* how far the append under way is
          written                  \* history: the lines written so far

vars == <<log, previous, oldest, lastIssue, writeFailed, step, written>>

File == {None} \cup UNION {[1..n -> 1..MaxLines] : n \in 0..LogBytes}

TypeOK == /\ log \in File /\ previous \in File /\ oldest \in File
          /\ lastIssue \in Issue \cup {None}
          /\ writeFailed \in BOOLEAN
          /\ step \in {"idle", "remove", "shift", "rotate", "append"}
          /\ written \in 0..MaxLines

Init == /\ log = None /\ previous = None /\ oldest = None
        /\ lastIssue = None
        /\ writeFailed = FALSE
        /\ step = "idle"
        /\ written = 0

Length(file) == IF file = None THEN 0 ELSE Len(file)

\* append_log gives up at its first error; what it has renamed stays.
GivesUp == /\ step' = "idle"
           /\ writeFailed' = TRUE
           /\ UNCHANGED <<log, previous, oldest, lastIssue, written>>

\* record: a repeated issue is left out, and remembered before it is written.
Record(code) ==
    /\ step = "idle"
    /\ written < MaxLines
    /\ ~(code \in Issue /\ code = lastIssue)
    /\ lastIssue' = IF code \in Issue THEN code ELSE lastIssue
    /\ step' = IF Length(log) + 1 > LogBytes THEN "remove" ELSE "append"
    /\ UNCHANGED <<log, previous, oldest, writeFailed, written>>

\* The rotation starts at the far end.
RemoveOldest ==
    /\ step = "remove"
    /\ \/ /\ oldest' = None
          /\ step' = "shift"
          /\ UNCHANGED <<log, previous, lastIssue, writeFailed, written>>
       \/ GivesUp

ShiftPrevious ==
    /\ step = "shift"
    /\ \/ /\ oldest' = IF previous = None THEN oldest ELSE previous
          /\ previous' = None
          /\ step' = "rotate"
          /\ UNCHANGED <<log, lastIssue, writeFailed, written>>
       \/ previous # None /\ GivesUp

\* Mutant of Rotate: a log that cannot be renamed is dropped.
RotateOrDrop ==
    /\ step = "rotate"
    /\ previous' \in {previous, IF log = None THEN previous ELSE log}
    /\ log' = None
    /\ step' = "append"
    /\ UNCHANGED <<oldest, lastIssue, writeFailed, written>>

Rotate ==
    /\ step = "rotate"
    /\ \/ /\ previous' = IF log = None THEN previous ELSE log
          /\ log' = None
          /\ step' = "append"
          /\ UNCHANGED <<oldest, lastIssue, writeFailed, written>>
       \/ log # None /\ GivesUp

\* One write at the end of the file, which is created when it is missing.
AppendLine ==
    /\ step = "append"
    /\ \/ /\ log' = Append(IF log = None THEN <<>> ELSE log, written + 1)
          /\ written' = written + 1
          /\ step' = "idle"
          /\ UNCHANGED <<previous, oldest, lastIssue, writeFailed>>
       \/ GivesUp

\* The program ends and initialize_log runs again.
Restart ==
    /\ lastIssue' = None
    /\ writeFailed' \in BOOLEAN
    /\ step' = "idle"
    /\ UNCHANGED <<log, previous, oldest, written>>

Next == \/ \E code \in Code : Record(code)
        \/ RemoveOldest \/ ShiftPrevious \/ Rotate \/ AppendLine \/ Restart

Spec == Init /\ [][Next]_vars

-----------------------------------------------------------------------------
Lines(file) == IF file = None THEN <<>> ELSE file

\* Whatever fails and wherever the program ends, the three files together hold
\* the newest lines in their order and without a gap, one file's worth of them
\* at least, and none has outgrown LOG_BYTES.
NewestInOrder ==
    LET kept == Lines(oldest) \o Lines(previous) \o Lines(log)
    IN  /\ kept = [i \in 1..Len(kept) |-> written - Len(kept) + i]
        /\ Len(kept) >= written \/ Len(kept) >= LogBytes
        /\ \A file \in {log, previous, oldest} : Length(file) <= LogBytes
==============================================================================
