----------------------------- MODULE UpdaterProofs -----------------------------
(***************************************************************************)
(* Theorems about the hand-over, for any number of processes, hand-overs,  *)
(* failing operations and deaths, until two processes have moved files of  *)
(* the update at once (see UpdaterRaces): a file known to work is always   *)
(* there to be started, and a version that is not committed never serves   *)
(* the user.                                                               *)
(*                                                                         *)
(* The inductive invariant says what the disk may look like (Disk), which  *)
(* process may be where (Role) and what each relies on where it is         *)
(* (Relies).  The image that worked before is under its own name or the    *)
(* backup's until somebody cleans up a committed update; from then on the  *)
(* new one stays where it is.                                              *)
(***************************************************************************)
EXTENDS UpdaterRaces, TLAPS

\* Where the watchdog is while it has not given up or committed.
Watching == {"check", "forget", "spawn", "pid", "supervise", "commit", "ready", "committed"}

\* install_inner up to the start of the watchdog.
Handing == {"recover", "write", "verified", "move out", "moved", "move in", "installed",
            "inspect", "watch"}

\* rollback_update, finish_committed, and how both end.
Undoing == {"undo", "undo missing", "undo candidate", "vacate", "return", "restore", "confirm",
            "drop candidate", "drop backup"}

Cleaning == {"clean backup", "clean candidate"}

Dropping == {"drop readiness", "drop journal"}

Finishing == Undoing \cup Cleaning \cup Dropping

\* The steps that use the operation a process holds.
Operating == {"decide", "identity", "acknowledge", "await", "verified", "move out", "moved",
              "move in", "installed", "inspect", "watch"} \cup (Watching \ {"check"})

OldThere == "old" \in {files["canonical"], files["backup"]}

Replaced == files["canonical"] = "new" /\ files["backup"] = "missing"

OnlyCommitted == journal # None => journal.phase = Committed

Supervised == proc["watchdog"].pc \in Watching

\* Somebody runs install_inner, or a rollback on its behalf.
Installs(p) ==
  \/ proc[p].pc \in Handing
  \/ proc[p].pc \in Finishing /\ proc[p].then \in {"install", "handover"}

(* The files, the journal, and what runs from the files.                   *)
Disk ==
  /\ files["candidate"] # "old" /\ files["backup"] # "new"
  /\ OldThere \/ Replaced
  /\ journal = None => files["canonical"] = "old" \/ Replaced
  /\ OldThere \/ OnlyCommitted
  /\ Supervised => OldThere /\ (journal # None => journal.phase # Committed)
  /\ \A q \in Procs : at[q] # None => files[at[q]] # "missing"
  /\ journal = None => \A q \in Procs : at[q] # "candidate"

(* Which process may be where.  All but the watchdog hold the mutex as     *)
(* soon as they do anything, so that one of them works at a time, and one  *)
(* that installs works alone.                                              *)
Role(p) ==
  LET r == proc[p] IN
  /\ r.pc # "none" => at[p] # None
  /\ r.pc \in Operating => r.op # None
  /\ r.pc \in Undoing \cup Dropping =>
       r.then \in {"install", "handover", "startup", "cleanup", "self", "watchdog"}
  /\ r.pc \in Cleaning => r.then \in {"install", "cleanup"}
  /\ p = "watchdog" =>
       /\ r.pc \in {"none", "respawn"} \cup Watching \cup Undoing \cup Dropping
       /\ r.pc \in Finishing => r.then = "watchdog"
  /\ p # "watchdog" =>
       /\ r.pc \notin Watching
       /\ r.pc \in Finishing => r.then # "watchdog"
       /\ r.pc \notin {"none", "mutex"} => mutex = p
  /\ Installs(p) =>
       /\ p \in Started
       /\ ~ Alive("watchdog") /\ ~ Alive("candidate")
       /\ files[at[p]] = "old"
  /\ r.pc \in {"recover", "write"} \/ (r.pc \in Finishing /\ r.then = "install") =>
       attempts < MaxAttempts

(* What a process relies on where it is.                                   *)
Relies(p) ==
  LET pc == proc[p].pc
      canonical == files["canonical"]
      backup == files["backup"]
  IN
  /\ pc = "decide" /\ proc[p].op.phase = Committed => ~ Supervised /\ OnlyCommitted
  /\ pc = "clean backup" => ~ Supervised /\ OnlyCommitted /\ canonical = "new"
  /\ pc = "clean candidate" => Replaced
  /\ pc \in {"forget", "spawn", "pid"} => proc[p].op.phase # Committed
  /\ pc \in {"write", "verified"} => journal = None
  /\ pc \in {"move out", "moved", "move in", "installed", "inspect", "watch"} =>
       journal # None /\ journal.phase # Committed
  /\ pc \in {"verified", "move out", "drop candidate", "drop backup"} => canonical = "old"
  /\ pc \in {"moved", "move in", "restore"} => canonical = "missing" /\ backup = "old"
  /\ pc \in {"installed", "inspect", "watch", "vacate", "return"} =>
       canonical = "new" /\ backup = "old"
  /\ pc = "undo missing" => canonical = "missing"
  /\ pc = "undo candidate" => canonical = "new"
  /\ pc \in Dropping => canonical = "old" \/ Replaced
  /\ pc \in {"drop backup"} \cup Dropping => \A q \in Procs : at[q] # "candidate"

Good(p) == Role(p) /\ Relies(p)

HandoverInv ==
  /\ TypeOK
  /\ Disk
  /\ OneMoves
  /\ \A p \in Procs : Good(p)

-----------------------------------------------------------------------------
(* What the operators the actions are made of do to a process.             *)

LEMMA Seats ==
  /\ "watchdog" \in Procs /\ "candidate" \in Procs
  /\ \A p \in Started : p \in Procs /\ p # "watchdog" /\ p # "candidate"
BY UpdaterAssumption DEF Procs

LEMMA Edited ==
  ASSUME NEW r \in Process
  PROVE  /\ \A pc \in Pc :
              /\ [r EXCEPT !.pc = pc] \in Process
              /\ [r EXCEPT !.pc = pc].pc = pc
              /\ [r EXCEPT !.pc = pc].op = r.op
              /\ [r EXCEPT !.pc = pc].then = r.then
         /\ \A then \in Caller :
              /\ [r EXCEPT !.then = then] \in Process
              /\ [r EXCEPT !.then = then].pc = r.pc
              /\ [r EXCEPT !.then = then].op = r.op
              /\ [r EXCEPT !.then = then].then = then
         /\ \A op \in UpdateOperation \cup {None} :
              /\ [r EXCEPT !.op = op] \in Process
              /\ [r EXCEPT !.op = op].pc = r.pc
              /\ [r EXCEPT !.op = op].op = op
              /\ [r EXCEPT !.op = op].then = r.then
         /\ \A exe \in Name :
              /\ [r EXCEPT !.exe = exe] \in Process
              /\ [r EXCEPT !.exe = exe].pc = r.pc
         /\ \A invited \in 0 .. MaxAttempts :
              /\ [r EXCEPT !.invited = invited] \in Process
              /\ [r EXCEPT !.invited = invited].pc = r.pc
         /\ \A waits \in BOOLEAN :
              /\ [r EXCEPT !.waits = waits] \in Process
              /\ [r EXCEPT !.waits = waits].pc = r.pc
BY DEF Process

LEMMA NobodyTyped ==
  /\ Nobody \in Process /\ Nobody.pc = "none"
  /\ \A exe \in Name, invited \in 0 .. MaxAttempts, waits \in BOOLEAN, pc \in Pc :
       /\ Born(exe, invited, waits, pc) \in Process
       /\ Born(exe, invited, waits, pc).pc = pc
<1>1. 0 \in 0 .. MaxAttempts /\ "none" \in Pc /\ None \in Caller
  BY UpdaterAssumption DEF Pc, Caller
<1>2. Nobody \in Process /\ Nobody.pc = "none"
  BY <1>1 DEF Nobody, Process
<1>3. ASSUME NEW exe \in Name, NEW invited \in 0 .. MaxAttempts, NEW waits \in BOOLEAN,
             NEW pc \in Pc
      PROVE  Born(exe, invited, waits, pc) \in Process /\ Born(exe, invited, waits, pc).pc = pc
  <2> DEFINE a == [Nobody EXCEPT !.pc = pc]
             b == [a EXCEPT !.exe = exe]
             c == [b EXCEPT !.invited = invited]
             d == [c EXCEPT !.waits = waits]
  <2>1. Born(exe, invited, waits, pc) = d
    BY DEF Born
  <2>2. a \in Process /\ a.pc = pc
    BY <1>2, Edited
  <2> HIDE DEF a
  <2>3. b \in Process /\ b.pc = pc
    BY <2>2, Edited
  <2> HIDE DEF b
  <2>4. c \in Process /\ c.pc = pc
    BY <2>3, Edited
  <2> HIDE DEF c
  <2>5. d \in Process /\ d.pc = pc
    BY <2>4, Edited
  <2> QED BY <2>1, <2>5
<1> QED BY <1>2, <1>3

LEMMA GotoOwn ==
  ASSUME TypeOK, NEW p \in Procs, NEW pc \in Pc, Goto(p, pc)
  PROVE  /\ proc' \in [Procs -> Process]
         /\ proc'[p].pc = pc
         /\ proc'[p].op = proc[p].op
         /\ proc'[p].then = proc[p].then
         /\ \A q \in Procs : q # p => proc'[q] = proc[q]
BY DEF TypeOK, Goto, Process

LEMMA CallOwn ==
  ASSUME TypeOK, NEW p \in Procs, NEW pc \in Pc, NEW then \in Caller, Call(p, pc, then)
  PROVE  /\ proc' \in [Procs -> Process]
         /\ proc'[p].pc = pc
         /\ proc'[p].op = proc[p].op
         /\ proc'[p].then = then
         /\ \A q \in Procs : q # p => proc'[q] = proc[q]
BY DEF TypeOK, Call, Process

LEMMA ExitOwn ==
  ASSUME TypeOK, NEW p \in Procs, Exit(p)
  PROVE  /\ proc' \in [Procs -> Process]
         /\ at' \in [Procs -> Name \cup {None}]
         /\ mutex' \in Procs \cup {None}
         /\ proc'[p].pc = "none"
         /\ \A q \in Procs : q # p => proc'[q] = proc[q] /\ at'[q] = at[q]
         /\ \A q \in Procs : at'[q] \in {at[q], None}
         /\ \A q \in Procs : q # p /\ mutex = q => mutex' = q
BY NobodyTyped DEF TypeOK, Exit

LEMMA ReadOwn ==
  ASSUME TypeOK, NEW p \in Procs, NEW op \in UpdateOperation, NEW pc \in Pc,
         proc' = [proc EXCEPT ![p].op = op, ![p].pc = pc]
  PROVE  /\ proc' \in [Procs -> Process]
         /\ proc'[p].pc = pc
         /\ proc'[p].op = op
         /\ proc'[p].then = proc[p].then
         /\ \A q \in Procs : q # p => proc'[q] = proc[q]
BY DEF TypeOK, Process

LEMMA SavedOwn ==
  ASSUME TypeOK, NEW p \in Procs, NEW op \in UpdateOperation, NEW pc \in Pc,
         Saved(p, op, pc)
  PROVE  /\ proc' \in [Procs -> Process]
         /\ proc'[p].pc = pc
         /\ proc'[p].op = op
         /\ proc'[p].then = proc[p].then
         /\ \A q \in Procs : q # p => proc'[q] = proc[q]
         /\ journal' = op
         /\ UNCHANGED <<at, mutex, faults>>
BY DEF TypeOK, Saved, Stays, Process

LEMMA AtTyped ==
  ASSUME TypeOK, NEW p \in Procs, proc[p].op # None, NEW phase \in Verified .. Committed
  PROVE  /\ At(p, phase) \in UpdateOperation
         /\ At(p, phase).phase = phase
         /\ At(p, phase) # None
<1>1. proc[p].op \in UpdateOperation
  BY DEF TypeOK, Process
<1>2. At(p, phase) \in UpdateOperation /\ At(p, phase).phase = phase
  BY <1>1 DEF At, UpdateOperation
<1> QED BY <1>2, UpdaterAssumption

\* An error of the watchdog ends the candidate with it.
LEMMA UndoWatchedOwn ==
  ASSUME TypeOK, NEW p \in Procs, p # "candidate", UndoWatched(p)
  PROVE  /\ proc' \in [Procs -> Process]
         /\ at' \in [Procs -> Name \cup {None}]
         /\ mutex' \in Procs \cup {None}
         /\ proc'[p].pc = "undo"
         /\ proc'[p].op = proc[p].op
         /\ proc'[p].then = "watchdog"
         /\ proc'["candidate"].pc = "none"
         /\ \A q \in Procs \ {p, "candidate"} : proc'[q] = proc[q]
         /\ \A q \in Procs \ {"candidate"} : at'[q] = at[q]
         /\ \A q \in Procs : at'[q] \in {at[q], None}
         /\ \A q \in Procs \ {"candidate"} : mutex = q => mutex' = q
<1> DEFINE r == [proc[p] EXCEPT !.pc = "undo", !.then = "watchdog"]
<1>1. /\ proc \in [Procs -> Process] /\ at \in [Procs -> Name \cup {None}]
      /\ mutex \in Procs \cup {None}
  BY DEF TypeOK
<1>2. /\ r \in Process /\ r.pc = "undo" /\ r.op = proc[p].op /\ r.then = "watchdog"
  <2> DEFINE a == [proc[p] EXCEPT !.pc = "undo"]
             b == [a EXCEPT !.then = "watchdog"]
  <2>1. "undo" \in Pc /\ "watchdog" \in Caller /\ r = b
    BY DEF Pc, Caller
  <2>2. a \in Process /\ a.pc = "undo" /\ a.op = proc[p].op
    BY <1>1, <2>1, Edited
  <2> HIDE DEF a
  <2>3. b \in Process /\ b.pc = "undo" /\ b.op = proc[p].op /\ b.then = "watchdog"
    BY <2>1, <2>2, Edited
  <2> QED BY <2>1, <2>3
<1>3. proc' = [proc EXCEPT !["candidate"] = Nobody, ![p] = r]
  BY <1>1, Seats DEF UndoWatched
<1>4. /\ at' = [at EXCEPT !["candidate"] = None]
      /\ mutex' = IF mutex = "candidate" THEN None ELSE mutex
  BY DEF UndoWatched
<1> HIDE DEF r
<1>5. /\ proc' \in [Procs -> Process]
      /\ proc'[p] = r
      /\ proc'["candidate"] = Nobody
      /\ \A q \in Procs \ {p, "candidate"} : proc'[q] = proc[q]
  BY <1>1, <1>2, <1>3, NobodyTyped, Seats
<1>6. /\ at' \in [Procs -> Name \cup {None}]
      /\ mutex' \in Procs \cup {None}
      /\ \A q \in Procs \ {"candidate"} : at'[q] = at[q]
      /\ \A q \in Procs : at'[q] \in {at[q], None}
      /\ \A q \in Procs \ {"candidate"} : mutex = q => mutex' = q
  BY <1>1, <1>4
<1> QED BY <1>2, <1>5, <1>6, NobodyTyped

-----------------------------------------------------------------------------
(* What a step of one process leaves to the others.                        *)

\* A process that has not begun relies on nothing.
LEMMA IdleNext ==
  ASSUME NEW p \in Procs,
         \/ proc'[p].pc = "none"
         \/ proc'[p].pc = "mutex" /\ p # "watchdog" /\ at'[p] # None
  PROVE  Good(p)'
BY DEF Good, Role, Relies, Installs, Handing, Finishing, Undoing, Cleaning, Dropping,
       Operating, Watching

\* Two processes do not both work: the watchdog apart, they hold the mutex.
LEMMA OneWorks ==
  ASSUME HandoverInv, NEW p \in Procs, NEW q \in Procs, q # p,
         p # "watchdog", q # "watchdog", proc[p].pc \notin {"none", "mutex"}
  PROVE  proc[q].pc \in {"none", "mutex"}
BY DEF HandoverInv, Good, Role

\* A process that installs works alone.
LEMMA InstallsAlone ==
  ASSUME HandoverInv, NEW p \in Procs, NEW q \in Procs, q # p, Installs(p)
  PROVE  proc[q].pc \in {"none", "mutex"} /\ (q = "watchdog" => proc[q].pc = "none")
<1>1. p \in Started /\ proc["watchdog"].pc = "none" /\ proc[p].pc \notin {"none", "mutex"}
  BY DEF HandoverInv, Good, Role, Alive, Installs, Handing, Finishing, Undoing, Cleaning,
         Dropping
<1> QED BY <1>1, OneWorks, Seats

LEMMA NobodyInstalls ==
  ASSUME HandoverInv, NEW p \in Procs, NEW q \in Procs, q # p,
         proc[p].pc \notin {"none", "mutex"}
  PROVE  ~ Installs(q)
BY InstallsAlone

\* A step that moves no files, saves nothing and brings nobody to life.
LEMMA CalmOthers ==
  ASSUME HandoverInv, NEW q \in Procs,
         proc'[q] = proc[q], at'[q] = at[q], mutex = q => mutex' = q,
         UNCHANGED <<files, journal, attempts>>,
         Supervised' => Supervised,
         Installs(q) => ~ Alive("watchdog")' /\ ~ Alive("candidate")',
         \A x \in Procs : at'[x] = "candidate" => at[x] = "candidate"
  PROVE  Good(q)'
<1>1. Good(q)
  BY DEF HandoverInv
<1>2. Role(q)'
  BY <1>1 DEF Good, Role, Installs, Alive
<1>3. Relies(q)'
  BY <1>1 DEF Good, Relies, OnlyCommitted, Replaced
<1> QED BY <1>2, <1>3 DEF Good

\* Nobody else begins to move files.
LEMMA StillOneMoves ==
  ASSUME HandoverInv, NEW p \in Procs,
         \A q \in Procs : q # p => (proc'[q].pc \in Moving => proc[q].pc \in Moving),
         proc'[p].pc \in Moving =>
           proc[p].pc \in Moving \/ \A q \in Procs : proc[q].pc \notin Moving
  PROVE  OneMoves'
BY DEF HandoverInv, OneMoves

\* A calm step of one process: what it relies on afterwards is all there is to show.
LEMMA CalmStep ==
  ASSUME HandoverInv, NEW p \in Procs, Alive(p), TypeOK',
         UNCHANGED <<files, journal, attempts>>,
         \A q \in Procs : q # p =>
           \/ proc'[q].pc = "none"
           \/ proc'[q] = proc[q] /\ at'[q] = at[q] /\ (mutex = q => mutex' = q),
         \A q \in Procs : at'[q] \in {at[q], None},
         proc'[p].pc \in Watching => proc[p].pc \in Watching,
         proc'[p].pc \in Moving =>
           proc[p].pc \in Moving \/ \A q \in Procs : proc[q].pc \notin Moving,
         Good(p)'
  PROVE  HandoverInv'
<1>1. \A q \in Procs : q # p /\ proc'[q].pc # "none" => proc'[q] = proc[q]
  OBVIOUS
<1>2. Supervised' => Supervised
  BY <1>1, Seats DEF Supervised, Watching
<1>3. /\ Alive("watchdog")' => Alive("watchdog")
      /\ Alive("candidate")' => Alive("candidate")
  BY <1>1, Seats DEF Alive
<1>4. None # "candidate" /\ at \in [Procs -> Name \cup {None}]
  BY UpdaterAssumption DEF Name, HandoverInv, TypeOK
<1>5. Disk'
  <2>1. Disk
    BY DEF HandoverInv
  <2>2. \A q \in Procs : at'[q] # None => files'[at'[q]] # "missing"
    BY <2>1 DEF Disk
  <2>3. journal' = None => \A q \in Procs : at'[q] # "candidate"
    BY <1>4, <2>1 DEF Disk
  <2> QED BY <1>2, <2>1, <2>2, <2>3 DEF Disk, OldThere, Replaced, OnlyCommitted
<1>6. OneMoves'
  BY <1>1, StillOneMoves DEF Moving
<1>7. ASSUME NEW q \in Procs, q # p PROVE Good(q)'
  <2>1. CASE proc'[q].pc = "none"
    <3>1. proc'[q].pc = "none" => Good(q)'
      BY IdleNext
    <3> QED BY <2>1, <3>1
  <2>2. CASE proc'[q].pc # "none"
    <3>1. Installs(q) => ~ Alive("watchdog")' /\ ~ Alive("candidate")'
      BY <1>3 DEF HandoverInv, Good, Role
    <3>2. \A x \in Procs : at'[x] = "candidate" => at[x] = "candidate"
      BY <1>4
    <3> QED BY <1>2, <1>7, <2>2, <3>1, <3>2, CalmOthers
  <2> QED BY <2>1, <2>2
<1> QED BY <1>5, <1>6, <1>7 DEF HandoverInv

\* What a calm step may still change.
Rests ==
  /\ UNCHANGED <<files, journal, attempts>>
  /\ readiness' \in 0 .. MaxAttempts
  /\ faults' \in 0 .. MaxFaults
  /\ deaths' \in 0 .. MaxDeaths

LEMMA ReadinessRests ==
  ASSUME TypeOK, UNCHANGED <<files, journal, attempts>>, readiness' \in 0 .. MaxAttempts,
         Fault \/ UNCHANGED faults, UNCHANGED deaths
  PROVE  Rests
BY UpdaterAssumption DEF TypeOK, Fault, Rests

LEMMA CalmRests ==
  ASSUME TypeOK, UNCHANGED <<files, journal, attempts, readiness>>,
         Fault \/ UNCHANGED faults, UNCHANGED deaths
  PROVE  Rests
BY ReadinessRests DEF TypeOK

LEMMA FindsRests ==
  ASSUME TypeOK, NEW image, NEW name, Finds(image, name),
         UNCHANGED <<files, journal, attempts, readiness, deaths>>
  PROVE  Rests
BY CalmRests DEF Finds

LEMMA ExitKept ==
  ASSUME HandoverInv, NEW p \in Procs, Alive(p), Exit(p), Rests
  PROVE  HandoverInv'
<1>1. TypeOK
  BY DEF HandoverInv
<1>2. TypeOK'
  BY <1>1, ExitOwn DEF TypeOK, Rests
<1>3. Good(p)'
  BY <1>1, ExitOwn, IdleNext
<1>4. proc'[p].pc \notin Watching \cup Moving
  BY <1>1, ExitOwn DEF Watching, Moving
<1> QED BY <1>1, <1>2, <1>3, <1>4, ExitOwn, CalmStep DEF Rests

LEMMA StayKept ==
  ASSUME HandoverInv, NEW p \in Procs, Alive(p), Stays, Rests,
         proc' \in [Procs -> Process],
         \A q \in Procs : q # p => proc'[q] = proc[q],
         proc'[p].pc \in Watching => proc[p].pc \in Watching,
         proc'[p].pc \in Moving =>
           proc[p].pc \in Moving \/ \A q \in Procs : proc[q].pc \notin Moving,
         Good(p)'
  PROVE  HandoverInv'
<1>1. TypeOK'
  BY DEF HandoverInv, TypeOK, Rests, Stays
<1> QED BY <1>1, CalmStep DEF Rests, Stays

\* Where a process that holds the mutex relies on little.
LEMMA PlainNext ==
  ASSUME NEW p \in Procs, p # "watchdog", at'[p] # None, mutex' = p,
         proc'[p].pc \in {"prepare", "decide", "identity", "acknowledge", "await", "ui", "quit",
                          "respawn"},
         proc'[p].pc \in {"decide", "identity", "acknowledge", "await"} => proc'[p].op # None,
         proc'[p].pc = "decide" /\ proc'[p].op.phase = Committed =>
           (~ Supervised /\ OnlyCommitted)'
  PROVE  Good(p)'
BY DEF Good, Role, Relies, Installs, Handing, Finishing, Undoing, Cleaning, Dropping,
       Operating, Watching

\* What is known of a process that holds the mutex.
LEMMA Working ==
  ASSUME HandoverInv, NEW p \in Procs, p # "watchdog", proc[p].pc \notin {"none", "mutex"}
  PROVE  at[p] # None /\ mutex = p
BY DEF HandoverInv, Good, Role

\* An error of a rollback: the caller goes on or ends.
LEMMA FailsKept ==
  ASSUME HandoverInv, NEW p \in Procs, proc[p].pc \in Finishing, Fails(p), Rests
  PROVE  HandoverInv'
<1>1. TypeOK /\ Alive(p)
  BY DEF HandoverInv, Alive, Finishing, Undoing, Cleaning, Dropping
<1>2. CASE Exit(p)
  BY <1>1, <1>2, ExitKept
<1>3. CASE /\ proc[p].then \in {"install", "handover"}
           /\ Goto(p, "ui") /\ Stays
  <2>1. /\ "ui" \in Pc /\ "ui" \notin Watching /\ "ui" \notin Moving
    BY DEF Pc, Watching, Moving
  <2>2. p # "watchdog" /\ proc[p].pc \notin {"none", "mutex"}
    BY <1>3 DEF HandoverInv, Good, Role, Finishing, Undoing, Cleaning, Dropping
  <2>3. Good(p)'
    BY <1>1, <1>3, <2>1, <2>2, GotoOwn, Working, PlainNext DEF Stays
  <2> QED BY <1>1, <1>3, <2>1, <2>3, GotoOwn, StayKept
<1> QED BY <1>2, <1>3 DEF Fails

-----------------------------------------------------------------------------
(* The start of a program.                                                 *)

\* A process that has a job of its own is not the watchdog.
LEMMA NotWatchdog ==
  ASSUME HandoverInv, NEW p \in Procs,
         proc[p].pc \in {"mutex", "prepare", "decide", "identity", "acknowledge", "await", "ui",
                         "quit"} \cup Handing \cup Cleaning
  PROVE  p # "watchdog"
BY Seats DEF HandoverInv, Good, Role, Watching, Undoing, Dropping, Handing, Cleaning

\* A process that only goes on, holding the mutex.
LEMMA GoesOn ==
  ASSUME HandoverInv, NEW p \in Procs, p # "watchdog", proc[p].pc \notin {"none", "mutex"},
         Stays, Rests, proc' \in [Procs -> Process],
         \A q \in Procs : q # p => proc'[q] = proc[q],
         proc'[p].pc \in {"prepare", "decide", "identity", "acknowledge", "await", "ui", "quit",
                          "respawn"},
         proc'[p].pc \in {"decide", "identity", "acknowledge", "await"} => proc'[p].op # None,
         proc'[p].pc = "decide" /\ proc'[p].op.phase = Committed =>
           (~ Supervised /\ OnlyCommitted)'
  PROVE  HandoverInv'
<1>1. at'[p] # None /\ mutex' = p
  BY Working DEF Stays
<1>2. Good(p)'
  BY <1>1, PlainNext
<1>3. proc'[p].pc \notin Watching /\ proc'[p].pc \notin Moving
  BY DEF Watching, Moving
<1> QED BY <1>2, <1>3, StayKept DEF Alive

LEMMA EnterMutexKept ==
  ASSUME HandoverInv, NEW p \in Procs, EnterMutex(p)
  PROVE  HandoverInv'
<1>1. TypeOK /\ Rests /\ Alive(p) /\ p # "watchdog"
  BY CalmRests, NotWatchdog DEF EnterMutex, HandoverInv, Alive
<1>2. CASE Exit(p)
  BY <1>1, <1>2, ExitKept
<1>3. CASE mutex = None /\ mutex' = p /\ Goto(p, "prepare") /\ UNCHANGED at
  <2>1. "prepare" \in Pc
    BY DEF Pc
  <2>2. TypeOK'
    BY <1>1, <1>3, <2>1, GotoOwn DEF TypeOK, Rests
  <2>3. at'[p] # None
    BY <1>1, <1>3 DEF HandoverInv, Good, Role, Alive
  <2>4. Good(p)'
    BY <1>1, <1>3, <2>1, <2>3, GotoOwn, PlainNext
  <2>5. proc'[p].pc \notin Watching /\ proc'[p].pc \notin Moving
    BY <1>1, <1>3, <2>1, GotoOwn DEF Watching, Moving
  <2>6. \A q \in Procs : q # p => proc'[q] = proc[q] /\ at'[q] = at[q] /\ mutex # q
    BY <1>1, <1>3, <2>1, GotoOwn, UpdaterAssumption
  <2> QED BY <1>1, <1>3, <2>2, <2>4, <2>5, <2>6, CalmStep DEF Rests
<1> QED BY <1>2, <1>3 DEF EnterMutex

LEMMA PrepareStartupKept ==
  ASSUME HandoverInv, NEW p \in Procs, PrepareStartup(p)
  PROVE  HandoverInv'
<1>1. TypeOK /\ Rests /\ Alive(p) /\ p # "watchdog" /\ proc[p].pc \notin {"none", "mutex"}
  BY CalmRests, NotWatchdog DEF PrepareStartup, HandoverInv, Alive
<1>2. CASE Exit(p)
  BY <1>1, <1>2, ExitKept
<1>3. CASE Goto(p, "ui") /\ Stays
  <2>1. "ui" \in Pc
    BY DEF Pc
  <2> QED BY <1>1, <1>3, <2>1, GotoOwn, GoesOn
<1>4. CASE /\ journal # None
           /\ proc' = [proc EXCEPT ![p].op = journal, ![p].pc = "decide"] /\ Stays
  <2>1. /\ proc' \in [Procs -> Process]
        /\ proc'[p].pc = "decide" /\ proc'[p].op = journal
        /\ \A q \in Procs : q # p => proc'[q] = proc[q]
    <3>1. journal \in UpdateOperation /\ "decide" \in Pc
      BY <1>1, <1>4 DEF TypeOK, Pc
    <3>2. proc' = [proc EXCEPT ![p].op = journal, ![p].pc = "decide"]
      BY <1>4
    <3> QED BY <1>1, <3>1, <3>2 DEF TypeOK, Process
  <2>2. journal.phase = Committed => (~ Supervised /\ OnlyCommitted)'
    <3>1. journal.phase = Committed => ~ Supervised
      BY <1>4 DEF HandoverInv, Disk
    <3>2. proc'["watchdog"] = proc["watchdog"] /\ journal' = journal
      BY <1>1, <2>1, Seats DEF Rests
    <3> QED BY <3>1, <3>2 DEF Supervised, OnlyCommitted
  <2> QED BY <1>1, <1>4, <2>1, <2>2, GoesOn
<1> QED BY <1>2, <1>3, <1>4 DEF PrepareStartup

\* Where no two move files after a step, nobody else does when one begins to.
LEMMA MovesFirst ==
  ASSUME OneMoves', NEW p \in Procs, proc'[p].pc \in Moving, proc[p].pc \notin Moving,
         \A q \in Procs : q # p => proc'[q] = proc[q]
  PROVE  \A q \in Procs : proc[q].pc \notin Moving
BY DEF OneMoves

\* Somebody begins to roll back or to clean up.
LEMMA BeginKept ==
  ASSUME HandoverInv, NEW p \in Procs, p # "watchdog", Stays, Rests,
         proc[p].pc \notin {"none", "mutex"},
         NEW pc \in {"undo", "clean backup"},
         NEW then \in {"startup", "cleanup", "self"}, Call(p, pc, then),
         pc = "clean backup" =>
           /\ proc[p].pc \notin Moving /\ OneMoves' /\ then = "cleanup"
           /\ ~ Supervised /\ OnlyCommitted /\ files["canonical"] = "new"
  PROVE  HandoverInv'
<1>1. TypeOK /\ Alive(p) /\ pc \in Pc /\ then \in Caller
  BY DEF HandoverInv, Alive, Pc, Caller
<1>2. at'[p] # None /\ mutex' = p
  BY Working DEF Stays
<1>3. pc = "clean backup" => (~ Supervised /\ OnlyCommitted /\ files["canonical"] = "new")'
  BY <1>1, CallOwn, Seats DEF Rests, Supervised, OnlyCommitted
<1>4. Good(p)'
  <2>1. Role(p)'
    BY <1>1, <1>2, CallOwn
       DEF Role, Installs, Handing, Finishing, Undoing, Cleaning, Dropping, Operating, Watching
  <2>2. Relies(p)'
    BY <1>1, <1>3, CallOwn DEF Relies, Dropping
  <2> QED BY <2>1, <2>2 DEF Good
<1>5. proc'[p].pc \notin Watching
  BY <1>1, CallOwn DEF Watching
<1>6. proc'[p].pc \in Moving => \A q \in Procs : proc[q].pc \notin Moving
  <2>1. proc'[p].pc = pc /\ \A q \in Procs : q # p => proc'[q] = proc[q]
    BY <1>1, CallOwn
  <2> QED BY <2>1, MovesFirst DEF Moving
<1> QED BY <1>1, <1>4, <1>5, <1>6, CallOwn, StayKept

LEMMA DecideStartupKept ==
  ASSUME OneMoves', HandoverInv, NEW p \in Procs, DecideStartup(p)
  PROVE  HandoverInv'
<1>1. PICK image \in Image \cup {"unknown"} :
        /\ Finds(image, "canonical")
        /\ LET candidate == proc[p].exe = "canonical" /\ image = "new"
               committed == proc[p].op.phase = Committed
           IN  \/ Exit(p)
               \/ candidate /\ committed /\ Call(p, "clean backup", "cleanup") /\ Stays
               \/ Goto(p, "identity") /\ Stays
               \/ Call(p, "undo", "startup") /\ Stays
  BY DEF DecideStartup
<1>2. TypeOK /\ Rests /\ Alive(p) /\ p # "watchdog" /\ proc[p].pc = "decide"
  BY <1>1, FindsRests, NotWatchdog DEF DecideStartup, HandoverInv, Alive
<1>3. proc[p].op # None
  BY <1>2 DEF HandoverInv, Good, Role, Operating
<1>4. CASE Exit(p)
  BY <1>2, <1>4, ExitKept
<1>5. CASE /\ image = "new" /\ proc[p].op.phase = Committed
           /\ Call(p, "clean backup", "cleanup") /\ Stays
  <2>1. files["canonical"] = "new"
    BY <1>1, <1>5 DEF Finds
  <2>2. ~ Supervised /\ OnlyCommitted
    BY <1>2, <1>5 DEF HandoverInv, Good, Relies
  <2>3. "decide" \notin Moving
    BY DEF Moving
  <2> QED BY <1>2, <1>5, <2>1, <2>2, <2>3, BeginKept
<1>6. CASE Goto(p, "identity") /\ Stays
  <2>1. "identity" \in Pc
    BY DEF Pc
  <2> QED BY <1>2, <1>3, <1>6, <2>1, GotoOwn, GoesOn
<1>7. CASE Call(p, "undo", "startup") /\ Stays
  BY <1>2, <1>7, BeginKept
<1> QED BY <1>1, <1>4, <1>5, <1>6, <1>7

LEMMA CheckIdentityKept ==
  ASSUME HandoverInv, NEW p \in Procs, CheckIdentity(p)
  PROVE  HandoverInv'
<1>1. TypeOK /\ Rests /\ Alive(p) /\ p # "watchdog" /\ proc[p].pc = "identity" /\ Stays
  BY CalmRests, NotWatchdog DEF CheckIdentity, HandoverInv, Alive
<1>2. proc[p].op # None
  BY <1>1 DEF HandoverInv, Good, Role, Operating
<1>3. CASE Call(p, "acknowledge", None)
  <2>1. "acknowledge" \in Pc /\ None \in Caller
    BY DEF Pc, Caller
  <2> QED BY <1>1, <1>2, <1>3, <2>1, CallOwn, GoesOn
<1>4. CASE Call(p, "undo", "self")
  BY <1>1, <1>4, BeginKept
<1> QED BY <1>3, <1>4 DEF CheckIdentity

LEMMA AcknowledgeKept ==
  ASSUME HandoverInv, NEW p \in Procs, Acknowledge(p)
  PROVE  HandoverInv'
<1>1. TypeOK /\ Alive(p) /\ p # "watchdog" /\ proc[p].pc = "acknowledge"
  BY NotWatchdog DEF Acknowledge, HandoverInv, Alive
<1>2. proc[p].op # None
  BY <1>1 DEF HandoverInv, Good, Role, Operating
<1>3. Rests
  <2>1. proc[p].op.pid \in 0 .. MaxAttempts /\ readiness \in 0 .. MaxAttempts
    BY <1>1, <1>2 DEF TypeOK, Process, UpdateOperation
  <2> QED BY <1>1, <2>1, ReadinessRests DEF Acknowledge
<1>4. CASE Goto(p, "await") /\ Stays
  <2>1. "await" \in Pc
    BY DEF Pc
  <2> QED BY <1>1, <1>2, <1>3, <1>4, <2>1, GotoOwn, GoesOn
<1>5. CASE Exit(p)
  BY <1>1, <1>3, <1>5, ExitKept
<1> QED BY <1>4, <1>5 DEF Acknowledge

LEMMA AwaitCommitKept ==
  ASSUME HandoverInv, NEW p \in Procs, AwaitCommit(p)
  PROVE  HandoverInv'
<1>1. TypeOK /\ Rests /\ Alive(p) /\ p # "watchdog" /\ proc[p].pc = "await"
  BY CalmRests, NotWatchdog DEF AwaitCommit, HandoverInv, Alive
<1>2. CASE Goto(p, "ui") /\ Stays
  <2>1. "ui" \in Pc
    BY DEF Pc
  <2> QED BY <1>1, <1>2, <2>1, GotoOwn, GoesOn
<1>3. CASE Exit(p)
  BY <1>1, <1>3, ExitKept
<1> QED BY <1>2, <1>3 DEF AwaitCommit

LEMMA QuitKept ==
  ASSUME HandoverInv, NEW p \in Procs, Quit(p) \/ Die(p)
  PROVE  HandoverInv'
<1>1. TypeOK /\ Alive(p) /\ Exit(p)
  BY DEF HandoverInv, Quit, Die, Alive
<1>2. Rests
  BY <1>1, UpdaterAssumption DEF Quit, Die, TypeOK, Rests
<1> QED BY <1>1, <1>2, ExitKept

-----------------------------------------------------------------------------
(* The installation: nobody else works while it goes on.                   *)

LEMMA InstallStep ==
  ASSUME HandoverInv, NEW p \in Procs, Installs(p), TypeOK', Disk', Good(p)',
         \A q \in Procs : q # p => proc'[q] = proc[q] /\ (at[q] # None => at'[q] # None),
         proc'[p].pc \notin Moving
  PROVE  HandoverInv'
<1>1. ASSUME NEW q \in Procs, q # p PROVE Good(q)' /\ proc'[q].pc \notin Moving
  <2>1. proc[q].pc \in {"none", "mutex"} /\ (q = "watchdog" => proc[q].pc = "none")
    BY <1>1, InstallsAlone
  <2>2. proc[q].pc = "mutex" => at[q] # None
    BY DEF HandoverInv, Good, Role
  <2>3. proc'[q] = proc[q] /\ (at[q] # None => at'[q] # None)
    BY <1>1
  <2>4. Good(q)'
    BY <2>1, <2>2, <2>3, IdleNext
  <2>5. proc'[q].pc \notin Moving
    BY <2>1, <2>3 DEF Moving
  <2> QED BY <2>4, <2>5
<1>2. OneMoves'
  BY <1>1 DEF OneMoves
<1> QED BY <1>1, <1>2 DEF HandoverInv

\* What is known of one that installs.
LEMMA InstallFacts ==
  ASSUME HandoverInv, NEW p \in Procs, Installs(p)
  PROVE  /\ TypeOK /\ Disk /\ ~ Supervised
         /\ p \in Started /\ p # "watchdog" /\ p # "candidate" /\ Alive(p)
         /\ ~ Alive("watchdog") /\ ~ Alive("candidate")
         /\ at[p] \in Name /\ files[at[p]] = "old" /\ mutex = p
<1>1. p \in Started /\ ~ Alive("watchdog") /\ ~ Alive("candidate") /\ files[at[p]] = "old"
  BY DEF HandoverInv, Good, Role
<1>2. proc[p].pc \notin {"none", "mutex"}
  BY DEF Installs, Handing, Finishing, Undoing, Cleaning, Dropping
<1>3. at[p] # None /\ mutex = p
  BY <1>1, <1>2, Seats, Working
<1>4. at[p] \in Name
  BY <1>3 DEF HandoverInv, TypeOK
<1> QED BY <1>1, <1>2, <1>3, <1>4, Seats DEF HandoverInv, Alive, Supervised, Watching

LEMMA HandingInstalls ==
  ASSUME NEW p \in Procs, proc[p].pc \in Handing
  PROVE  Installs(p)
BY DEF Installs

\* The watchdog and the candidate stay dead.
LEMMA StillAlone ==
  ASSUME HandoverInv, NEW p \in Procs, Installs(p),
         \A q \in Procs : q # p => proc'[q] = proc[q]
  PROVE  ~ Alive("watchdog")' /\ ~ Alive("candidate")' /\ ~ Supervised'
BY InstallFacts, Seats DEF Alive, Supervised, Watching

\* An error of the installation, of a save in particular.
LEMMA UndoKept ==
  ASSUME HandoverInv, NEW p \in Procs, proc[p].pc \in Handing, Undo(p),
         UNCHANGED <<files, readiness, attempts, deaths>>, Fault \/ UNCHANGED faults,
         \/ UNCHANGED journal
         \/ journal' \in UpdateOperation /\ OldThere
  PROVE  HandoverInv'
<1>1. Installs(p) /\ TypeOK /\ Disk
  BY HandingInstalls, InstallFacts
<1>2. "undo" \in Pc /\ "handover" \in Caller /\ Call(p, "undo", "handover") /\ Stays
  BY DEF Pc, Caller, Undo
<1>3. faults' \in 0 .. MaxFaults
  BY <1>1, UpdaterAssumption DEF TypeOK, Fault
<1>4. TypeOK'
  BY <1>1, <1>2, <1>3, CallOwn DEF TypeOK, Stays
<1>5. ~ Alive("watchdog")' /\ ~ Alive("candidate")' /\ ~ Supervised'
  BY <1>1, <1>2, CallOwn, StillAlone
<1>6. UNCHANGED <<files, at, mutex>>
  BY <1>2 DEF Stays
<1>7. Disk'
  <2>1. CASE UNCHANGED journal
    BY <1>1, <1>5, <1>6, <2>1 DEF Disk, OldThere, Replaced, OnlyCommitted
  <2>2. CASE journal' \in UpdateOperation /\ OldThere
    BY <1>1, <1>5, <1>6, <2>2, UpdaterAssumption DEF Disk, OldThere, Replaced, OnlyCommitted
  <2> QED BY <2>1, <2>2
<1>8. Good(p)'
  <2>1. Role(p)'
    <3>1. proc'[p].pc = "undo" /\ proc'[p].then = "handover"
      BY <1>1, <1>2, CallOwn
    <3>2. /\ p \in Started /\ p # "watchdog" /\ at'[p] # None /\ mutex' = p
          /\ files'[at'[p]] = "old"
      BY <1>1, <1>6, InstallFacts, UpdaterAssumption
    <3> QED BY <1>5, <3>1, <3>2
            DEF Role, Installs, Handing, Finishing, Undoing, Cleaning, Dropping, Operating,
                Watching
  <2>2. Relies(p)'
    BY <1>1, <1>2, CallOwn DEF Relies, Dropping
  <2> QED BY <2>1, <2>2 DEF Good
<1>9. proc'[p].pc \notin Moving
  BY <1>1, <1>2, CallOwn DEF Moving
<1> QED BY <1>1, <1>2, <1>4, <1>6, <1>7, <1>8, <1>9, CallOwn, InstallStep

\* A step of the installation that moves nothing and saves nothing.
LEMMA InstallGoesOn ==
  ASSUME HandoverInv, NEW p \in Procs, Installs(p), Stays, Rests,
         proc' \in [Procs -> Process],
         \A q \in Procs : q # p => proc'[q] = proc[q],
         proc'[p].pc \notin Moving, Good(p)'
  PROVE  HandoverInv'
<1>1. TypeOK /\ Disk
  BY InstallFacts
<1>2. TypeOK'
  BY <1>1 DEF TypeOK, Stays, Rests
<1>3. ~ Supervised' /\ UNCHANGED <<files, journal, at>>
  BY StillAlone DEF Stays, Rests
<1>4. Disk'
  BY <1>1, <1>3 DEF Disk, OldThere, Replaced, OnlyCommitted
<1> QED BY <1>2, <1>3, <1>4, InstallStep

\* Good(p)' of an installation, but for what it relies on.
LEMMA InstallRole ==
  ASSUME NEW p \in Started, proc'[p].pc \in Handing,
         ~ Alive("watchdog")', ~ Alive("candidate")', mutex' = p,
         at'[p] # None, files'[at'[p]] = "old",
         proc'[p].pc \in Operating => proc'[p].op # None,
         proc'[p].pc \in {"recover", "write"} => attempts' < MaxAttempts
  PROVE  Role(p)'
BY Seats DEF Role, Installs, Handing, Finishing, Undoing, Cleaning, Dropping, Operating,
             Watching

LEMMA InstallKept ==
  ASSUME HandoverInv, NEW p \in Started, Install(p)
  PROVE  HandoverInv'
<1>1. TypeOK /\ Rests /\ Alive(p) /\ p \in Procs /\ p # "watchdog" /\ Stays
      /\ "recover" \in Pc
  BY CalmRests, Seats DEF Install, HandoverInv, Alive, Pc
<1>2. Goto(p, "recover") /\ mutex = p
  BY <1>1, Working DEF Install
<1>3. \A q \in Procs : q # p => proc'[q] = proc[q]
  BY <1>1, <1>2, GotoOwn
<1>4. ~ Alive("watchdog")' /\ ~ Alive("candidate")'
  BY <1>3, Seats DEF Install, Alive
<1>5. Role(p)'
  BY <1>1, <1>2, <1>4, GotoOwn, InstallRole
     DEF Install, Stays, Rests, Handing, Operating, Watching
<1>6. Relies(p)'
  BY <1>1, <1>2, GotoOwn DEF Relies, Dropping
<1>7. proc'[p].pc \notin Moving /\ proc'[p].pc \notin Watching
  BY <1>1, <1>2, GotoOwn DEF Moving, Watching
<1> QED BY <1>1, <1>2, <1>3, <1>5, <1>6, <1>7, GotoOwn, StayKept DEF Good

\* recover_update, with what it found under the canonical name.
Recovers(p, image) ==
  proc' = [proc EXCEPT ![p].op = journal,
                       ![p].then = IF journal = None THEN None ELSE "install",
                       ![p].pc =
            IF journal = None THEN "write"
            ELSE IF image # "new" THEN "undo"
            ELSE IF journal.phase = Committed THEN "clean backup"
            ELSE "ui"]

LEMMA RecoverFoundKept ==
  ASSUME HandoverInv, NEW p \in Procs, RecoverUpdate(p), NEW found,
         Finds(found, "canonical"), Recovers(p, found)
  PROVE  HandoverInv'
<1> DEFINE Next4(image) == IF journal = None THEN "write"
                           ELSE IF image # "new" THEN "undo"
                           ELSE IF journal.phase = Committed THEN "clean backup"
                           ELSE "ui"
           then == IF journal = None THEN None ELSE "install"
<1>1. Installs(p) /\ proc[p].pc = "recover"
  BY HandingInstalls DEF RecoverUpdate, Handing
<1>2. /\ Finds(found, "canonical")
      /\ proc' = [proc EXCEPT ![p].op = journal, ![p].then = then, ![p].pc = Next4(found)]
  BY DEF Recovers
<1>3. Rests /\ Stays
  BY <1>1, <1>2, FindsRests, InstallFacts DEF RecoverUpdate
<1> DEFINE pc == Next4(found)
<1>4. pc \in Pc /\ then \in Caller
  BY DEF Pc, Caller
<1>5. /\ journal = None => pc = "write"
      /\ pc \in {"write", "undo", "clean backup", "ui"}
      /\ pc # "write" => then = "install"
      /\ pc = "write" => journal = None
      /\ pc = "clean backup" => found = "new" /\ journal.phase = Committed
  OBVIOUS
<1>6. /\ proc' \in [Procs -> Process]
      /\ proc'[p].pc = pc
      /\ proc'[p].then = then
      /\ \A q \in Procs : q # p => proc'[q] = proc[q]
  <2>1. TypeOK /\ journal \in UpdateOperation \cup {None}
    BY <1>1, InstallFacts DEF TypeOK
  <2> HIDE DEF pc, then
  <2>2. proc' = [proc EXCEPT ![p].op = journal, ![p].then = then, ![p].pc = pc]
    BY <1>2 DEF pc, then
  <2> DEFINE a == [proc[p] EXCEPT !.op = journal]
             b == [a EXCEPT !.then = then]
             c == [b EXCEPT !.pc = pc]
  <2>3. proc \in [Procs -> Process]
    BY <2>1 DEF TypeOK
  <2>4. proc' = [proc EXCEPT ![p] = c]
    BY <2>2, <2>3
  <2>5. a \in Process
    BY <2>1, <2>3, Edited
  <2> HIDE DEF a
  <2>6. b \in Process /\ b.then = then
    BY <1>4, <2>5, Edited
  <2> HIDE DEF b
  <2>7. c \in Process /\ c.then = then /\ c.pc = pc
    BY <1>4, <2>6, Edited
  <2> HIDE DEF c
  <2> QED BY <2>3, <2>4, <2>7
<1> HIDE DEF pc, then
<1>7. /\ ~ Alive("watchdog")' /\ ~ Alive("candidate")' /\ ~ Supervised'
      /\ at'[p] # None /\ mutex' = p /\ files'[at'[p]] = "old" /\ attempts' < MaxAttempts
      /\ p \in Started /\ p # "watchdog"
  <2>1. attempts < MaxAttempts
    BY <1>1 DEF HandoverInv, Good, Role
  <2> QED BY <1>1, <1>3, <1>6, <2>1, InstallFacts, StillAlone, UpdaterAssumption
          DEF Stays, Rests, Name
<1>8. Role(p)'
  BY <1>5, <1>6, <1>7
     DEF Role, Installs, Handing, Finishing, Undoing, Cleaning, Dropping, Operating, Watching
<1>9. Relies(p)'
  <2>1. pc = "clean backup" => files["canonical"] = "new" /\ OnlyCommitted
    BY <1>2, <1>5 DEF Finds, OnlyCommitted
  <2>2. pc = "clean backup" => files'["canonical"] = "new" /\ OnlyCommitted'
    BY <1>3, <2>1 DEF Rests, OnlyCommitted
  <2>3. pc = "write" => journal' = None
    BY <1>3, <1>5 DEF Rests
  <2> QED BY <1>5, <1>6, <1>7, <2>2, <2>3 DEF Relies, Dropping
<1>10. proc'[p].pc \notin Watching
  BY <1>5, <1>6 DEF Watching
<1>11. \A q \in Procs : proc[q].pc \notin Moving
  <2>1. ASSUME NEW q \in Procs, q # p PROVE proc[q].pc \notin Moving
    BY <1>1, <2>1, InstallsAlone DEF Moving
  <2> QED BY <1>1, <2>1 DEF Moving
<1>12. Alive(p)
  BY <1>1, InstallFacts
<1> QED BY <1>3, <1>6, <1>8, <1>9, <1>10, <1>11, <1>12, StayKept DEF Good

LEMMA RecoverUpdateKept ==
  ASSUME HandoverInv, NEW p \in Procs, RecoverUpdate(p)
  PROVE  HandoverInv'
<1>1. CASE Fault /\ Goto(p, "ui")
  <2>1. TypeOK /\ Rests /\ Stays /\ proc[p].pc = "recover" /\ p # "watchdog" /\ Alive(p)
    BY <1>1, CalmRests, NotWatchdog DEF RecoverUpdate, HandoverInv, Handing, Alive
  <2>2. "ui" \in Pc
    BY DEF Pc
  <2> QED BY <1>1, <2>1, <2>2, GotoOwn, GoesOn
<1> QED BY <1>1, RecoverFoundKept DEF RecoverUpdate, Recovers

LEMMA WriteCandidateKept ==
  ASSUME HandoverInv, NEW p \in Procs, WriteCandidate(p)
  PROVE  HandoverInv'
<1>1. Installs(p) /\ TypeOK /\ Disk
  BY HandingInstalls, InstallFacts DEF WriteCandidate, Handing
<1>2. /\ attempts < MaxAttempts /\ attempts' = attempts + 1 /\ Stays
      /\ journal = None /\ UNCHANGED <<journal, deaths>>
  BY DEF WriteCandidate, HandoverInv, Good, Role, Relies
<1>3. /\ attempts' \in 1 .. MaxAttempts /\ attempts' \in 0 .. MaxAttempts
      /\ readiness' \in 0 .. MaxAttempts /\ faults' \in 0 .. MaxFaults
  BY <1>1, <1>2, UpdaterAssumption DEF TypeOK, WriteCandidate, Fault
<1>4. files' \in {files, [files EXCEPT !["candidate"] = "new"]}
  BY DEF WriteCandidate
<1>5. /\ files' \in [Name -> Image]
      /\ files'["canonical"] = files["canonical"] /\ files'["backup"] = files["backup"]
      /\ files'["candidate"] # "old"
      /\ \A n \in Name : files[n] # "missing" => files'[n] # "missing"
      /\ \A n \in Name : files[n] = "old" => files'[n] = "old"
  BY <1>1, <1>4 DEF TypeOK, Disk, Name, Image
<1>6. ASSUME proc' \in [Procs -> Process],
             \A q \in Procs : q # p => proc'[q] = proc[q],
             proc'[p].pc \notin Moving, Good(p)'
      PROVE  HandoverInv'
  <2>1. TypeOK'
    BY <1>1, <1>2, <1>3, <1>5, <1>6 DEF TypeOK, Stays
  <2>2. ~ Supervised'
    BY <1>1, <1>6, StillAlone
  <2>3. \A q \in Procs : at'[q] # None => files'[at'[q]] # "missing"
    BY <1>1, <1>2, <1>5 DEF Disk, TypeOK, Stays
  <2>4. Disk'
    BY <1>1, <1>2, <1>5, <2>2, <2>3 DEF Disk, OldThere, Replaced, OnlyCommitted, Stays
  <2> QED BY <1>1, <1>2, <1>6, <2>1, <2>4, InstallStep DEF Stays
<1>7. CASE /\ files["canonical"] = "old"
           /\ proc' = [proc EXCEPT ![p].pc = "verified",
                ![p].op = [attempt |-> attempts + 1, phase |-> Verified, pid |-> 0]]
  <2> DEFINE op == [attempt |-> attempts + 1, phase |-> Verified, pid |-> 0]
             a == [proc[p] EXCEPT !.pc = "verified"]
             b == [a EXCEPT !.op = op]
  <2>1. op \in UpdateOperation
    BY <1>2, <1>3, UpdaterAssumption DEF UpdateOperation, Verified, Committed
  <2>2. proc \in [Procs -> Process] /\ "verified" \in Pc
    BY <1>1 DEF TypeOK, Pc
  <2> HIDE DEF op
  <2>3. proc' = [proc EXCEPT ![p] = b]
    BY <1>7, <2>2 DEF op
  <2>4. a \in Process /\ a.pc = "verified"
    BY <2>2, Edited
  <2> HIDE DEF a
  <2>5. b \in Process /\ b.pc = "verified" /\ b.op = op
    BY <2>1, <2>4, Edited
  <2> HIDE DEF b
  <2>6. /\ proc' \in [Procs -> Process] /\ proc'[p].pc = "verified" /\ proc'[p].op = op
        /\ \A q \in Procs : q # p => proc'[q] = proc[q]
    BY <2>2, <2>3, <2>5
  <2>7. /\ p \in Started /\ ~ Alive("watchdog")' /\ ~ Alive("candidate")' /\ mutex' = p
        /\ at'[p] # None /\ files'[at'[p]] = "old" /\ op # None
    BY <1>1, <1>2, <1>5, <2>1, <2>6, InstallFacts, StillAlone, UpdaterAssumption DEF Stays
  <2>8. Role(p)'
    BY <2>6, <2>7, InstallRole DEF Handing
  <2>9. Relies(p)'
    BY <1>2, <1>5, <1>7, <2>6 DEF Relies, Dropping
  <2> QED BY <1>6, <2>6, <2>8, <2>9 DEF Good, Moving
<1>8. CASE Goto(p, "ui")
  <2>1. /\ proc' \in [Procs -> Process] /\ proc'[p].pc = "ui"
        /\ \A q \in Procs : q # p => proc'[q] = proc[q]
    BY <1>1, <1>8, GotoOwn DEF Pc
  <2>2. p # "watchdog" /\ at'[p] # None /\ mutex' = p
    BY <1>1, <1>2, InstallFacts, UpdaterAssumption DEF Stays
  <2> QED BY <1>6, <2>1, <2>2, PlainNext DEF Moving
<1> QED BY <1>7, <1>8 DEF WriteCandidate

\* Good(p)' of a hand-over, once its journal is saved.
LEMMA HandoverGood ==
  ASSUME HandoverInv, NEW p \in Procs, Installs(p),
         \A q \in Procs : q # p => proc'[q] = proc[q],
         mutex' = p, at'[p] # None, files'[at'[p]] = "old",
         proc'[p].op # None, journal' # None, journal'.phase # Committed,
         LET pc == proc'[p].pc
             canonical == files'["canonical"]
             backup == files'["backup"]
         IN  \/ pc = "move out" /\ canonical = "old"
             \/ pc \in {"moved", "move in"} /\ canonical = "missing" /\ backup = "old"
             \/ /\ pc \in {"installed", "inspect", "watch"}
                /\ canonical = "new" /\ backup = "old"
  PROVE  Good(p)' /\ proc'[p].pc \notin Moving
<1>1. Role(p)'
  BY InstallFacts, StillAlone, InstallRole DEF Handing
<1>2. Relies(p)'
  BY DEF Relies, Dropping
<1> QED BY <1>1, <1>2 DEF Good, Moving

LEMMA Phases ==
  /\ Verified \in Verified .. Committed /\ Verified # Committed
  /\ CurrentMoved \in Verified .. Committed /\ CurrentMoved # Committed
  /\ CandidateInstalled \in Verified .. Committed /\ CandidateInstalled # Committed
  /\ CandidateReady \in Verified .. Committed /\ CandidateReady # Committed
  /\ Committed \in Verified .. Committed
BY DEF Verified, CurrentMoved, CandidateInstalled, CandidateReady, Committed

LEMMA SavePhaseKept ==
  ASSUME HandoverInv, NEW p \in Procs, NEW pc, NEW phase, NEW next,
         SavePhase(p, pc, phase, next),
         \/ pc = "verified" /\ phase = Verified /\ next = "move out"
         \/ pc = "moved" /\ phase = CurrentMoved /\ next = "move in"
         \/ pc = "installed" /\ phase = CandidateInstalled /\ next = "inspect"
  PROVE  HandoverInv'
<1> DEFINE op == At(p, phase)
<1>2. /\ proc[p].pc \in {"verified", "moved", "installed"} /\ next \in Pc
      /\ phase \in Verified .. Committed /\ phase # Committed
  <2>1. proc[p].pc = pc
    BY DEF SavePhase
  <2>2. phase = Verified \/ phase = CurrentMoved \/ phase = CandidateInstalled
    OBVIOUS
  <2>3. /\ Verified \in Verified .. Committed /\ Verified # Committed
        /\ CurrentMoved \in Verified .. Committed /\ CurrentMoved # Committed
        /\ CandidateInstalled \in Verified .. Committed /\ CandidateInstalled # Committed
    BY Phases
  <2>4. phase \in Verified .. Committed /\ phase # Committed
    BY <2>2, <2>3
  <2> QED BY <2>1, <2>4 DEF Pc
<1>3. Installs(p) /\ TypeOK /\ Disk /\ ~ Supervised
  BY <1>2, HandingInstalls, InstallFacts DEF Handing
<1>4. op \in UpdateOperation /\ op.phase # Committed /\ op # None
  <2>1. proc[p].op # None
    BY <1>2 DEF HandoverInv, Good, Role, Operating
  <2> QED BY <1>2, <1>3, <2>1, AtTyped
<1>5. /\ OldThere /\ proc[p].pc = pc
      /\ next = "move out" => files["canonical"] = "old"
      /\ next = "move in" => files["canonical"] = "missing" /\ files["backup"] = "old"
      /\ next = "inspect" => files["canonical"] = "new" /\ files["backup"] = "old"
      /\ next \in {"move out", "move in", "inspect"}
  BY DEF SavePhase, HandoverInv, Good, Relies, OldThere
<1> HIDE DEF op
<1>6. CASE Saved(p, op, next) /\ UNCHANGED <<files, readiness, attempts, deaths>>
  <2>1. /\ proc' \in [Procs -> Process]
        /\ proc'[p].pc = next /\ proc'[p].op = op
        /\ \A q \in Procs : q # p => proc'[q] = proc[q]
        /\ journal' = op
        /\ UNCHANGED <<at, mutex, faults>>
    BY <1>2, <1>3, <1>4, <1>6, SavedOwn
  <2>2. TypeOK'
    BY <1>3, <1>4, <1>6, <2>1 DEF TypeOK
  <2>3. ~ Supervised'
    BY <1>3, <2>1, StillAlone
  <2>4. Disk'
    BY <1>3, <1>4, <1>5, <1>6, <2>1, <2>3 DEF Disk, OldThere, Replaced, OnlyCommitted
  <2>5. mutex' = p /\ at'[p] # None /\ files'[at'[p]] = "old"
    BY <1>3, <1>6, <2>1, InstallFacts, UpdaterAssumption
  <2>6. Good(p)' /\ proc'[p].pc \notin Moving
    BY <1>3, <1>4, <1>5, <1>6, <2>1, <2>5, HandoverGood
  <2> QED BY <1>3, <2>1, <2>2, <2>4, <2>6, InstallStep
<1>7. CASE NotSaved(op) /\ Undo(p) /\ UNCHANGED <<files, readiness, attempts, deaths>>
  BY <1>2, <1>4, <1>5, <1>7, UndoKept DEF Handing, NotSaved
<1> QED BY <1>6, <1>7 DEF SavePhase, op

\* Both renames of start_handover.
LEMMA RenameKept ==
  ASSUME HandoverInv, NEW p \in Procs, NEW pc, NEW from, NEW to, NEW next,
         Rename(p, pc, from, to, next),
         \/ pc = "move out" /\ from = "canonical" /\ to = "backup" /\ next = "moved"
         \/ pc = "move in" /\ from = "candidate" /\ to = "canonical" /\ next = "installed"
  PROVE  HandoverInv'
<1>2. /\ proc[p].pc = pc /\ pc \in Handing /\ next \in Pc
      /\ from \in Name /\ to \in Name /\ from # to
      /\ UNCHANGED <<journal, readiness, attempts, deaths>>
  BY DEF Rename, Handing, Pc, Name
<1>3. Installs(p) /\ TypeOK /\ Disk /\ ~ Supervised
  BY <1>2, HandingInstalls, InstallFacts
<1>4. /\ journal # None /\ journal.phase # Committed /\ proc[p].op # None
      /\ pc = "move out" => files["canonical"] = "old"
      /\ pc = "move in" => files["canonical"] = "missing" /\ files["backup"] = "old"
  BY <1>2 DEF HandoverInv, Good, Role, Relies, Operating
<1>5. CASE Moved(from, to) /\ Goto(p, next)
  <2>1. /\ proc' \in [Procs -> Process]
        /\ proc'[p].pc = next /\ proc'[p].op = proc[p].op
        /\ \A q \in Procs : q # p => proc'[q] = proc[q]
    BY <1>2, <1>3, <1>5, GotoOwn
  <2>2. /\ files[from] # "missing" /\ files[to] = "missing"
        /\ files' \in [Name -> Image]
        /\ files'[from] = "missing" /\ files'[to] = files[from]
        /\ \A n \in Name \ {from, to} : files'[n] = files[n]
        /\ at' = [q \in Procs |-> IF at[q] = from THEN to ELSE at[q]]
        /\ UNCHANGED <<faults, mutex>>
    BY <1>2, <1>3, <1>5 DEF Moved, TypeOK, Image
  <2>3. /\ at' \in [Procs -> Name \cup {None}]
        /\ \A q \in Procs : at[q] # None => at'[q] # None /\ files'[at'[q]] = files[at[q]]
        /\ \A q \in Procs : at[q] = None => at'[q] = None
    BY <1>2, <1>3, <2>2, UpdaterAssumption DEF TypeOK, Disk
  <2>4. /\ pc = "move out" => /\ next = "moved"
                                   /\ files'["canonical"] = "missing"
                                   /\ files'["backup"] = "old"
                                   /\ files'["candidate"] = files["candidate"]
        /\ pc = "move in" => /\ next = "installed"
                                  /\ files'["canonical"] = "new"
                                  /\ files'["backup"] = "old"
                                  /\ files'["candidate"] = "missing"
        /\ pc \in {"move out", "move in"}
    BY <1>3, <1>4, <2>2 DEF Disk, Name, TypeOK, Image
  <2>5. TypeOK'
    BY <1>2, <1>3, <2>1, <2>2, <2>3 DEF TypeOK
  <2>6. ~ Supervised'
    BY <1>3, <2>1, StillAlone
  <2>7. Disk'
    <3>1. \A q \in Procs : at'[q] # None => files'[at'[q]] # "missing"
      BY <1>3, <2>3 DEF Disk
    <3> QED BY <1>2, <1>3, <1>4, <2>4, <2>6, <3>1 DEF Disk, OldThere, Replaced, OnlyCommitted
  <2>8. mutex' = p /\ at'[p] # None /\ files'[at'[p]] = "old"
    BY <1>3, <2>2, <2>3, InstallFacts, UpdaterAssumption
  <2>9. Good(p)' /\ proc'[p].pc \notin Moving
    BY <1>2, <1>3, <1>4, <2>1, <2>4, <2>8, HandoverGood
  <2> QED BY <1>3, <2>1, <2>3, <2>5, <2>7, <2>9, InstallStep
<1>6. CASE NotMoved(from, to) /\ Undo(p)
  BY <1>2, <1>6, UndoKept DEF NotMoved
<1> QED BY <1>5, <1>6 DEF Rename

LEMMA InspectKept ==
  ASSUME HandoverInv, NEW p \in Procs, Inspect(p)
  PROVE  HandoverInv'
<1>1. Installs(p) /\ TypeOK /\ Disk /\ proc[p].pc \in Handing
  BY HandingInstalls, InstallFacts DEF Inspect, Handing
<1>2. CASE /\ files["canonical"] = "new" /\ files["backup"] = "old"
           /\ Goto(p, "watch") /\ Stays
           /\ UNCHANGED faults
  <2>1. /\ proc' \in [Procs -> Process]
        /\ proc'[p].pc = "watch" /\ proc'[p].op = proc[p].op
        /\ \A q \in Procs : q # p => proc'[q] = proc[q]
    BY <1>1, <1>2, GotoOwn DEF Pc
  <2>2. Rests
    BY <1>1, <1>2, CalmRests DEF Inspect
  <2>3. /\ journal # None /\ journal.phase # Committed /\ proc[p].op # None
    BY DEF Inspect, HandoverInv, Good, Role, Relies, Operating
  <2>4. mutex' = p /\ at'[p] # None /\ files'[at'[p]] = "old"
    BY <1>1, <1>2, <2>2, InstallFacts, UpdaterAssumption DEF Stays, Rests
  <2>5. Good(p)' /\ proc'[p].pc \notin Moving
    BY <1>1, <1>2, <2>1, <2>2, <2>3, <2>4, HandoverGood DEF Rests
  <2> QED BY <1>1, <1>2, <2>1, <2>2, <2>5, InstallGoesOn
<1>3. CASE Undo(p)
  BY <1>1, <1>3, UndoKept DEF Inspect
<1> QED BY <1>2, <1>3 DEF Inspect

LEMMA StartWatchdogKept ==
  ASSUME HandoverInv, NEW p \in Procs, StartWatchdog(p)
  PROVE  HandoverInv'
<1>1. Installs(p) /\ TypeOK /\ Disk /\ proc[p].pc = "watch"
  BY HandingInstalls, InstallFacts DEF StartWatchdog, Handing
<1>2. CASE /\ proc' = [proc EXCEPT ![p].pc = "quit",
                          !["watchdog"] = Born("backup", proc[p].op.attempt, FALSE, "check")]
           /\ at' = [at EXCEPT !["watchdog"] = "backup"]
           /\ UNCHANGED <<mutex, faults>>
  <2> DEFINE born == Born("backup", proc[p].op.attempt, FALSE, "check")
             r == [proc[p] EXCEPT !.pc = "quit"]
  <2>1. proc[p].op # None /\ p # "watchdog" /\ p \in Started /\ p # "candidate"
    BY <1>1, InstallFacts DEF HandoverInv, Good, Role, Operating
  <2>2. proc[p].op.attempt \in 0 .. MaxAttempts
    <3>1. proc[p].op \in UpdateOperation
      BY <1>1, <2>1 DEF TypeOK, Process
    <3>2. proc[p].op.attempt \in 1 .. MaxAttempts
      BY <3>1 DEF UpdateOperation
    <3> QED BY <3>2
  <2>3. born \in Process /\ born.pc = "check"
    <3>1. "backup" \in Name /\ "check" \in Pc /\ FALSE \in BOOLEAN
      BY DEF Name, Pc
    <3> QED BY <2>2, <3>1, NobodyTyped
  <2>4. r \in Process /\ r.pc = "quit"
    <3>1. proc[p] \in Process /\ "quit" \in Pc
      BY <1>1 DEF TypeOK, Pc
    <3> QED BY <3>1, Edited
  <2>5. proc \in [Procs -> Process] /\ at \in [Procs -> Name \cup {None}]
    BY <1>1 DEF TypeOK
  <2> HIDE DEF born
  <2>6. proc' = [proc EXCEPT ![p] = r, !["watchdog"] = born]
    BY <1>2, <2>1, <2>5 DEF born
  <2> HIDE DEF r
  <2>7. /\ proc' \in [Procs -> Process] /\ proc'[p] = r /\ proc'["watchdog"] = born
        /\ \A q \in Procs \ {p, "watchdog"} : proc'[q] = proc[q]
    BY <2>1, <2>3, <2>4, <2>5, <2>6, Seats
  <2>8. /\ at' \in [Procs -> Name \cup {None}] /\ at'["watchdog"] = "backup"
        /\ \A q \in Procs \ {"watchdog"} : at'[q] = at[q]
    BY <1>2, <2>5, Seats DEF Name
  <2>9. UNCHANGED <<files, journal, readiness, attempts, mutex, faults, deaths>>
    BY <1>2 DEF StartWatchdog
  <2>10. TypeOK'
    BY <1>1, <2>7, <2>8, <2>9 DEF TypeOK
  <2>11. /\ journal # None /\ journal.phase # Committed
         /\ files["canonical"] = "new" /\ files["backup"] = "old"
    BY <1>1 DEF HandoverInv, Good, Relies
  <2>12. Disk'
    <3>1. \A q \in Procs : at'[q] # None => files'[at'[q]] # "missing"
      BY <1>1, <2>8, <2>9, <2>11 DEF Disk
    <3> QED BY <1>1, <2>9, <2>11, <3>1 DEF Disk, OldThere, Replaced, OnlyCommitted
  <2>13. Good(p)'
    BY <1>1, <2>1, <2>4, <2>7, <2>8, <2>9, InstallFacts, PlainNext, UpdaterAssumption
  <2>14. Good("watchdog")'
    <3>1. None # "backup"
      BY UpdaterAssumption DEF Name
    <3> QED BY <2>3, <2>7, <2>8, <3>1
            DEF Good, Role, Relies, Installs, Handing, Finishing, Undoing, Cleaning, Dropping,
                Operating, Watching
  <2>15. ASSUME NEW q \in Procs \ {p, "watchdog"} PROVE Good(q)' /\ proc'[q].pc \notin Moving
    <3>1. proc[q].pc \in {"none", "mutex"} /\ proc'[q] = proc[q] /\ at'[q] = at[q]
      BY <1>1, <2>7, <2>8, InstallsAlone
    <3>2. proc[q].pc = "mutex" => at[q] # None
      BY DEF HandoverInv, Good, Role
    <3>3. Good(q)'
      BY <3>1, <3>2, IdleNext
    <3> QED BY <3>1, <3>3 DEF Moving
  <2>16. OneMoves'
    BY <2>3, <2>4, <2>7, <2>15 DEF OneMoves, Moving
  <2> QED BY <2>10, <2>12, <2>13, <2>14, <2>15, <2>16 DEF HandoverInv
<1>3. CASE Undo(p) /\ Fault
  BY <1>1, <1>3, UndoKept DEF StartWatchdog, Handing
<1> QED BY <1>2, <1>3 DEF StartWatchdog

LEMMA QuitForUpdateKept ==
  ASSUME HandoverInv, NEW p \in Procs, QuitForUpdate(p)
  PROVE  HandoverInv'
<1>1. TypeOK /\ Rests /\ Alive(p) /\ p # "watchdog" /\ proc[p].pc = "quit"
  BY CalmRests, NotWatchdog DEF QuitForUpdate, HandoverInv, Alive
<1>2. CASE Exit(p)
  BY <1>1, <1>2, ExitKept
<1>3. CASE Goto(p, "ui") /\ Stays
  <2>1. "ui" \in Pc
    BY DEF Pc
  <2> QED BY <1>1, <1>3, <2>1, GotoOwn, GoesOn
<1> QED BY <1>2, <1>3 DEF QuitForUpdate

-----------------------------------------------------------------------------
(* Processes that come and go.                                             *)

\* A program is started, by the user or by the end of a rollback.
LEMMA BornKept ==
  ASSUME HandoverInv, NEW q \in Started, ~ Alive(q), TypeOK',
         proc'[q].pc = "mutex", at'[q] \in {"canonical", "backup"}, files[at'[q]] # "missing",
         UNCHANGED <<files, journal, attempts>>,
         \A x \in Procs : x # q =>
           \/ proc'[x].pc = "none" /\ at'[x] \in {at[x], None}
           \/ proc'[x] = proc[x] /\ at'[x] = at[x] /\ (mutex = x => mutex' = x)
  PROVE  HandoverInv'
<1>1. TypeOK /\ Disk /\ q \in Procs /\ q # "watchdog" /\ q # "candidate"
  BY Seats DEF HandoverInv
<1>2. None # "candidate" /\ None # "canonical" /\ None # "backup"
  BY UpdaterAssumption DEF Name
<1>3. \A x \in Procs : x # q /\ proc'[x].pc # "none" => proc'[x] = proc[x]
  OBVIOUS
<1>4. /\ Supervised' => Supervised
      /\ Alive("watchdog")' => Alive("watchdog")
      /\ Alive("candidate")' => Alive("candidate")
  BY <1>1, <1>3, Seats DEF Supervised, Alive, Watching
<1>5. \A x \in Procs : at'[x] = "candidate" => at[x] = "candidate"
  BY <1>2
<1>6. \A x \in Procs : at'[x] # None => files'[at'[x]] # "missing"
  BY <1>1 DEF Disk
<1>7. Disk'
  BY <1>1, <1>4, <1>5, <1>6 DEF Disk, OldThere, Replaced, OnlyCommitted
<1>8. Good(q)'
  BY <1>1, <1>2, IdleNext
<1>9. ASSUME NEW x \in Procs, x # q PROVE Good(x)'
  <2>1. CASE proc'[x].pc = "none"
    BY <2>1, IdleNext
  <2>2. CASE proc'[x].pc # "none"
    <3>1. Installs(x) => ~ Alive("watchdog")' /\ ~ Alive("candidate")'
      BY <1>4 DEF HandoverInv, Good, Role
    <3> QED BY <1>4, <1>5, <1>9, <2>2, <3>1, CalmOthers
  <2> QED BY <2>1, <2>2
<1>10. OneMoves'
  <2>1. \A x \in Procs : proc'[x].pc \in Moving => proc[x].pc \in Moving
    BY <1>3 DEF Moving
  <2> QED BY <1>1, <2>1, StillOneMoves
<1> QED BY <1>7, <1>8, <1>9, <1>10 DEF HandoverInv

LEMMA StartKept ==
  ASSUME HandoverInv, NEW p \in Started, Start(p)
  PROVE  HandoverInv'
<1>1. PICK exe \in {"canonical", "backup"} :
        /\ ~ Alive(p)
        /\ files[exe] # "missing"
        /\ proc' = [proc EXCEPT ![p] = Born(exe, 0, FALSE, "mutex")]
        /\ at' = [at EXCEPT ![p] = exe]
        /\ UNCHANGED <<files, journal, readiness, mutex, attempts, faults, deaths>>
  BY DEF Start
<1>2. TypeOK /\ p \in Procs
  BY Seats DEF HandoverInv
<1>3. Born(exe, 0, FALSE, "mutex") \in Process /\ Born(exe, 0, FALSE, "mutex").pc = "mutex"
  <2>1. exe \in Name /\ "mutex" \in Pc /\ FALSE \in BOOLEAN
    BY DEF Name, Pc
  <2>2. 0 \in 0 .. MaxAttempts
    BY UpdaterAssumption
  <2> QED BY <2>1, <2>2, NobodyTyped
<1>4. /\ proc' \in [Procs -> Process] /\ proc'[p].pc = "mutex"
      /\ at' \in [Procs -> Name \cup {None}] /\ at'[p] = exe
      /\ \A x \in Procs : x # p => proc'[x] = proc[x] /\ at'[x] = at[x]
  BY <1>1, <1>2, <1>3 DEF TypeOK, Name
<1>5. TypeOK'
  BY <1>1, <1>2, <1>4 DEF TypeOK
<1> QED BY <1>1, <1>4, <1>5, BornKept

LEMMA RespawnKept ==
  ASSUME HandoverInv, NEW p \in Procs, Respawn(p)
  PROVE  HandoverInv'
<1>1. TypeOK /\ Alive(p) /\ proc[p].pc = "respawn"
  BY DEF HandoverInv, Alive, Respawn
<1>2. CASE \E q \in Started :
             /\ ~Alive(q) /\ files["canonical"] # "missing"
             /\ proc' = [proc EXCEPT ![p] = Nobody, ![q] = Born("canonical", 0, TRUE, "mutex")]
             /\ at' = [at EXCEPT ![p] = None, ![q] = "canonical"]
             /\ mutex' = IF mutex = p THEN None ELSE mutex
             /\ UNCHANGED faults
  <2>1. PICK q \in Started :
             /\ ~Alive(q) /\ files["canonical"] # "missing"
             /\ proc' = [proc EXCEPT ![p] = Nobody, ![q] = Born("canonical", 0, TRUE, "mutex")]
             /\ at' = [at EXCEPT ![p] = None, ![q] = "canonical"]
             /\ mutex' = IF mutex = p THEN None ELSE mutex
             /\ UNCHANGED faults
    BY <1>2
  <2> DEFINE born == Born("canonical", 0, TRUE, "mutex")
  <2>2. born \in Process /\ born.pc = "mutex"
    <3>1. "canonical" \in Name /\ "mutex" \in Pc /\ TRUE \in BOOLEAN
      BY DEF Name, Pc
    <3>2. 0 \in 0 .. MaxAttempts
      BY UpdaterAssumption
    <3> QED BY <3>1, <3>2, NobodyTyped
  <2>3. q \in Procs /\ q # p
    BY <1>1, <2>1, Seats
  <2> HIDE DEF born
  <2>4. /\ proc' \in [Procs -> Process] /\ proc'[p] = Nobody /\ proc'[q] = born
        /\ \A x \in Procs \ {p, q} : proc'[x] = proc[x]
    BY <1>1, <2>1, <2>2, <2>3, NobodyTyped DEF TypeOK, born
  <2>5. /\ at' \in [Procs -> Name \cup {None}] /\ at'[p] = None /\ at'[q] = "canonical"
        /\ \A x \in Procs \ {p, q} : at'[x] = at[x]
    BY <1>1, <2>1, <2>3 DEF TypeOK, Name
  <2>6. /\ UNCHANGED <<files, journal, readiness, attempts, faults, deaths>>
        /\ mutex' \in Procs \cup {None} /\ \A x \in Procs : x # p /\ mutex = x => mutex' = x
    BY <1>1, <2>1 DEF Respawn, TypeOK
  <2>7. TypeOK'
    BY <1>1, <2>4, <2>5, <2>6 DEF TypeOK
  <2> QED BY <2>1, <2>2, <2>3, <2>4, <2>5, <2>6, <2>7, NobodyTyped, BornKept
<1>3. CASE /\ Exit(p)
           /\ Fault \/ UNCHANGED faults
  <2>1. Rests
    BY <1>1, <1>3, CalmRests DEF Respawn
  <2> QED BY <1>1, <1>3, <2>1, ExitKept
<1> QED BY <1>2, <1>3 DEF Respawn

LEMMA PowerLossKept ==
  ASSUME HandoverInv, PowerLoss
  PROVE  HandoverInv'
<1>1. TypeOK /\ Disk
  BY DEF HandoverInv
<1>2. TypeOK'
  BY <1>1, NobodyTyped, UpdaterAssumption DEF TypeOK, PowerLoss
<1>3. \A q \in Procs : proc'[q].pc = "none" /\ at'[q] = None
  BY NobodyTyped DEF PowerLoss
<1>4. \A q \in Procs : Good(q)'
  BY <1>3, IdleNext
<1>5. OneMoves' /\ ~ Supervised'
  BY <1>3, Seats DEF OneMoves, Moving, Supervised, Watching
<1>6. Disk'
  <2>1. None # "candidate" /\ UNCHANGED <<files, journal>>
    BY UpdaterAssumption DEF Name, PowerLoss
  <2> QED BY <1>1, <1>3, <1>5, <2>1 DEF Disk, OldThere, Replaced, OnlyCommitted
<1> QED BY <1>2, <1>4, <1>5, <1>6 DEF HandoverInv

-----------------------------------------------------------------------------
(* The watchdog: until it has committed nobody rolls forward.              *)

LEMMA WatchFacts ==
  ASSUME HandoverInv, NEW p \in Procs, proc[p].pc \in Watching
  PROVE  /\ p = "watchdog" /\ p # "candidate" /\ Alive(p) /\ Supervised
         /\ TypeOK /\ at[p] # None
         /\ proc[p].pc # "check" => proc[p].op # None
         /\ proc[p].pc \in {"forget", "spawn", "pid"} => proc[p].op.phase # Committed
         /\ OldThere /\ (journal # None => journal.phase # Committed)
<1>1. p = "watchdog" /\ Alive(p)
  BY DEF HandoverInv, Good, Role, Alive, Watching
<1>2. /\ Supervised
      /\ at[p] # None /\ (proc[p].pc # "check" => proc[p].op # None)
      /\ proc[p].pc \in {"forget", "spawn", "pid"} => proc[p].op.phase # Committed
  BY <1>1 DEF HandoverInv, Good, Role, Relies, Alive, Supervised, Operating
<1> QED BY <1>1, <1>2 DEF HandoverInv, Disk

\* What a save of the watchdog leaves to the others.
LEMMA OthersSupervised ==
  ASSUME HandoverInv, Supervised, NEW q \in Procs, q # "watchdog",
         proc'[q] = proc[q], at'[q] = at[q], mutex = q => mutex' = q,
         UNCHANGED <<files, attempts>>,
         \A x \in Procs : at'[x] = "candidate" => at[x] = "candidate"
  PROVE  Good(q)'
<1>1. ~ Installs(q)
  BY NobodyInstalls, Seats DEF Supervised, Watching
<1>2. ~ Installs(q)'
  BY <1>1 DEF Installs
<1>3. Good(q) /\ ~ Replaced
  BY DEF HandoverInv, Disk, OldThere, Replaced
<1>4. Role(q)'
  BY <1>2, <1>3 DEF Good, Role
<1>5. proc[q].pc \notin Handing
  BY <1>1 DEF Installs
<1>6. Relies(q)'
  BY <1>3, <1>5 DEF Good, Relies, Replaced, Handing
<1> QED BY <1>4, <1>6 DEF Good

\* A step of the watchdog that moves no files.
LEMMA WatchStep ==
  ASSUME HandoverInv, Supervised, TypeOK', UNCHANGED <<files, attempts>>,
         \A q \in Procs : q # "watchdog" =>
           \/ proc'[q].pc = "none"
           \/ q = "candidate" /\ proc'[q].pc = "mutex" /\ at'[q] # None
           \/ proc'[q] = proc[q] /\ at'[q] = at[q] /\ (mutex = q => mutex' = q),
         \A q \in Procs :
           \/ at'[q] \in {at[q], None}
           \/ at'[q] = "canonical" /\ files["canonical"] # "missing",
         journal' = journal \/ journal' # None,
         Supervised' => (journal' # None => journal'.phase # Committed),
         Good("watchdog")', proc'["watchdog"].pc \notin Moving
  PROVE  HandoverInv'
<1>1. TypeOK /\ Disk /\ OldThere
  BY DEF HandoverInv, Disk
<1>2. None # "candidate" /\ "candidate" # "canonical"
  BY UpdaterAssumption DEF Name
<1>3. \A x \in Procs : at'[x] = "candidate" => at[x] = "candidate"
  BY <1>2
<1>4. Disk'
  <2>1. \A q \in Procs : at'[q] # None => files'[at'[q]] # "missing"
    BY <1>1 DEF Disk
  <2>2. journal' = None => \A q \in Procs : at'[q] # "candidate"
    BY <1>1, <1>3 DEF Disk
  <2>3. journal' = None => files'["canonical"] = "old" \/ Replaced'
    BY <1>1 DEF Disk, Replaced
  <2>4. OldThere'
    BY <1>1 DEF OldThere
  <2>5. files'["candidate"] # "old" /\ files'["backup"] # "new"
    BY <1>1 DEF Disk
  <2> QED BY <2>1, <2>2, <2>3, <2>4, <2>5 DEF Disk
<1>5. OneMoves'
  <2>1. \A q \in Procs : proc'[q].pc \in Moving => proc[q].pc \in Moving
    BY DEF Moving
  <2> QED BY <2>1 DEF HandoverInv, OneMoves
<1>6. ASSUME NEW q \in Procs, q # "watchdog" PROVE Good(q)'
  <2>1. CASE proc'[q].pc = "none"
    BY <2>1, IdleNext
  <2>2. CASE proc'[q].pc = "mutex" /\ at'[q] # None
    BY <1>6, <2>2, IdleNext
  <2>3. CASE proc'[q] = proc[q] /\ at'[q] = at[q] /\ (mutex = q => mutex' = q)
    BY <1>3, <1>6, <2>3, OthersSupervised
  <2> QED BY <1>6, <2>1, <2>2, <2>3
<1> QED BY <1>4, <1>5, <1>6 DEF HandoverInv

LEMMA WatchNext ==
  ASSUME at'["watchdog"] # None,
         \/ /\ proc'["watchdog"].pc \in Watching \ {"check"}
            /\ proc'["watchdog"].op # None
            /\ proc'["watchdog"].pc \in {"forget", "spawn", "pid"} =>
                 proc'["watchdog"].op.phase # Committed
         \/ proc'["watchdog"].pc = "undo" /\ proc'["watchdog"].then = "watchdog"
  PROVE  Good("watchdog")' /\ proc'["watchdog"].pc \notin Moving
<1>1. Role("watchdog")'
  BY Seats DEF Role, Installs, Handing, Finishing, Undoing, Cleaning, Dropping, Operating,
               Watching
<1>2. Relies("watchdog")' /\ proc'["watchdog"].pc \notin Moving
  BY DEF Relies, Dropping, Watching, Moving
<1> QED BY <1>1, <1>2 DEF Good

\* The watchdog goes on.
LEMMA WatchGoesOn ==
  ASSUME HandoverInv, NEW p \in Procs, proc[p].pc \in Watching, Stays, Rests,
         proc' \in [Procs -> Process],
         \A q \in Procs : q # p => proc'[q] = proc[q],
         proc'[p].pc \in Watching \ {"check"}, proc'[p].op # None,
         proc'[p].pc \in {"forget", "spawn", "pid"} => proc'[p].op.phase # Committed
  PROVE  HandoverInv'
<1>1. Good(p)' /\ proc'[p].pc \notin Moving
  BY WatchFacts, WatchNext DEF Stays
<1> QED BY <1>1, WatchFacts, StayKept

\* The watchdog gives up; the save it was at may have gone through.
LEMMA WatchUndoKept ==
  ASSUME HandoverInv, NEW p \in Procs, proc[p].pc \in Watching, UndoWatched(p),
         UNCHANGED <<files, readiness, attempts, deaths>>, Fault \/ UNCHANGED faults,
         UNCHANGED journal \/ journal' \in UpdateOperation
  PROVE  HandoverInv'
<1>1. TypeOK /\ p = "watchdog" /\ p # "candidate" /\ Supervised /\ at[p] # None
  BY WatchFacts
<1>2. faults' \in 0 .. MaxFaults
  BY <1>1, UpdaterAssumption DEF TypeOK, Fault
<1>3. TypeOK'
  BY <1>1, <1>2, UndoWatchedOwn DEF TypeOK
<1>4. ~ Supervised'
  BY <1>1, UndoWatchedOwn DEF Supervised, Watching
<1>5. Good("watchdog")' /\ proc'["watchdog"].pc \notin Moving
  BY <1>1, UndoWatchedOwn, WatchNext
<1>6. journal' = journal \/ journal' # None
  BY UpdaterAssumption
<1> QED BY <1>1, <1>3, <1>4, <1>5, <1>6, UndoWatchedOwn, WatchStep

\* A save of the watchdog goes through.
LEMMA WatchSavedKept ==
  ASSUME HandoverInv, NEW p \in Procs, proc[p].pc \in Watching,
         NEW op \in UpdateOperation, op.phase # Committed,
         NEW pc \in {"supervise", "committed"}, Saved(p, op, pc),
         UNCHANGED <<files, readiness, attempts, deaths>>
  PROVE  HandoverInv'
<1>1. TypeOK /\ p = "watchdog" /\ Supervised /\ at[p] # None /\ op # None
  BY WatchFacts, UpdaterAssumption
<1>2. pc \in Pc /\ pc \in Watching \ {"check"}
  BY DEF Pc, Watching
<1>3. TypeOK'
  BY <1>1, <1>2, SavedOwn DEF TypeOK
<1>4. Good("watchdog")' /\ proc'["watchdog"].pc \notin Moving
  BY <1>1, <1>2, SavedOwn, WatchNext
<1> QED BY <1>1, <1>2, <1>3, <1>4, SavedOwn, WatchStep

LEMMA CheckWatchdogKept ==
  ASSUME HandoverInv, NEW p \in Procs, CheckWatchdog(p)
  PROVE  HandoverInv'
<1>1. proc[p].pc \in Watching /\ Rests
  BY CalmRests DEF CheckWatchdog, Watching, HandoverInv
<1>2. CASE /\ IsWatched(p)
           /\ proc' = [proc EXCEPT ![p].op = journal, ![p].pc = "forget"]
           /\ Stays
  <2>1. journal # None /\ journal \in UpdateOperation
    BY <1>1, <1>2, WatchFacts DEF IsWatched, TypeOK
  <2>2. proc' = [proc EXCEPT ![p].op = journal, ![p].pc = "forget"]
    BY <1>2
  <2>3. /\ proc' \in [Procs -> Process]
        /\ proc'[p].pc = "forget" /\ proc'[p].op = journal
        /\ \A q \in Procs : q # p => proc'[q] = proc[q]
    BY <1>1, <2>1, <2>2, WatchFacts, ReadOwn DEF Pc
  <2>4. journal.phase # Committed
    BY <1>1, <2>1, WatchFacts
  <2> QED BY <1>1, <1>2, <2>1, <2>3, <2>4, WatchGoesOn DEF Watching
<1>3. CASE Exit(p)
  BY <1>1, <1>3, WatchFacts, ExitKept
<1> QED BY <1>2, <1>3 DEF CheckWatchdog

LEMMA ForgetReadinessKept ==
  ASSUME HandoverInv, NEW p \in Procs, ForgetReadiness(p)
  PROVE  HandoverInv'
<1>1. proc[p].pc = "forget" /\ proc[p].pc \in Watching /\ TypeOK
  BY DEF ForgetReadiness, Watching, HandoverInv
<1>2. Rests
  <2>1. readiness' \in 0 .. MaxAttempts
    BY <1>1, UpdaterAssumption DEF ForgetReadiness, TypeOK
  <2> QED BY <1>1, <2>1, ReadinessRests DEF ForgetReadiness
<1>3. CASE Goto(p, "spawn") /\ Stays
  <2>1. "spawn" \in Pc /\ "spawn" \in Watching \ {"check"}
    BY DEF Pc, Watching
  <2> QED BY <1>1, <1>2, <1>3, <2>1, GotoOwn, WatchFacts, WatchGoesOn
<1>4. CASE Exit(p)
  BY <1>1, <1>2, <1>4, WatchFacts, ExitKept
<1> QED BY <1>3, <1>4 DEF ForgetReadiness

LEMMA SpawnCandidateKept ==
  ASSUME HandoverInv, NEW p \in Procs, SpawnCandidate(p)
  PROVE  HandoverInv'
<1>1. proc[p].pc = "spawn" /\ proc[p].pc \in Watching
  BY DEF SpawnCandidate, Watching
<1>2. CASE /\ files["canonical"] # "missing"
           /\ proc' = [proc EXCEPT ![p].pc = "pid",
                         !["candidate"] = Born("canonical", proc[p].op.attempt, TRUE, "mutex")]
           /\ at' = [at EXCEPT !["candidate"] = "canonical"]
           /\ UNCHANGED <<mutex, faults>>
  <2> DEFINE born == Born("canonical", proc[p].op.attempt, TRUE, "mutex")
             r == [proc[p] EXCEPT !.pc = "pid"]
  <2>1. /\ TypeOK /\ p = "watchdog" /\ p # "candidate" /\ Supervised /\ at[p] # None
        /\ proc[p].op # None /\ proc[p].op.phase # Committed
        /\ journal # None => journal.phase # Committed
    BY <1>1, WatchFacts
  <2>2. born \in Process /\ born.pc = "mutex"
    <3>1. proc[p].op \in UpdateOperation
      BY <2>1 DEF TypeOK, Process
    <3>2. proc[p].op.attempt \in 1 .. MaxAttempts
      BY <3>1 DEF UpdateOperation
    <3>3. proc[p].op.attempt \in 0 .. MaxAttempts
      BY <3>2
    <3>4. "canonical" \in Name /\ "mutex" \in Pc /\ TRUE \in BOOLEAN
      BY DEF Name, Pc
    <3> QED BY <3>3, <3>4, NobodyTyped
  <2>3. r \in Process /\ r.pc = "pid" /\ r.op = proc[p].op
    <3>1. proc[p] \in Process /\ "pid" \in Pc
      BY <2>1 DEF TypeOK, Pc
    <3> QED BY <3>1, Edited
  <2>4. proc \in [Procs -> Process] /\ at \in [Procs -> Name \cup {None}]
    BY <2>1 DEF TypeOK
  <2> HIDE DEF born
  <2>5. proc' = [proc EXCEPT ![p] = r, !["candidate"] = born]
    BY <1>2, <2>1, <2>4 DEF born
  <2> HIDE DEF r
  <2>6. /\ proc' \in [Procs -> Process] /\ proc'[p] = r /\ proc'["candidate"] = born
        /\ \A q \in Procs \ {p, "candidate"} : proc'[q] = proc[q]
    BY <2>1, <2>2, <2>3, <2>4, <2>5, Seats
  <2>7. /\ at' \in [Procs -> Name \cup {None}] /\ at'["candidate"] = "canonical"
        /\ \A q \in Procs \ {"candidate"} : at'[q] = at[q]
        /\ None # "canonical"
    BY <1>2, <2>4, Seats, UpdaterAssumption DEF Name
  <2>8. UNCHANGED <<files, journal, readiness, attempts, mutex, faults, deaths>>
    BY <1>2 DEF SpawnCandidate
  <2>9. TypeOK'
    BY <2>1, <2>6, <2>7, <2>8 DEF TypeOK
  <2>10. Good("watchdog")' /\ proc'["watchdog"].pc \notin Moving
    <3>1. "pid" \in Watching \ {"check"}
      BY DEF Watching
    <3> QED BY <2>1, <2>3, <2>6, <2>7, <3>1, WatchNext
  <2> QED BY <1>2, <2>1, <2>2, <2>6, <2>7, <2>8, <2>9, <2>10, WatchStep
<1>3. CASE UndoWatched(p)
  BY <1>1, <1>3, WatchUndoKept DEF SpawnCandidate
<1> QED BY <1>2, <1>3 DEF SpawnCandidate

LEMMA SaveCandidatePidKept ==
  ASSUME HandoverInv, NEW p \in Procs, SaveCandidatePid(p)
  PROVE  HandoverInv'
<1> DEFINE op == [proc[p].op EXCEPT !.pid = proc[p].op.attempt]
<1>1. proc[p].pc = "pid" /\ proc[p].pc \in Watching
  BY DEF SaveCandidatePid, Watching
<1>2. op \in UpdateOperation /\ op.phase # Committed
  <2>1. proc[p].op \in UpdateOperation /\ proc[p].op.phase # Committed
    BY <1>1, WatchFacts DEF TypeOK, Process
  <2>2. proc[p].op.attempt \in 1 .. MaxAttempts
    BY <2>1 DEF UpdateOperation
  <2>3. proc[p].op.attempt \in 0 .. MaxAttempts
    BY <2>2
  <2> QED BY <2>1, <2>3 DEF UpdateOperation
<1> HIDE DEF op
<1>3. CASE Saved(p, op, "supervise") /\ UNCHANGED <<files, readiness, attempts, deaths>>
  BY <1>1, <1>2, <1>3, WatchSavedKept
<1>4. CASE NotSaved(op) /\ UndoWatched(p) /\ UNCHANGED <<files, readiness, attempts, deaths>>
  BY <1>1, <1>2, <1>4, WatchUndoKept DEF NotSaved
<1> QED BY <1>3, <1>4 DEF SaveCandidatePid, op

LEMMA SaveCandidateReadyKept ==
  ASSUME HandoverInv, NEW p \in Procs, SaveCandidateReady(p)
  PROVE  HandoverInv'
<1> DEFINE op == At(p, CandidateReady)
<1>1. proc[p].pc = "ready" /\ proc[p].pc \in Watching
  BY DEF SaveCandidateReady, Watching
<1>2. op \in UpdateOperation /\ op.phase # Committed
  BY <1>1, WatchFacts, Phases, AtTyped
<1> HIDE DEF op
<1>3. CASE Saved(p, op, "committed") /\ UNCHANGED <<files, readiness, attempts, deaths>>
  BY <1>1, <1>2, <1>3, WatchSavedKept
<1>4. CASE NotSaved(op) /\ UndoWatched(p) /\ UNCHANGED <<files, readiness, attempts, deaths>>
  BY <1>1, <1>2, <1>4, WatchUndoKept DEF NotSaved
<1> QED BY <1>3, <1>4 DEF SaveCandidateReady, op

\* From the commit on only a clean-up, or a rollback that was already begun, goes on.
LEMMA SaveCommittedKept ==
  ASSUME HandoverInv, NEW p \in Procs, SaveCommitted(p)
  PROVE  HandoverInv'
<1> DEFINE op == At(p, Committed)
<1>1. proc[p].pc = "committed" /\ proc[p].pc \in Watching
  BY DEF SaveCommitted, Watching
<1>2. op \in UpdateOperation /\ op # None
  BY <1>1, WatchFacts, Phases, AtTyped
<1>3. /\ TypeOK /\ p = "watchdog" /\ Supervised
      /\ UNCHANGED <<files, readiness, attempts, deaths>>
  BY <1>1, WatchFacts DEF SaveCommitted
<1> HIDE DEF op
<1>4. CASE journal' = op /\ Exit(p) /\ UNCHANGED faults
  <2>1. TypeOK'
    BY <1>2, <1>3, <1>4, ExitOwn DEF TypeOK
  <2>2. proc'["watchdog"].pc = "none"
    BY <1>3, <1>4, ExitOwn
  <2>3. Good("watchdog")' /\ proc'["watchdog"].pc \notin Moving /\ ~ Supervised'
    BY <2>2, IdleNext, Seats DEF Moving, Supervised, Watching
  <2> QED BY <1>2, <1>3, <1>4, <2>1, <2>3, ExitOwn, WatchStep
<1>5. CASE NotSaved(op) /\ UndoWatched(p)
  BY <1>1, <1>2, <1>3, <1>5, WatchUndoKept DEF NotSaved
<1> QED BY <1>4, <1>5 DEF SaveCommitted, op

LEMMA SuperviseKept ==
  ASSUME HandoverInv, NEW p \in Procs, AwaitReadiness(p) \/ CheckCommit(p)
  PROVE  HandoverInv'
<1>1. /\ proc[p].pc \in {"supervise", "commit"} /\ proc[p].pc \in Watching /\ Rests
      /\ UNCHANGED <<files, journal, readiness, attempts, deaths>>
      /\ Fault \/ UNCHANGED faults
  BY CalmRests DEF AwaitReadiness, CheckCommit, Watching, HandoverInv
<1>2. ASSUME NEW pc \in {"commit", "ready"}, Goto(p, pc), Stays
      PROVE  HandoverInv'
  <2>1. pc \in Pc /\ pc \in Watching \ {"check"} /\ pc \notin {"forget", "spawn", "pid"}
    BY DEF Pc, Watching
  <2> QED BY <1>1, <1>2, <2>1, GotoOwn, WatchFacts, WatchGoesOn
<1>3. CASE UndoWatched(p)
  BY <1>1, <1>3, WatchUndoKept
<1> QED BY <1>2, <1>3 DEF AwaitReadiness, CheckCommit

-----------------------------------------------------------------------------
(* The rollback and the clean-up.                                          *)

LEMMA RollFacts ==
  ASSUME HandoverInv, NEW p \in Procs, proc[p].pc \in Finishing
  PROVE  /\ TypeOK /\ Disk /\ Alive(p) /\ at[p] # None
         /\ p # "watchdog" => mutex = p
         /\ Role(p) /\ Relies(p)
BY DEF HandoverInv, Good, Role, Alive, Finishing, Undoing, Cleaning, Dropping

\* What is known of the next process state, but for what it relies on.
LEMMA RollRole ==
  ASSUME HandoverInv, NEW p \in Procs, proc[p].pc \in Finishing,
         \/ proc'[p].pc \in Undoing \cup Dropping
         \/ proc[p].pc \in Cleaning /\ proc'[p].pc \in Cleaning,
         proc'[p].then = proc[p].then,
         \A q \in Procs : q # p => proc'[q] = proc[q],
         at'[p] # None, files'[at'[p]] = files[at[p]], UNCHANGED <<mutex, attempts>>
  PROVE  Role(p)' /\ proc'[p].pc \notin Watching /\ proc'[p].pc \notin {"none", "mutex"}
<1>1. Role(p) /\ (p # "watchdog" => mutex = p)
  BY RollFacts
<1>2. /\ proc'[p].pc \in Finishing
      /\ proc'[p].pc \notin Handing /\ proc'[p].pc \notin Watching
      /\ proc'[p].pc \notin Operating /\ proc'[p].pc \notin {"none", "mutex"}
      /\ proc'[p].pc \notin {"recover", "write", "respawn"}
  BY DEF Finishing, Undoing, Cleaning, Dropping, Handing, Watching, Operating
<1>3. Installs(p)' => Installs(p)
  BY <1>2 DEF Installs
<1>4. Installs(p)' => /\ p \in Started /\ files'[at'[p]] = "old"
                      /\ ~ Alive("watchdog")' /\ ~ Alive("candidate")'
  BY <1>1, <1>3, StillAlone DEF Role
<1>5. /\ proc'[p].pc \in Undoing \cup Dropping =>
           proc'[p].then \in {"install", "handover", "startup", "cleanup", "self", "watchdog"}
      /\ proc'[p].pc \in Cleaning => proc'[p].then \in {"install", "cleanup"}
  BY <1>1 DEF Role, Finishing, Undoing, Cleaning, Dropping
<1>6. p = "watchdog" => /\ proc'[p].pc \in Undoing \cup Dropping
                        /\ proc'[p].then = "watchdog"
  BY <1>1 DEF Role, Finishing, Undoing, Cleaning, Dropping, Watching
<1>7. p # "watchdog" => proc'[p].then # "watchdog" /\ mutex' = p
  BY <1>1 DEF Role
<1>8. proc'[p].then = "install" => attempts' < MaxAttempts
  BY <1>1 DEF Role
<1> QED BY <1>2, <1>4, <1>5, <1>6, <1>7, <1>8 DEF Role

\* A step of the rollback that moves nothing.
LEMMA RollGoesOn ==
  ASSUME HandoverInv, NEW p \in Procs, proc[p].pc \in Finishing, Stays, Rests,
         NEW pc \in Undoing \cup Dropping, Goto(p, pc), Relies(p)',
         pc \in Moving => proc[p].pc \in Moving \/ \A q \in Procs : proc[q].pc \notin Moving
  PROVE  HandoverInv'
<1>1. TypeOK /\ Alive(p) /\ pc \in Pc /\ at[p] # None
  BY RollFacts DEF Undoing, Dropping, Pc
<1>2. Role(p)' /\ proc'[p].pc \notin Watching
  BY <1>1, GotoOwn, RollRole DEF Stays, Rests
<1> QED BY <1>1, <1>2, GotoOwn, StayKept DEF Good

LEMMA LookAtCanonicalKept ==
  ASSUME OneMoves', HandoverInv, NEW p \in Procs, LookAtCanonical(p)
  PROVE  HandoverInv'
<1>1. PICK image \in Image \cup {"unknown"} :
        /\ Finds(image, "canonical")
        /\ CASE image = "old" -> Goto(p, "confirm") /\ Stays
             [] image = "missing" -> Goto(p, "undo missing") /\ Stays
             [] image = "new" -> Goto(p, "undo candidate") /\ Stays
             [] image = "unknown" -> Fails(p)
  BY DEF LookAtCanonical
<1>2. /\ proc[p].pc \in Finishing /\ TypeOK /\ Rests
      /\ proc[p].pc \notin Moving
  BY <1>1, FindsRests DEF LookAtCanonical, HandoverInv, Finishing, Undoing, Moving
<1>3. CASE image = "unknown"
  BY <1>1, <1>2, <1>3, FailsKept
<1>4. CASE image # "unknown"
  <2>1. image = files["canonical"] /\ image \in {"old", "missing", "new"}
    BY <1>1, <1>4 DEF Finds, Image
  <2>2. CASE image = "old"
    <3>1. Goto(p, "confirm") /\ Stays /\ "confirm" \in Pc /\ "confirm" \in Undoing
      BY <1>1, <2>2 DEF Pc, Undoing
    <3>2. Relies(p)'
      BY <1>2, <3>1, GotoOwn DEF Relies, Dropping
    <3> QED BY <1>2, <3>1, <3>2, GotoOwn, MovesFirst, RollGoesOn
  <2>3. CASE image = "missing"
    <3>1. /\ Goto(p, "undo missing") /\ Stays
          /\ "undo missing" \in Pc /\ "undo missing" \in Undoing
      BY <1>1, <2>3 DEF Pc, Undoing
    <3>2. Relies(p)'
      BY <1>2, <2>1, <2>3, <3>1, GotoOwn DEF Relies, Dropping, Rests
    <3> QED BY <1>2, <3>1, <3>2, GotoOwn, MovesFirst, RollGoesOn
  <2>4. CASE image = "new"
    <3>1. /\ Goto(p, "undo candidate") /\ Stays
          /\ "undo candidate" \in Pc /\ "undo candidate" \in Undoing
      BY <1>1, <2>4 DEF Pc, Undoing
    <3>2. Relies(p)'
      BY <1>2, <2>1, <2>4, <3>1, GotoOwn DEF Relies, Dropping, Rests
    <3> QED BY <1>2, <3>1, <3>2, GotoOwn, MovesFirst, RollGoesOn
  <2> QED BY <2>1, <2>2, <2>3, <2>4
<1> QED BY <1>3, <1>4

LEMMA LookAtBackupKept ==
  ASSUME HandoverInv, NEW p \in Procs, LookAtBackup(p)
  PROVE  HandoverInv'
<1> DEFINE pc == IF proc[p].pc = "undo missing" THEN "restore" ELSE "vacate"
<1>1. PICK image \in Image \cup {"unknown"} :
        /\ Finds(image, "backup")
        /\ IF image # "old" THEN Fails(p) ELSE Goto(p, pc) /\ Stays
  BY DEF LookAtBackup
<1>2. /\ proc[p].pc \in Finishing /\ TypeOK /\ Rests /\ proc[p].pc \in Moving
      /\ proc[p].pc \in {"undo missing", "undo candidate"}
  BY <1>1, FindsRests DEF LookAtBackup, HandoverInv, Finishing, Undoing, Moving
<1>3. CASE image # "old"
  BY <1>1, <1>2, <1>3, FailsKept
<1>4. CASE image = "old"
  <2>1. /\ files'["backup"] = "old"
        /\ pc = "restore" => files'["canonical"] = "missing"
        /\ pc = "vacate" => files'["canonical"] = "new"
        /\ pc \in {"restore", "vacate"}
    <3>1. files["backup"] = "old"
      BY <1>1, <1>4 DEF Finds
    <3>2. /\ pc = "restore" => files["canonical"] = "missing"
          /\ pc = "vacate" => files["canonical"] = "new"
          /\ pc \in {"restore", "vacate"}
      BY <1>2, RollFacts DEF Relies
    <3> QED BY <1>2, <3>1, <3>2 DEF Rests
  <2> HIDE DEF pc
  <2>2. pc \in Pc /\ pc \in Undoing /\ Goto(p, pc) /\ Stays
    BY <1>1, <1>4, <2>1 DEF Pc, Undoing
  <2>3. Relies(p)'
    BY <1>2, <2>1, <2>2, GotoOwn DEF Relies, Dropping
  <2> QED BY <1>2, <2>2, <2>3, RollGoesOn
<1> QED BY <1>3, <1>4

LEMMA ConfirmRestoredKept ==
  ASSUME HandoverInv, NEW p \in Procs, ConfirmRestored(p)
  PROVE  HandoverInv'
<1>1. PICK image \in Image \cup {"unknown"} :
        /\ Finds(image, "canonical")
        /\ IF image = "old" THEN Goto(p, "drop candidate") /\ Stays ELSE Fails(p)
  BY DEF ConfirmRestored
<1>2. proc[p].pc \in Finishing /\ TypeOK /\ Rests
  BY <1>1, FindsRests DEF ConfirmRestored, HandoverInv, Finishing, Undoing
<1>3. CASE image = "old"
  <2>1. files'["canonical"] = "old"
    BY <1>1, <1>2, <1>3 DEF Finds, Rests
  <2>2. /\ Goto(p, "drop candidate") /\ Stays
        /\ "drop candidate" \in Pc /\ "drop candidate" \in Undoing
        /\ "drop candidate" \notin Moving
    BY <1>1, <1>3 DEF Pc, Undoing, Moving
  <2>3. Relies(p)'
    BY <1>2, <2>1, <2>2, GotoOwn DEF Relies, Dropping
  <2> QED BY <1>2, <2>2, <2>3, RollGoesOn
<1>4. CASE image # "old"
  BY <1>1, <1>2, <1>4, FailsKept
<1> QED BY <1>3, <1>4

LEMMA DropReadinessKept ==
  ASSUME HandoverInv, NEW p \in Procs, DropReadiness(p)
  PROVE  HandoverInv'
<1>1. proc[p].pc = "drop readiness" /\ proc[p].pc \in Finishing /\ TypeOK
  BY DEF DropReadiness, HandoverInv, Finishing, Dropping
<1>2. Rests
  <2>1. readiness' \in 0 .. MaxAttempts
    <3>1. readiness' = 0 \/ readiness' = readiness
      BY DEF DropReadiness
    <3>2. 0 \in 0 .. MaxAttempts
      BY UpdaterAssumption
    <3>3. readiness \in 0 .. MaxAttempts
      BY <1>1 DEF TypeOK
    <3> QED BY <3>1, <3>2, <3>3
  <2> QED BY <1>1, <2>1, ReadinessRests DEF DropReadiness
<1>3. CASE Goto(p, "drop journal") /\ Stays
  <2>1. /\ "drop journal" \in Pc /\ "drop journal" \in Dropping
        /\ "drop journal" \notin Moving
    BY DEF Pc, Dropping, Moving
  <2>2. /\ files["canonical"] = "old" \/ Replaced
        /\ \A q \in Procs : at[q] # "candidate"
    BY <1>1, RollFacts DEF Relies, Dropping
  <2>3. Relies(p)'
    BY <1>1, <1>2, <1>3, <2>1, <2>2, GotoOwn DEF Relies, Dropping, Rests, Stays, Replaced
  <2> QED BY <1>1, <1>2, <1>3, <2>1, <2>3, RollGoesOn
<1>4. CASE Fails(p)
  BY <1>1, <1>2, <1>4, FailsKept
<1> QED BY <1>3, <1>4 DEF DropReadiness

\* What a file operation of one process leaves to the others: whoever moves files
\* is alone in it, and the others rely on what he does not touch.
LEMMA OthersRoll ==
  ASSUME HandoverInv, NEW p \in Procs, NEW q \in Procs, q # p, proc[p].pc \in Finishing,
         proc'[q] = proc[q], at[q] # None => at'[q] # None,
         Supervised' => Supervised, UNCHANGED <<mutex, journal, attempts>>,
         \/ proc[p].pc \in {"return", "restore"}
         \/ /\ proc[p].pc \in {"drop backup", "clean backup"}
            /\ files'["canonical"] = files["canonical"] /\ files'["backup"] = "missing"
         \/ files'["canonical"] = files["canonical"] /\ files'["backup"] = files["backup"],
         proc[p].pc # "return" =>
           \A x \in Procs : at'[x] = "candidate" => at[x] = "candidate"
  PROVE  Good(q)'
<1>1. ~ Installs(q)
  BY NobodyInstalls DEF Finishing, Undoing, Cleaning, Dropping
<1>2. ~ Installs(q)' /\ proc[q].pc \notin Handing
  BY <1>1 DEF Installs
<1>3. Good(q) /\ Relies(p) /\ (proc[p].pc \in Moving => proc[q].pc \notin Moving)
  BY RollFacts DEF HandoverInv, OneMoves
<1>4. Role(q)'
  BY <1>2, <1>3 DEF Good, Role
<1>5. Relies(q)'
  <2>1. CASE files'["canonical"] = files["canonical"] /\ files'["backup"] = files["backup"]
             /\ proc[p].pc # "return"
    BY <1>2, <1>3, <2>1 DEF Good, Relies, Handing, Replaced, OnlyCommitted
  <2>2. CASE /\ proc[p].pc = "drop backup"
             /\ files'["canonical"] = files["canonical"] /\ files'["backup"] = "missing"
    <3>1. files["canonical"] = "old" /\ files'["canonical"] = "old"
      BY <1>3, <2>2 DEF Relies
    <3> QED BY <1>2, <1>3, <2>2, <3>1 DEF Good, Relies, Handing, Replaced, OnlyCommitted
  <2>3. CASE /\ proc[p].pc = "clean backup"
             /\ files'["canonical"] = files["canonical"] /\ files'["backup"] = "missing"
    <3>1. files["canonical"] = "new" /\ files'["canonical"] = "new" /\ proc[q].pc \notin Moving
      BY <1>3, <2>3 DEF Relies, Moving
    <3> QED BY <1>2, <1>3, <2>3, <3>1
            DEF Good, Relies, Handing, Replaced, OnlyCommitted, Moving
  <2>4. CASE proc[p].pc \in {"return", "restore"}
    <3>1. /\ files["canonical"] # "old" /\ files["backup"] = "old"
          /\ proc[q].pc \notin Moving
      BY <1>3, <2>4 DEF Relies, Moving
    <3>2. proc[q].pc \notin {"drop candidate", "drop backup", "clean candidate"} \cup Dropping
      BY <1>3, <3>1 DEF Good, Relies, Replaced
    <3> QED BY <1>2, <1>3, <3>1, <3>2 DEF Good, Relies, Handing, OnlyCommitted, Moving
  <2> QED BY <2>1, <2>2, <2>3, <2>4
<1> QED BY <1>4, <1>5 DEF Good

\* A file operation of a rollback or a clean-up.
LEMMA RollStep ==
  ASSUME HandoverInv, NEW p \in Procs, proc[p].pc \in Finishing,
         NEW pc \in Finishing, Goto(p, pc),
         pc \in Undoing \cup Dropping \/ (proc[p].pc \in Cleaning /\ pc \in Cleaning),
         pc \in Moving => proc[p].pc \in Moving,
         files' \in [Name -> Image], at' \in [Procs -> Name \cup {None}],
         \A q \in Procs : at[q] # None => at'[q] # None /\ files'[at'[q]] = files[at[q]],
         \A q \in Procs : at[q] = None => at'[q] = None,
         UNCHANGED <<mutex, journal, readiness, attempts, faults, deaths>>,
         \/ proc[p].pc \in {"return", "restore"}
         \/ /\ proc[p].pc \in {"drop backup", "clean backup"}
            /\ files'["canonical"] = files["canonical"] /\ files'["backup"] = "missing"
         \/ files'["canonical"] = files["canonical"] /\ files'["backup"] = files["backup"],
         proc[p].pc # "return" =>
           \A x \in Procs : at'[x] = "candidate" => at[x] = "candidate",
         files'["candidate"] # "old",
         proc[p].pc = "return" => files'["backup"] = "old",
         proc[p].pc = "restore" => files'["canonical"] = "old" /\ files'["backup"] = "missing",
         Relies(p)'
  PROVE  HandoverInv'
<1>1. TypeOK /\ Disk /\ Relies(p) /\ at[p] # None /\ pc \in Pc
  BY RollFacts DEF Finishing, Undoing, Cleaning, Dropping, Pc
<1>2. /\ proc' \in [Procs -> Process] /\ proc'[p].pc = pc /\ proc'[p].then = proc[p].then
      /\ \A q \in Procs : q # p => proc'[q] = proc[q]
  BY <1>1, GotoOwn
<1>3. TypeOK'
  BY <1>1, <1>2 DEF TypeOK
<1>4. Role(p)' /\ proc'[p].pc \notin Watching
  BY <1>1, <1>2, RollRole
<1>5. Supervised' => Supervised
  BY <1>2, <1>4, Seats DEF Supervised
<1>6. OneMoves'
  BY <1>2, StillOneMoves
<1>7. Disk'
  <2>1. \A q \in Procs : at'[q] # None => files'[at'[q]] # "missing"
    BY <1>1 DEF Disk
  <2>2. CASE proc[p].pc \in {"return", "restore"}
    <3>1. files["canonical"] # "old" /\ files["backup"] = "old"
      BY <1>1, <2>2 DEF Relies
    <3>2. journal # None
      BY <1>1, <3>1 DEF Disk, Replaced
    <3>3. OldThere' /\ files'["backup"] # "new"
      BY <2>2 DEF OldThere
    <3>4. Supervised' => (journal' # None => journal'.phase # Committed)
      BY <1>1, <1>5 DEF Disk
    <3> QED BY <2>1, <3>2, <3>3, <3>4 DEF Disk
  <2>3. CASE /\ proc[p].pc = "drop backup"
             /\ files'["canonical"] = files["canonical"] /\ files'["backup"] = "missing"
    <3>1. files'["canonical"] = "old"
      BY <1>1, <2>3 DEF Relies
    <3> QED BY <1>1, <1>5, <2>1, <2>3, <3>1 DEF Disk, OldThere
  <2>4. CASE /\ proc[p].pc = "clean backup"
             /\ files'["canonical"] = files["canonical"] /\ files'["backup"] = "missing"
    <3>1. Replaced' /\ OnlyCommitted' /\ ~ Supervised'
      BY <1>1, <1>5, <2>4 DEF Relies, Replaced, OnlyCommitted
    <3> QED BY <1>1, <2>1, <2>4, <3>1 DEF Disk
  <2>5. CASE /\ files'["canonical"] = files["canonical"] /\ files'["backup"] = files["backup"]
             /\ proc[p].pc # "return"
    BY <1>1, <1>5, <2>1, <2>5 DEF Disk, OldThere, Replaced, OnlyCommitted
  <2> QED BY <2>2, <2>3, <2>4, <2>5
<1>8. ASSUME NEW q \in Procs, q # p PROVE Good(q)'
  BY <1>2, <1>5, <1>8, OthersRoll
<1> QED BY <1>3, <1>4, <1>6, <1>7, <1>8 DEF Good, HandoverInv

LEMMA RemovedFacts ==
  ASSUME TypeOK, Disk, NEW name \in Name, Removed(name)
  PROVE  /\ files' \in [Name -> Image] /\ files'[name] = "missing"
         /\ \A n \in Name \ {name} : files'[n] = files[n]
         /\ \A q \in Procs : at[q] # name
         /\ \A q \in Procs : at[q] # None => files'[at[q]] = files[at[q]]
         /\ UNCHANGED faults
<1>1. /\ files' = [files EXCEPT ![name] = "missing"] /\ UNCHANGED faults
      /\ files \in [Name -> Image] /\ "missing" \in Image /\ name # None
  BY UpdaterAssumption DEF Removed, TypeOK, Image
<1>2. /\ files' \in [Name -> Image] /\ files'[name] = "missing"
      /\ \A n \in Name \ {name} : files'[n] = files[n]
  BY <1>1
<1>3. \A q \in Procs : at[q] # name
  BY <1>1 DEF Removed, Disk
<1>4. \A q \in Procs : at[q] # None => at[q] \in Name \ {name}
  BY <1>3 DEF TypeOK
<1> QED BY <1>1, <1>2, <1>3, <1>4

LEMMA MovedFacts ==
  ASSUME TypeOK, Disk, NEW from \in Name, NEW to \in Name, from # to, Moved(from, to)
  PROVE  /\ files' \in [Name -> Image]
         /\ files'[from] = "missing" /\ files'[to] = files[from]
         /\ \A n \in Name \ {from, to} : files'[n] = files[n]
         /\ at' \in [Procs -> Name \cup {None}]
         /\ \A q \in Procs : at[q] # None => at'[q] # None /\ files'[at'[q]] = files[at[q]]
         /\ \A q \in Procs : at[q] = None => at'[q] = None
         /\ \A q \in Procs : at'[q] \in {at[q], to}
         /\ UNCHANGED <<faults, mutex>>
<1>1. /\ files[from] # "missing" /\ files[to] = "missing"
      /\ files' \in [Name -> Image]
      /\ files'[from] = "missing" /\ files'[to] = files[from]
      /\ \A n \in Name \ {from, to} : files'[n] = files[n]
      /\ at' = [q \in Procs |-> IF at[q] = from THEN to ELSE at[q]]
      /\ UNCHANGED <<faults, mutex>>
  BY DEF Moved, TypeOK, Image
<1> QED BY <1>1, UpdaterAssumption DEF TypeOK, Disk

LEMMA DropKept ==
  ASSUME HandoverInv, NEW p \in Procs, NEW pc, NEW name, NEW next, Drop(p, pc, name, next),
         \/ pc = "drop candidate" /\ name = "candidate" /\ next = "drop backup"
         \/ pc = "drop backup" /\ name = "backup" /\ next = "drop readiness"
         \/ pc = "clean backup" /\ name = "backup" /\ next = "clean candidate"
         \/ pc = "clean candidate" /\ name = "candidate" /\ next = "drop readiness"
  PROVE  HandoverInv'
<1>1. /\ proc[p].pc = pc /\ pc \in Finishing /\ name \in Name
      /\ UNCHANGED <<journal, readiness, attempts, deaths>>
  BY DEF Drop, Finishing, Undoing, Cleaning, Dropping, Name
<1>2. TypeOK /\ Disk /\ Relies(p)
  BY <1>1, RollFacts
<1>3. CASE Removed(name) /\ Goto(p, next) /\ Stays
  <2>1. /\ files' \in [Name -> Image] /\ files'[name] = "missing"
        /\ \A n \in Name \ {name} : files'[n] = files[n]
        /\ \A q \in Procs : at[q] # name
        /\ \A q \in Procs : at[q] # None => files'[at[q]] = files[at[q]]
        /\ UNCHANGED <<at, mutex, faults>>
    BY <1>1, <1>2, <1>3, RemovedFacts DEF Stays
  <2>2. next \in Finishing /\ next \in Pc /\ next \notin Moving
    BY DEF Finishing, Undoing, Cleaning, Dropping, Pc, Moving
  <2>3. next \in Undoing \cup Dropping \/ (pc \in Cleaning /\ next \in Cleaning)
    BY DEF Undoing, Dropping, Cleaning
  <2>4. /\ name = "candidate" => /\ files'["canonical"] = files["canonical"]
                                 /\ files'["backup"] = files["backup"]
        /\ name = "backup" => /\ files'["canonical"] = files["canonical"]
                              /\ files'["backup"] = "missing"
                              /\ files'["candidate"] = files["candidate"]
    BY <2>1 DEF Name
  <2>5. files'["candidate"] # "old"
    BY <1>2, <2>1, <2>4 DEF Disk
  <2>6. Relies(p)'
    <3>1. proc'[p].pc = next
      BY <1>2, <1>3, <2>2, GotoOwn
    <3>2. next = "clean candidate" => Replaced'
      BY <1>1, <1>2, <2>4 DEF Relies, Replaced
    <3>3. next = "drop backup" => files'["canonical"] = "old"
      BY <1>1, <1>2, <2>4 DEF Relies
    <3>4. next = "drop readiness" => files'["canonical"] = "old" \/ Replaced'
      BY <1>1, <1>2, <2>4 DEF Relies, Replaced
    <3>5. next \in {"drop backup", "drop readiness"} => \A q \in Procs : at'[q] # "candidate"
      BY <1>1, <1>2, <2>1 DEF Relies
    <3> QED BY <3>1, <3>2, <3>3, <3>4, <3>5 DEF Relies, Dropping
  <2>7. at' \in [Procs -> Name \cup {None}]
    BY <1>2, <2>1 DEF TypeOK
  <2>8. pc \in Cleaning \/ pc \in Undoing
    BY DEF Cleaning, Undoing
  <2>9. \/ /\ pc \in {"drop backup", "clean backup"}
           /\ files'["canonical"] = files["canonical"] /\ files'["backup"] = "missing"
        \/ files'["canonical"] = files["canonical"] /\ files'["backup"] = files["backup"]
    BY <2>4
  <2>10. pc \notin {"return", "restore"}
    OBVIOUS
  <2> QED BY <1>1, <1>3, <2>1, <2>2, <2>3, <2>5, <2>6, <2>7, <2>9, <2>10, RollStep
<1>4. CASE NotRemoved(name) /\ Fails(p)
  <2>1. Rests
    BY <1>1, <1>2, <1>4, CalmRests DEF NotRemoved
  <2> QED BY <1>1, <1>4, <2>1, FailsKept
<1> QED BY <1>3, <1>4 DEF Drop

LEMMA VacateCandidateKept ==
  ASSUME HandoverInv, NEW p \in Procs, VacateCandidate(p)
  PROVE  HandoverInv'
<1>1. /\ proc[p].pc = "vacate" /\ proc[p].pc \in Finishing
      /\ UNCHANGED <<journal, readiness, attempts, deaths>>
  BY DEF VacateCandidate, Finishing, Undoing
<1>2. TypeOK /\ Disk /\ Relies(p)
  BY <1>1, RollFacts
<1>3. CASE Removed("candidate") /\ Goto(p, "return") /\ Stays
  <2>1. /\ files' \in [Name -> Image] /\ files'["candidate"] = "missing"
        /\ files'["canonical"] = files["canonical"] /\ files'["backup"] = files["backup"]
        /\ \A q \in Procs : at[q] # None => files'[at[q]] = files[at[q]]
        /\ UNCHANGED <<at, mutex, faults>>
    BY <1>2, <1>3, RemovedFacts DEF Stays, Name
  <2>2. /\ "return" \in Finishing /\ "return" \in Pc /\ "return" \in Undoing
        /\ "vacate" \in Moving
    BY DEF Finishing, Undoing, Pc, Moving
  <2>3. files'["canonical"] = "new" /\ files'["backup"] = "old"
    BY <1>1, <1>2, <2>1 DEF Relies
  <2>4. Relies(p)'
    BY <1>2, <1>3, <2>2, <2>3, GotoOwn DEF Relies, Dropping
  <2>5. at' \in [Procs -> Name \cup {None}] /\ files'["candidate"] # "old"
    BY <1>2, <2>1 DEF TypeOK
  <2> QED BY <1>1, <1>3, <2>1, <2>2, <2>4, <2>5, RollStep
<1>4. CASE Fails(p) /\ UNCHANGED files /\ (Fault \/ UNCHANGED faults)
  <2>1. Rests
    BY <1>1, <1>2, <1>4, CalmRests
  <2> QED BY <1>1, <1>4, <2>1, FailsKept
<1> QED BY <1>3, <1>4 DEF VacateCandidate, NotRemoved

LEMMA ReturnCandidateKept ==
  ASSUME HandoverInv, NEW p \in Procs, ReturnCandidate(p)
  PROVE  HandoverInv'
<1>1. /\ proc[p].pc = "return" /\ proc[p].pc \in Finishing
      /\ UNCHANGED <<journal, readiness, attempts, deaths>>
  BY DEF ReturnCandidate, Finishing, Undoing
<1>2. /\ TypeOK /\ Disk /\ Relies(p)
      /\ files["canonical"] = "new" /\ files["backup"] = "old"
  BY <1>1, RollFacts DEF Relies
<1>3. CASE Moved("canonical", "candidate") /\ Goto(p, "restore")
  <2>1. /\ files' \in [Name -> Image]
        /\ files'["canonical"] = "missing" /\ files'["candidate"] = "new"
        /\ files'["backup"] = "old"
        /\ at' \in [Procs -> Name \cup {None}]
        /\ \A q \in Procs : at[q] # None => at'[q] # None /\ files'[at'[q]] = files[at[q]]
        /\ \A q \in Procs : at[q] = None => at'[q] = None
        /\ UNCHANGED <<faults, mutex>>
    BY <1>2, <1>3, MovedFacts DEF Name
  <2>2. /\ "restore" \in Finishing /\ "restore" \in Pc /\ "restore" \in Undoing
        /\ "return" \in Moving
    BY DEF Finishing, Undoing, Pc, Moving
  <2>3. Relies(p)'
    BY <1>2, <1>3, <2>1, <2>2, GotoOwn DEF Relies, Dropping
  <2>4. files'["candidate"] # "old"
    BY <2>1
  <2> QED BY <1>1, <1>3, <2>1, <2>2, <2>3, <2>4, RollStep
<1>4. CASE NotMoved("canonical", "candidate") /\ Fails(p)
  <2>1. Rests
    BY <1>1, <1>2, <1>4, CalmRests DEF NotMoved
  <2> QED BY <1>1, <1>4, <2>1, FailsKept
<1> QED BY <1>3, <1>4 DEF ReturnCandidate

LEMMA RestoreBackupKept ==
  ASSUME HandoverInv, NEW p \in Procs, RestoreBackup(p)
  PROVE  HandoverInv'
<1>1. /\ proc[p].pc = "restore" /\ proc[p].pc \in Finishing
      /\ UNCHANGED <<journal, readiness, attempts, deaths>>
  BY DEF RestoreBackup, Finishing, Undoing
<1>2. /\ TypeOK /\ Disk /\ Relies(p)
      /\ files["canonical"] = "missing" /\ files["backup"] = "old"
  BY <1>1, RollFacts DEF Relies
<1>3. CASE Moved("backup", "canonical") /\ Goto(p, "confirm")
  <2>1. /\ files' \in [Name -> Image]
        /\ files'["canonical"] = "old" /\ files'["backup"] = "missing"
        /\ files'["candidate"] = files["candidate"]
        /\ at' \in [Procs -> Name \cup {None}]
        /\ \A q \in Procs : at[q] # None => at'[q] # None /\ files'[at'[q]] = files[at[q]]
        /\ \A q \in Procs : at[q] = None => at'[q] = None
        /\ \A q \in Procs : at'[q] \in {at[q], "canonical"}
        /\ UNCHANGED <<faults, mutex>>
    BY <1>2, <1>3, MovedFacts DEF Name
  <2>2. /\ "confirm" \in Finishing /\ "confirm" \in Pc /\ "confirm" \in Undoing
        /\ "restore" \in Moving
    BY DEF Finishing, Undoing, Pc, Moving
  <2>3. Relies(p)'
    BY <1>2, <1>3, <2>2, GotoOwn DEF Relies, Dropping
  <2>4. files'["candidate"] # "old"
    BY <1>2, <2>1 DEF Disk
  <2>5. \A q \in Procs : at'[q] = "candidate" => at[q] = "candidate"
    BY <2>1
  <2> QED BY <1>1, <1>3, <2>1, <2>2, <2>3, <2>4, <2>5, RollStep
<1>4. CASE NotMoved("backup", "canonical") /\ Fails(p)
  <2>1. Rests
    BY <1>1, <1>2, <1>4, CalmRests DEF NotMoved
  <2> QED BY <1>1, <1>4, <2>1, FailsKept
<1> QED BY <1>3, <1>4 DEF RestoreBackup

\* The journal goes last: what it would have led back to is in its place.
LEMMA DropJournalKept ==
  ASSUME HandoverInv, NEW p \in Procs, DropJournal(p)
  PROVE  HandoverInv'
<1> DEFINE next == CASE proc[p].then \in {"startup", "cleanup", "handover"} -> "ui"
                     [] proc[p].then = "install" -> "write"
                     [] proc[p].then \in {"self", "watchdog"} -> "respawn"
<1>1. /\ proc[p].pc = "drop journal" /\ proc[p].pc \in Finishing
      /\ UNCHANGED <<files, readiness, attempts, deaths>>
  BY DEF DropJournal, Finishing, Dropping
<1>2. /\ TypeOK /\ Disk /\ Relies(p) /\ Role(p) /\ at[p] # None
      /\ files["canonical"] = "old" \/ Replaced
      /\ \A q \in Procs : at[q] # "candidate"
  BY <1>1, RollFacts DEF Relies, Dropping
<1>3. /\ proc[p].then \in {"install", "handover", "startup", "cleanup", "self", "watchdog"}
      /\ p = "watchdog" => proc[p].then = "watchdog"
      /\ p # "watchdog" => proc[p].then # "watchdog" /\ mutex = p
  BY <1>1, <1>2 DEF Role, Dropping
<1>4. /\ proc[p].then = "install" => next = "write"
      /\ proc[p].then \in {"startup", "cleanup", "handover"} => next = "ui"
      /\ proc[p].then \in {"self", "watchdog"} => next = "respawn"
  OBVIOUS
<1> HIDE DEF next
<1>5. /\ next \in {"write", "ui", "respawn"} /\ (next = "write" => proc[p].then = "install")
      /\ p = "watchdog" => next = "respawn"
  BY <1>3, <1>4
<1>6. CASE journal' = None /\ Goto(p, next) /\ Stays /\ UNCHANGED faults
  <2>1. next \in Pc /\ next \notin Moving /\ next \notin Watching
    BY <1>5 DEF Pc, Moving, Watching
  <2>2. /\ proc' \in [Procs -> Process] /\ proc'[p].pc = next
        /\ \A q \in Procs : q # p => proc'[q] = proc[q]
    BY <1>2, <1>6, <2>1, GotoOwn
  <2>3. TypeOK'
    BY <1>1, <1>2, <1>6, <2>2 DEF TypeOK, Stays
  <2>4. Supervised' => Supervised
    BY <2>1, <2>2, Seats DEF Supervised
  <2>5. Disk'
    BY <1>1, <1>2, <1>6, <2>4 DEF Disk, OldThere, Replaced, OnlyCommitted, Stays
  <2>6. OneMoves'
    BY <2>1, <2>2, StillOneMoves
  <2>7. Good(p)'
    <3>1. CASE next = "write"
      <4>1. Installs(p) /\ attempts < MaxAttempts
        BY <1>1, <1>2, <1>5, <3>1 DEF Installs, Role
      <4>2. /\ p \in Started /\ ~ Alive("watchdog")' /\ ~ Alive("candidate")' /\ mutex' = p
            /\ files'[at'[p]] = "old" /\ at'[p] # None
        BY <1>1, <1>2, <1>6, <2>2, <4>1, InstallFacts, StillAlone DEF Stays
      <4>3. Role(p)'
        BY <1>1, <2>2, <3>1, <4>1, <4>2, InstallRole DEF Handing, Operating, Watching
      <4>4. Relies(p)'
        BY <1>6, <2>2, <3>1 DEF Relies, Dropping
      <4> QED BY <4>3, <4>4 DEF Good
    <3>2. CASE next # "write" /\ p # "watchdog"
      BY <1>2, <1>3, <1>5, <1>6, <2>2, <3>2, PlainNext DEF Stays
    <3>3. CASE p = "watchdog"
      BY <1>2, <1>5, <1>6, <2>2, <3>3, Seats
         DEF Good, Role, Relies, Installs, Handing, Finishing, Undoing, Cleaning, Dropping,
             Operating, Watching, Stays
    <3> QED BY <3>1, <3>2, <3>3
  <2>8. ASSUME NEW q \in Procs, q # p PROVE Good(q)'
    <3>1. ~ Installs(q) /\ Good(q) /\ proc'[q] = proc[q]
      BY <1>1, <2>2, <2>8, NobodyInstalls DEF HandoverInv, Finishing, Dropping
    <3>2. ~ Installs(q)' /\ proc[q].pc \notin Handing
      BY <3>1 DEF Installs
    <3>3. Role(q)'
      BY <1>1, <1>6, <3>1, <3>2 DEF Good, Role, Stays
    <3>4. Relies(q)'
      BY <1>1, <1>6, <2>4, <3>1, <3>2 DEF Good, Relies, Handing, Replaced, OnlyCommitted, Stays
    <3> QED BY <3>3, <3>4 DEF Good
  <2> QED BY <2>3, <2>5, <2>6, <2>7, <2>8 DEF HandoverInv
<1>7. CASE Fault /\ Fails(p) /\ UNCHANGED journal
  <2>1. Rests
    BY <1>1, <1>2, <1>7, CalmRests
  <2> QED BY <1>1, <1>7, <2>1, FailsKept
<1> QED BY <1>6, <1>7 DEF DropJournal, next

-----------------------------------------------------------------------------
(* The invariant.                                                          *)

LEMMA HandoverInit ==
  ASSUME Init
  PROVE  HandoverInv
<1>1. 0 \in 0 .. MaxAttempts /\ 0 \in 0 .. MaxFaults /\ 0 \in 0 .. MaxDeaths
  BY UpdaterAssumption
<1>2. TypeOK
  BY <1>1, NobodyTyped DEF Init, TypeOK, Image
<1>3. /\ \A p \in Procs : proc[p].pc = "none" /\ at[p] = None
      /\ journal = None /\ files["canonical"] = "old"
      /\ files["candidate"] = "missing" /\ files["backup"] = "missing"
  BY NobodyTyped DEF Init, Name
<1>4. Disk
  BY <1>3, Seats, UpdaterAssumption DEF Disk, OldThere, OnlyCommitted, Supervised, Watching, Name
<1>5. OneMoves
  BY <1>3 DEF OneMoves, Moving
<1>6. \A p \in Procs : Good(p)
  BY <1>3 DEF Good, Role, Relies, Installs, Handing, Finishing, Undoing, Cleaning, Dropping,
              Operating, Watching
<1> QED BY <1>2, <1>4, <1>5, <1>6 DEF HandoverInv

LEMMA StutterKept ==
  ASSUME HandoverInv, UNCHANGED vars
  PROVE  HandoverInv'
<1>1. TypeOK' /\ Disk' /\ OneMoves'
  BY DEF HandoverInv, vars, TypeOK, Disk, OldThere, Replaced, OnlyCommitted, Supervised, OneMoves
<1>2. \A p \in Procs : Good(p)'
  BY CalmOthers DEF HandoverInv, vars, Supervised, Good, Role, Alive
<1> QED BY <1>1, <1>2 DEF HandoverInv

LEMMA StartupKept ==
  ASSUME OneMoves', HandoverInv, NEW p \in Procs, Startup(p)
  PROVE  HandoverInv'
BY EnterMutexKept, PrepareStartupKept, DecideStartupKept, CheckIdentityKept, AcknowledgeKept,
   AwaitCommitKept DEF Startup

LEMMA InstallerKept ==
  ASSUME HandoverInv, NEW p \in Procs, Installer(p)
  PROVE  HandoverInv'
<1>1. CASE SaveVerified(p) \/ SaveCurrentMoved(p) \/ SaveCandidateInstalled(p)
  BY <1>1, SavePhaseKept DEF SaveVerified, SaveCurrentMoved, SaveCandidateInstalled
<1>2. CASE MoveCurrentOut(p) \/ MoveCandidateIn(p)
  BY <1>2, RenameKept DEF MoveCurrentOut, MoveCandidateIn
<1> QED BY <1>1, <1>2, RecoverUpdateKept, WriteCandidateKept, InspectKept, StartWatchdogKept,
           QuitForUpdateKept DEF Installer

LEMMA WatchdogKept ==
  ASSUME HandoverInv, NEW p \in Procs, Watchdog(p)
  PROVE  HandoverInv'
BY CheckWatchdogKept, ForgetReadinessKept, SpawnCandidateKept, SaveCandidatePidKept,
   SuperviseKept, SaveCandidateReadyKept, SaveCommittedKept DEF Watchdog

LEMMA RollbackKept ==
  ASSUME OneMoves', HandoverInv, NEW p \in Procs, Rollback(p)
  PROVE  HandoverInv'
<1>1. CASE DropCandidate(p) \/ DropBackup(p) \/ CleanBackup(p) \/ CleanCandidate(p)
  BY <1>1, DropKept DEF DropCandidate, DropBackup, CleanBackup, CleanCandidate
<1> QED BY <1>1, LookAtCanonicalKept, LookAtBackupKept, VacateCandidateKept,
           ReturnCandidateKept, RestoreBackupKept, ConfirmRestoredKept, DropReadinessKept,
           DropJournalKept, RespawnKept DEF Rollback

LEMMA HandoverNext ==
  ASSUME OneMoves', HandoverInv, [Next]_vars
  PROVE  HandoverInv'
<1>1. ASSUME NEW p \in Procs, Work(p) \/ Die(p) PROVE HandoverInv'
  BY <1>1, StartupKept, InstallerKept, WatchdogKept, RollbackKept, QuitKept DEF Work
<1>2. ASSUME NEW p \in Started, Start(p) \/ Install(p) \/ Quit(p) PROVE HandoverInv'
  BY <1>2, StartKept, InstallKept, QuitKept, Seats
<1>3. CASE Quit("candidate")
  BY <1>3, QuitKept, Seats
<1>4. CASE PowerLoss
  BY <1>4, PowerLossKept
<1>5. CASE UNCHANGED vars
  BY <1>5, StutterKept
<1> QED BY <1>1, <1>2, <1>3, <1>4, <1>5 DEF Next

-----------------------------------------------------------------------------
(* rollback_update takes no lock: the invariant is kept until two          *)
(* processes move files at once, which the history records.                *)

LEMMA RacedNextKept ==
  ASSUME overlapped \/ HandoverInv, [RacedNext]_<<vars, overlapped>>
  PROVE  (overlapped \/ HandoverInv)'
<1>1. CASE RacedNext
  <2>1. overlapped' \/ (~ overlapped /\ OneMoves')
    BY <1>1 DEF RacedNext
  <2> QED BY <1>1, <2>1, HandoverNext DEF RacedNext
<1>2. CASE UNCHANGED <<vars, overlapped>>
  BY <1>2, StutterKept
<1> QED BY <1>1, <1>2

\* The files, the journal and every process fit together at every point of a hand-over
\* that may be interrupted anywhere, until two processes have moved files of it at once.
THEOREM Handover == RacedSpec => [](overlapped \/ HandoverInv)
<1>1. Init => HandoverInv
  BY HandoverInit
<1>2. (overlapped \/ HandoverInv) /\ [RacedNext]_<<vars, overlapped>>
        => (overlapped \/ HandoverInv)'
  BY RacedNextKept
<1> QED BY <1>1, <1>2, PTL DEF RacedSpec, RacedInit

\* start_handover renames the running executable away before the candidate takes its place,
\* and rollback_update does the reverse: at any point between their steps the image that is
\* known to work, or the committed one, is where the next start looks for it.
THEOREM AlwaysStartable == RacedSpec => []KnownGoodUnlessRaced
<1>1. overlapped \/ HandoverInv => KnownGoodUnlessRaced
  BY DEF HandoverInv, Disk, OldThere, Replaced, OnlyCommitted, KnownGood, KnownGoodUnlessRaced
<1> QED BY <1>1, Handover, PTL

-----------------------------------------------------------------------------
(* Who begins to serve the user.                                           *)

Opens(p) == proc[p].pc \notin {"ui", "recover", "quit"} /\ proc'[p].pc = "ui"

LEMMA GotoOpens ==
  ASSUME TypeOK, NEW q \in Procs, NEW pc \in Pc, NEW p \in Procs, Opens(p),
         Goto(q, pc) \/ (\E then \in Caller : Call(q, pc, then))
  PROVE  p = q /\ pc = "ui"
BY GotoOwn, CallOwn DEF Opens

LEMMA ExitOpens ==
  ASSUME TypeOK, NEW q \in Procs, Exit(q), NEW p \in Procs
  PROVE  ~ Opens(p)
<1>1. proc'[q].pc = "none" /\ \A x \in Procs : x # q => proc'[x] = proc[x]
  BY ExitOwn
<1> QED BY <1>1 DEF Opens

LEMMA UndoWatchedOpens ==
  ASSUME TypeOK, NEW q \in Procs, q # "candidate", UndoWatched(q), NEW p \in Procs
  PROVE  ~ Opens(p)
<1>1. /\ proc'[q].pc = "undo" /\ proc'["candidate"].pc = "none"
      /\ \A x \in Procs \ {q, "candidate"} : proc'[x] = proc[x]
  BY UndoWatchedOwn
<1> QED BY <1>1 DEF Opens

\* A process that reads the journal and goes on.
LEMMA ReadOpens ==
  ASSUME TypeOK, NEW q \in Procs, NEW p \in Procs, NEW op \in UpdateOperation,
         NEW pc \in Pc, pc # "ui",
         proc' = [proc EXCEPT ![q].op = op, ![q].pc = pc]
  PROVE  ~ Opens(p)
<1>1. proc'[q].pc = pc /\ \A x \in Procs : x # q => proc'[x] = proc[x]
  BY DEF TypeOK, Process
<1> QED BY <1>1 DEF Opens

LEMMA FailsOpens ==
  ASSUME TypeOK, NEW q \in Procs, Fails(q), NEW p \in Procs, Opens(p)
  PROVE  p = q /\ proc[p].then \in {"install", "handover"}
<1>1. "ui" \in Pc
  BY DEF Pc
<1> QED BY <1>1, GotoOpens, ExitOpens DEF Fails

LEMMA StartupOpens ==
  ASSUME HandoverInv, NEW q \in Procs, Startup(q), NEW p \in Procs, Opens(p)
  PROVE  \/ journal = None /\ UNCHANGED journal
         \/ journal # None /\ journal.phase = Committed
<1>1. /\ TypeOK
      /\ {"prepare", "decide", "identity", "acknowledge", "await", "ui", "undo",
          "clean backup"} \subseteq Pc
  BY DEF HandoverInv, Pc
<1>2. {"startup", "cleanup", "self", None} \subseteq Caller
  BY DEF Caller
<1>3. CASE EnterMutex(q)
  BY <1>1, <1>3, GotoOpens, ExitOpens DEF EnterMutex
<1>4. CASE PrepareStartup(q)
  <2>0. ~ Exit(q)
    BY <1>1, ExitOpens
  <2>1. CASE journal # None
    <3>1. proc' = [proc EXCEPT ![q].op = journal, ![q].pc = "decide"]
      BY <1>4, <2>0, <2>1 DEF PrepareStartup
    <3>2. journal \in UpdateOperation /\ "decide" \in Pc
      BY <1>1, <2>1 DEF TypeOK
    <3> QED BY <1>1, <3>1, <3>2, ReadOpens
  <2>2. CASE journal = None
    BY <1>4, <2>0, <2>2 DEF PrepareStartup
  <2> QED BY <2>1, <2>2
<1>5. CASE DecideStartup(q)
  BY <1>1, <1>2, <1>5, GotoOpens, ExitOpens DEF DecideStartup
<1>6. CASE CheckIdentity(q)
  BY <1>1, <1>2, <1>6, GotoOpens DEF CheckIdentity
<1>7. CASE Acknowledge(q)
  BY <1>1, <1>7, GotoOpens, ExitOpens DEF Acknowledge
<1>8. CASE AwaitCommit(q)
  BY <1>1, <1>8, ExitOpens DEF AwaitCommit
<1> QED BY <1>3, <1>4, <1>5, <1>6, <1>7, <1>8 DEF Startup

LEMMA InstallerOpens ==
  ASSUME HandoverInv, NEW q \in Procs, Installer(q), NEW p \in Procs, Opens(p)
  PROVE  Installs(p)
<1>1. TypeOK
  BY DEF HandoverInv
<1>2. CASE RecoverUpdate(q)
  <2>1. proc[q].pc = "recover" /\ \A x \in Procs : x # q => proc'[x] = proc[x]
    BY <1>1, <1>2 DEF RecoverUpdate, TypeOK, Goto
  <2> QED BY <2>1 DEF Opens
<1>3. CASE QuitForUpdate(q)
  <2>1. proc[q].pc = "quit" /\ \A x \in Procs : x # q => proc'[x] = proc[x]
    BY <1>1, <1>3 DEF QuitForUpdate, TypeOK, Exit, Goto
  <2> QED BY <2>1 DEF Opens
<1>4. CASE ~ RecoverUpdate(q) /\ ~ QuitForUpdate(q)
  <2>1. proc[q].pc \in Handing
    BY <1>4 DEF Installer, WriteCandidate, SaveVerified, SaveCurrentMoved,
            SaveCandidateInstalled, SavePhase, MoveCurrentOut, MoveCandidateIn, Rename, Inspect,
            StartWatchdog, Handing
  <2>2. \A x \in Procs : x # q => proc'[x] = proc[x] \/ proc'[x].pc = "check"
    <3>1. CASE StartWatchdog(q)
      <4>1. Born("backup", proc[q].op.attempt, FALSE, "check").pc = "check"
        BY DEF Born, Nobody
      <4> QED BY <1>1, <3>1, <4>1 DEF StartWatchdog, TypeOK, Undo, Call
    <3>2. CASE ~ StartWatchdog(q)
      BY <1>1, <1>4, <3>2
         DEF Installer, WriteCandidate, SaveVerified, SaveCurrentMoved, SaveCandidateInstalled,
             SavePhase, MoveCurrentOut, MoveCandidateIn, Rename, Inspect, Saved, Undo, Call,
             Goto, TypeOK
    <3> QED BY <3>1, <3>2
  <2>3. p = q
    BY <2>2 DEF Opens
  <2> QED BY <2>1, <2>3, HandingInstalls
<1> QED BY <1>2, <1>3, <1>4

LEMMA WatchdogOpens ==
  ASSUME HandoverInv, NEW q \in Procs, Watchdog(q), NEW p \in Procs
  PROVE  ~ Opens(p)
<1>1. TypeOK /\ proc[q].pc \in Watching
  BY DEF HandoverInv, Watchdog, CheckWatchdog, ForgetReadiness, SpawnCandidate,
         SaveCandidatePid, AwaitReadiness, CheckCommit, SaveCandidateReady, SaveCommitted,
         Watching
<1>2. /\ q = "watchdog"
      /\ {"forget", "spawn", "pid", "supervise", "commit", "ready", "committed"} \subseteq Pc
  BY <1>1, WatchFacts DEF Pc
<1>3. ASSUME UndoWatched(q) \/ Exit(q) PROVE ~ Opens(p)
  BY <1>1, <1>2, <1>3, ExitOpens, UndoWatchedOpens
<1>4. ASSUME NEW pc \in Pc, pc # "ui", Goto(q, pc) PROVE ~ Opens(p)
  BY <1>1, <1>4, GotoOpens
<1>5. ASSUME NEW op \in UpdateOperation, NEW pc \in Pc, pc # "ui", Saved(q, op, pc)
      PROVE  ~ Opens(p)
  BY <1>1, <1>5, SavedOwn DEF Opens
<1>6. CASE CheckWatchdog(q)
  <2>1. CASE /\ IsWatched(q)
             /\ proc' = [proc EXCEPT ![q].op = journal, ![q].pc = "forget"]
    <3>1. proc' = [proc EXCEPT ![q].op = journal, ![q].pc = "forget"] /\ journal # None
      BY <2>1 DEF IsWatched
    <3>2. journal \in UpdateOperation /\ "forget" \in Pc
      BY <1>1, <1>2, <3>1 DEF TypeOK
    <3> QED BY <1>1, <3>1, <3>2, ReadOpens
  <2> QED BY <1>3, <1>6, <2>1 DEF CheckWatchdog
<1>7. CASE ForgetReadiness(q)
  BY <1>2, <1>3, <1>4, <1>7 DEF ForgetReadiness
<1>8. CASE SpawnCandidate(q)
  <2>1. Born("canonical", proc[q].op.attempt, TRUE, "mutex").pc = "mutex"
    BY DEF Born, Nobody
  <2>2. CASE proc' = [proc EXCEPT ![q].pc = "pid",
                         !["candidate"] = Born("canonical", proc[q].op.attempt, TRUE, "mutex")]
    BY <1>1, <1>2, <2>1, <2>2, Seats DEF Opens, TypeOK, Process
  <2> QED BY <1>3, <1>8, <2>2 DEF SpawnCandidate
<1>9. CASE SaveCandidatePid(q)
  <2> DEFINE op == [proc[q].op EXCEPT !.pid = proc[q].op.attempt]
  <2>1. op \in UpdateOperation
    <3>1. proc[q].op \in UpdateOperation
      BY <1>1, <1>9, WatchFacts DEF TypeOK, Process, SaveCandidatePid
    <3>2. proc[q].op.attempt \in 1 .. MaxAttempts
      BY <3>1 DEF UpdateOperation
    <3>3. proc[q].op.attempt \in 0 .. MaxAttempts
      BY <3>2
    <3> QED BY <3>1, <3>3 DEF UpdateOperation
  <2> HIDE DEF op
  <2> QED BY <1>2, <1>3, <1>5, <1>9, <2>1 DEF SaveCandidatePid, op
<1>10. CASE AwaitReadiness(q) \/ CheckCommit(q)
  BY <1>2, <1>3, <1>4, <1>10 DEF AwaitReadiness, CheckCommit
<1>11. CASE SaveCandidateReady(q)
  <2>1. At(q, CandidateReady) \in UpdateOperation
    BY <1>1, <1>11, WatchFacts, Phases, AtTyped DEF SaveCandidateReady
  <2> QED BY <1>2, <1>3, <1>5, <1>11, <2>1 DEF SaveCandidateReady
<1>12. CASE SaveCommitted(q)
  BY <1>3, <1>12 DEF SaveCommitted
<1> QED BY <1>6, <1>7, <1>8, <1>9, <1>10, <1>11, <1>12 DEF Watchdog

LEMMA RollbackOpens ==
  ASSUME HandoverInv, NEW q \in Procs, Rollback(q), NEW p \in Procs, Opens(p)
  PROVE  Installs(p) \/ (p = q /\ proc[p].pc = "drop journal" /\ journal' = None)
<1>1. TypeOK
  BY DEF HandoverInv
<1>2. CASE Respawn(q)
  <2>1. CASE Exit(q)
    BY <1>1, <2>1, ExitOpens
  <2>2. CASE \E x \in Started :
               proc' = [proc EXCEPT ![q] = Nobody, ![x] = Born("canonical", 0, TRUE, "mutex")]
    <3>1. Born("canonical", 0, TRUE, "mutex").pc = "mutex" /\ Nobody.pc = "none"
      BY DEF Born, Nobody
    <3> QED BY <1>1, <2>2, <3>1 DEF Opens, TypeOK
  <2> QED BY <1>2, <2>1, <2>2 DEF Respawn
<1>3. CASE DropJournal(q)
  <2>1. CASE Fails(q)
    BY <1>1, <1>3, <2>1, FailsOpens DEF Installs, DropJournal, Finishing, Dropping
  <2>2. CASE journal' = None /\ \A x \in Procs : x # q => proc'[x] = proc[x]
    BY <1>3, <2>2 DEF Opens, DropJournal
  <2> QED BY <1>1, <1>3, <2>1, <2>2 DEF DropJournal, Goto, TypeOK
<1>4. CASE ~ Respawn(q) /\ ~ DropJournal(q)
  <2>1. proc[q].pc \in Finishing
    BY <1>4 DEF Rollback, LookAtCanonical, LookAtBackup, VacateCandidate, ReturnCandidate,
            RestoreBackup, ConfirmRestored, DropCandidate, DropBackup, CleanBackup,
            CleanCandidate, Drop, DropReadiness, Finishing, Undoing, Cleaning, Dropping
  <2>2. Fails(q) \/ \E pc \in Pc \ {"ui"} : Goto(q, pc)
    <3>1. CASE LookAtCanonical(q)
      <4>1. PICK image \in Image \cup {"unknown"} :
              CASE image = "old" -> Goto(q, "confirm") /\ Stays
                [] image = "missing" -> Goto(q, "undo missing") /\ Stays
                [] image = "new" -> Goto(q, "undo candidate") /\ Stays
                [] image = "unknown" -> Fails(q)
        BY <3>1 DEF LookAtCanonical
      <4>2. {"confirm", "undo missing", "undo candidate"} \subseteq Pc \ {"ui"}
        BY DEF Pc
      <4>3. image \in {"old", "missing", "new", "unknown"}
        BY DEF Image
      <4> QED BY <4>1, <4>2, <4>3
    <3>2. CASE LookAtBackup(q)
      BY <3>2 DEF LookAtBackup, Pc
    <3>3. CASE VacateCandidate(q) \/ ReturnCandidate(q) \/ RestoreBackup(q)
      BY <3>3 DEF VacateCandidate, ReturnCandidate, RestoreBackup, Pc
    <3>4. CASE ConfirmRestored(q)
      BY <3>4 DEF ConfirmRestored, Pc
    <3>5. CASE DropCandidate(q) \/ DropBackup(q) \/ CleanBackup(q) \/ CleanCandidate(q)
      BY <3>5 DEF DropCandidate, DropBackup, CleanBackup, CleanCandidate, Drop, Pc
    <3>6. CASE DropReadiness(q)
      BY <3>6 DEF DropReadiness, Pc
    <3> QED BY <1>4, <3>1, <3>2, <3>3, <3>4, <3>5, <3>6 DEF Rollback
  <2> QED BY <1>1, <2>1, <2>2, GotoOpens, FailsOpens DEF Installs
<1> QED BY <1>2, <1>3, <1>4

LEMMA OtherOpens ==
  ASSUME HandoverInv, NEW p \in Procs,
         \/ \E q \in Procs : Die(q)
         \/ \E q \in Started : Start(q) \/ Install(q) \/ Quit(q)
         \/ Quit("candidate")
         \/ PowerLoss
         \/ UNCHANGED vars
  PROVE  ~ Opens(p)
<1>1. TypeOK
  BY DEF HandoverInv
<1>2. ASSUME NEW q \in Procs, Die(q) \/ Quit(q) PROVE ~ Opens(p)
  BY <1>1, <1>2, ExitOpens DEF Die, Quit
<1>3. ASSUME NEW q \in Started, Start(q) PROVE ~ Opens(p)
  <2>1. \A exe : Born(exe, 0, FALSE, "mutex").pc = "mutex"
    BY DEF Born, Nobody
  <2> QED BY <1>1, <1>3, <2>1, Seats DEF Start, Opens, TypeOK
<1>4. ASSUME NEW q \in Started, Install(q) PROVE ~ Opens(p)
  <2>1. "recover" \in Pc
    BY DEF Pc
  <2> QED BY <1>1, <1>4, <2>1, Seats, GotoOpens DEF Install
<1>5. CASE PowerLoss
  BY <1>5, NobodyTyped DEF PowerLoss, Opens
<1>6. CASE UNCHANGED vars
  BY <1>6 DEF vars, Opens
<1> QED BY <1>2, <1>3, <1>4, <1>5, <1>6, Seats

\* A process that runs the new image without a journal is the executable itself.
LEMMA NewIsCanonical ==
  ASSUME HandoverInv, NEW p \in Procs, proc[p].pc # "none", files[at[p]] = "new",
         at[p] # "candidate"
  PROVE  files["canonical"] = "new"
<1>1. at[p] \in Name
  BY DEF HandoverInv, TypeOK, Good, Role
<1> QED BY <1>1 DEF HandoverInv, Disk, Name

\* A candidate serves the user only after its watchdog saved the commit, however the saves,
\* the deaths and the starts by hand interleave: before that every way to the user interface
\* is one of the old image, or of the new one with nothing left to undo.
THEOREM OnlyCommittedServes == RacedSpec => ServesOnlyCommitted
<1>1. ASSUME HandoverInv, [Next]_vars, NEW p \in Procs, Opens(p), files[at[p]] = "new"
      PROVE  \/ journal' = None /\ files["canonical"] = "new"
             \/ journal # None /\ journal.phase = Committed
  <2>1. ~ Installs(p)
    <3>1. "old" # "new"
      OBVIOUS
    <3> QED BY <1>1, <3>1, InstallFacts
  <2>2. \E q \in Procs : Work(q)
    BY <1>1, OtherOpens DEF Next
  <2>3. PICK q \in Procs : Startup(q) \/ Rollback(q)
    BY <1>1, <2>1, <2>2, InstallerOpens, WatchdogOpens DEF Work
  <2>4. proc[p].pc # "none"
    <3>1. CASE Startup(q)
      <4>1. proc[p].pc = "none" => proc'[p] = proc[p] \/ proc'[p].pc = "none"
        BY <1>1, <3>1
           DEF HandoverInv, TypeOK, Startup, EnterMutex, PrepareStartup, DecideStartup,
               CheckIdentity, Acknowledge, AwaitCommit, Goto, Call, Exit
      <4> QED BY <1>1, <4>1 DEF Opens
    <3>2. CASE Rollback(q)
      BY <1>1, <2>1, <3>2, RollbackOpens
    <3> QED BY <2>3, <3>1, <3>2
  <2>5. CASE journal = None /\ UNCHANGED journal
    <3>1. at[p] # "candidate"
      BY <1>1, <2>5 DEF HandoverInv, Disk
    <3> QED BY <1>1, <2>4, <2>5, <3>1, NewIsCanonical
  <2>6. CASE proc[p].pc = "drop journal" /\ journal' = None
    <3>1. at[p] # "candidate"
      BY <1>1, <2>6 DEF HandoverInv, Good, Relies, Dropping
    <3> QED BY <1>1, <2>4, <2>6, <3>1, NewIsCanonical
  <2> QED BY <1>1, <2>1, <2>3, <2>5, <2>6, StartupOpens, RollbackOpens
<1> DEFINE Shown == \A p \in Procs :
              ( /\ ~ overlapped
                /\ proc[p].pc \notin {"ui", "recover", "quit"} /\ proc'[p].pc = "ui"
                /\ files[at[p]] = "new" )
              => \/ journal' = None /\ files["canonical"] = "new"
                 \/ journal # None /\ journal.phase = Committed
<1>2. ASSUME overlapped \/ HandoverInv, [RacedNext]_<<vars, overlapped>> PROVE Shown
  <2>1. [Next]_vars
    BY <1>2 DEF RacedNext
  <2> QED BY <1>1, <1>2, <2>1 DEF Opens
<1>3. (overlapped \/ HandoverInv) /\ [RacedNext]_<<vars, overlapped>>
        => [Shown]_<<vars, overlapped>>
  BY <1>2
<1> QED BY <1>3, Handover, PTL DEF RacedSpec, ServesOnlyCommitted
==============================================================================
