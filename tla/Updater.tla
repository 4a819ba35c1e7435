-------------------------------- MODULE Updater --------------------------------
(***************************************************************************)
(* The hand-over of updater.rs: a running portable program installs a      *)
(* downloaded candidate, a watchdog started from the backup supervises it, *)
(* and every start of the program finishes or undoes what it finds in the  *)
(* update journal.  Files are named by their role, because the names of an *)
(* attempt are unique, and hold an image, because only hashes are          *)
(* compared.  Windows renames the file of a running process but does not   *)
(* delete it: `at' follows where the image of each process is.  Any file   *)
(* operation may fail (a fault), a process may die between any two steps,  *)
(* and the user starts the program at any time.  The journal is saved by   *)
(* the store (AtomicStore): a save that fails leaves the old or the new    *)
(* document.  Attempts install "new" over "old"; a download takes longer   *)
(* than the last steps of an earlier watchdog.                             *)
(***************************************************************************)
EXTENDS Naturals

CONSTANTS None,
          Started,      \* bound: slots of processes the user or the program starts
          MaxAttempts,  \* bound: hand-overs
          MaxFaults,    \* bound: failing file operations and starts
          MaxDeaths     \* bound: processes that die in mid-step

VARIABLES files,      \* the image under each name, or "missing"
          journal,    \* update-operation.v1.json, or None
          readiness,  \* the process id in the readiness file of the attempt, or 0
          proc,       \* every process: where it is and what it has read
          at,         \* the name its executable file has now
          mutex,      \* who holds Local\Claudometer.SingleInstance
          attempts, faults, deaths

vars == <<files, journal, readiness, proc, at, mutex, attempts, faults, deaths>>

Procs == Started \cup {"watchdog", "candidate"}

Name == {"canonical", "candidate", "backup"}

Image == {"missing", "old", "new"}

\* UpdatePhase, in its order.
Verified == 1
CurrentMoved == 2
CandidateInstalled == 3
CandidateReady == 4
Committed == 5

\* UpdateOperation; the process id of a candidate is the number of its attempt.
UpdateOperation == [attempt : 1..MaxAttempts, phase : Verified..Committed, pid : 0..MaxAttempts]

Pc == {"none", "mutex", "prepare", "decide", "identity", "acknowledge", "await", "ui",
       "recover", "write", "verified", "move out", "moved", "move in", "installed", "inspect",
       "watch", "quit", "check", "forget", "spawn", "pid", "supervise", "commit", "ready",
       "committed",
       "undo", "undo missing", "undo candidate", "vacate", "return", "restore", "confirm", "drop candidate",
       "drop backup", "drop readiness", "drop journal", "respawn",
       "clean backup", "clean candidate"}

\* Who called rollback_update or finish_committed.
Caller == {None, "install", "handover", "startup", "cleanup", "self", "watchdog"}

\* exe: the name it was started under; invited: its --update-attempt, or 0;
\* waits: --swap-wait; op: the operation it holds.
Process == [pc : Pc, exe : Name \cup {None}, invited : 0..MaxAttempts, waits : BOOLEAN,
            op : UpdateOperation \cup {None}, then : Caller]

Nobody == [pc |-> "none", exe |-> None, invited |-> 0, waits |-> FALSE, op |-> None, then |-> None]

Born(exe, invited, waits, pc) ==
    [Nobody EXCEPT !.pc = pc, !.exe = exe, !.invited = invited, !.waits = waits]

Alive(p) == proc[p].pc # "none"

ASSUME UpdaterAssumption ==
    /\ MaxAttempts \in Nat /\ MaxFaults \in Nat /\ MaxDeaths \in Nat
    /\ Started \cap {"watchdog", "candidate"} = {}
    /\ None \notin Procs
    /\ None \notin Name
    /\ None \notin UpdateOperation

Init == /\ files = [n \in Name |-> IF n = "canonical" THEN "old" ELSE "missing"]
        /\ journal = None
        /\ readiness = 0
        /\ proc = [p \in Procs |-> Nobody]
        /\ at = [p \in Procs |-> None]
        /\ mutex = None
        /\ attempts = 0
        /\ faults = 0
        /\ deaths = 0

-----------------------------------------------------------------------------
Goto(p, pc) == proc' = [proc EXCEPT ![p].pc = pc]

Call(p, pc, then) == proc' = [proc EXCEPT ![p].pc = pc, ![p].then = then]

\* The end of a process, with what it held.
Exit(p) == /\ proc' = [proc EXCEPT ![p] = Nobody]
           /\ at' = [at EXCEPT ![p] = None]
           /\ mutex' = IF mutex = p THEN None ELSE mutex

Stays == UNCHANGED <<at, mutex>>

Fault == faults < MaxFaults /\ faults' = faults + 1

\* An error of rollback_update or finish_committed: the installer reports it
\* and goes on, every other caller ends.
Fails(p) == IF proc[p].then \in {"install", "handover"} THEN Goto(p, "ui") /\ Stays
            ELSE Exit(p)

\* An error of start_handover, of the check after it or of the watchdog's start.
Undo(p) == Call(p, "undo", "handover") /\ Stays

\* An error of the watchdog: terminate_candidate, then rollback_update.
UndoWatched(p) ==
    /\ proc' = [proc EXCEPT !["candidate"] = Nobody, ![p].pc = "undo", ![p].then = "watchdog"]
    /\ at' = [at EXCEPT !["candidate"] = None]
    /\ mutex' = IF mutex = "candidate" THEN None ELSE mutex

\* installed_image: what is found under a name; a file that cannot be read is unknown.
Finds(image, name) == \/ image = files[name] /\ UNCHANGED faults
                      \/ image = "unknown" /\ files[name] # "missing" /\ Fault

\* remove_update_file: a file that some process runs stays.
Removed(name) == /\ files[name] = "missing" \/ \A q \in Procs : at[q] # name
                 /\ files' = [files EXCEPT ![name] = "missing"]
                 /\ UNCHANGED faults

NotRemoved(name) == /\ files[name] # "missing"
                    /\ \/ (\E q \in Procs : at[q] = name) /\ UNCHANGED faults
                       \/ Fault
                    /\ UNCHANGED files

\* move_update_file: the destination must be free; running processes move along.
Moved(from, to) == /\ files[from] # "missing"
                   /\ files[to] = "missing"
                   /\ files' = [files EXCEPT ![from] = "missing", ![to] = files[from]]
                   /\ at' = [q \in Procs |-> IF at[q] = from THEN to ELSE at[q]]
                   /\ UNCHANGED <<faults, mutex>>

NotMoved(from, to) == /\ \/ (files[from] = "missing" \/ files[to] # "missing") /\ UNCHANGED faults
                         \/ Fault
                      /\ UNCHANGED files

\* save_update_phase and save_candidate_pid.
Saved(p, op, pc) == /\ journal' = op
                    /\ proc' = [proc EXCEPT ![p].op = op, ![p].pc = pc]
                    /\ UNCHANGED faults
                    /\ Stays

NotSaved(op) == Fault /\ journal' \in {journal, op}

At(p, phase) == [proc[p].op EXCEPT !.phase = phase]

-----------------------------------------------------------------------------
\* The user, or Windows at sign-in, starts the program; the backup only when
\* the executable is gone and nothing runs.
Start(p) ==
    \E exe \in {"canonical", "backup"} :
        /\ ~Alive(p)
        /\ files[exe] # "missing"
        /\ exe = "backup" => files["canonical"] = "missing" /\ \A q \in Procs : ~Alive(q)
        /\ proc' = [proc EXCEPT ![p] = Born(exe, 0, FALSE, "mutex")]
        /\ at' = [at EXCEPT ![p] = exe]
        /\ UNCHANGED <<files, journal, readiness, mutex, attempts, faults, deaths>>

\* Mutant of EnterMutex: a second start goes on although the mutex exists.
EnterAnyway(p) ==
    /\ proc[p].pc = "mutex"
    /\ mutex' = p
    /\ Goto(p, "prepare")
    /\ UNCHANGED <<at, files, journal, readiness, attempts, faults, deaths>>

\* main: one instance; only a process of a hand-over waits, and not for ever.
EnterMutex(p) ==
    /\ proc[p].pc = "mutex"
    /\ IF mutex = None
       THEN mutex' = p /\ Goto(p, "prepare") /\ UNCHANGED at
       ELSE Exit(p)
    /\ UNCHANGED <<files, journal, readiness, attempts, faults, deaths>>

\* prepare_startup_at reads the journal: without one an invited process is stale,
\* and one that cannot be read ends the start.
PrepareStartup(p) ==
    /\ proc[p].pc = "prepare"
    /\ \/ /\ IF journal # None
             THEN proc' = [proc EXCEPT ![p].op = journal, ![p].pc = "decide"] /\ Stays
             ELSE IF proc[p].invited # 0 THEN Exit(p)
             ELSE Goto(p, "ui") /\ Stays
          /\ UNCHANGED faults
       \/ Fault /\ Exit(p)
    /\ UNCHANGED <<files, journal, readiness, attempts, deaths>>

\* It then compares the canonical image: a committed update is cleaned up by
\* the new version; a candidate must prove its identity; anything else is
\* rolled back, by a process nobody invited.
DecideStartup(p) ==
    /\ proc[p].pc = "decide"
    /\ \E image \in Image \cup {"unknown"} :
          /\ Finds(image, "canonical")
          /\ LET candidate == proc[p].exe = "canonical" /\ image = "new"
                 committed == proc[p].op.phase = Committed
             IN  IF proc[p].invited # 0 /\ (committed \/ ~candidate) THEN Exit(p)
                 ELSE IF candidate /\ committed THEN Call(p, "clean backup", "cleanup") /\ Stays
                 ELSE IF candidate THEN Goto(p, "identity") /\ Stays
                 ELSE Call(p, "undo", "startup") /\ Stays
    /\ UNCHANGED <<files, journal, readiness, attempts, deaths>>

\* A candidate that nobody invited, or that is not the one of the journal,
\* rolls back itself; hash and version of its own file are read again.
CheckIdentity(p) ==
    LET op == proc[p].op
        invited == proc[p].invited = op.attempt /\ op.phase = CandidateInstalled /\ op.pid = op.attempt
    IN  /\ proc[p].pc = "identity"
        /\ \/ /\ invited
              /\ Call(p, "acknowledge", None)
              /\ UNCHANGED faults
           \/ /\ \/ ~invited /\ UNCHANGED faults
                 \/ Fault
              /\ Call(p, "undo", "self")
        /\ Stays
        /\ UNCHANGED <<files, journal, readiness, attempts, deaths>>

\* complete_startup of the candidate: it acknowledges its start ...
Acknowledge(p) ==
    /\ proc[p].pc = "acknowledge"
    /\ \/ /\ readiness' = proc[p].op.pid
          /\ Goto(p, "await")
          /\ Stays
          /\ UNCHANGED faults
       \/ /\ Fault
          /\ readiness' \in {readiness, proc[p].op.pid}
          /\ Exit(p)
    /\ UNCHANGED <<files, journal, attempts, deaths>>

\* Mutant of AwaitCommit: a candidate that waited long enough goes on.
AwaitNothing(p) ==
    /\ proc[p].pc = "await"
    /\ Goto(p, "ui")
    /\ Stays
    /\ UNCHANGED <<files, journal, readiness, attempts, faults, deaths>>

\* ... and waits for the commit, five seconds at most or until a read fails.
AwaitCommit(p) ==
    /\ proc[p].pc = "await"
    /\ \/ /\ IF journal # None /\ journal.phase = Committed /\ journal.pid = proc[p].op.pid
             THEN Goto(p, "ui") /\ Stays
             ELSE Exit(p)
          /\ UNCHANGED faults
       \/ Fault /\ Exit(p)
    /\ UNCHANGED <<files, journal, readiness, attempts, deaths>>

\* The user quits the program.
Quit(p) == /\ proc[p].pc = "ui"
           /\ Exit(p)
           /\ UNCHANGED <<files, journal, readiness, attempts, faults, deaths>>

-----------------------------------------------------------------------------
\* install_inner, on a thread of the running program: recover_update first.
\* No earlier watchdog or candidate is still at work (see above).
Install(p) ==
    /\ proc[p].pc = "ui"
    /\ at[p] # None /\ files[at[p]] = "old"
    /\ proc[p].exe = "canonical"
    /\ attempts < MaxAttempts
    /\ ~Alive("watchdog") /\ ~Alive("candidate")
    /\ Goto(p, "recover")
    /\ Stays
    /\ UNCHANGED <<files, journal, readiness, attempts, faults, deaths>>

\* An unreadable journal ends the installation, and so does a new image that is
\* not committed.
RecoverUpdate(p) ==
    /\ proc[p].pc = "recover"
    /\ \/ \E image \in Image \cup {"unknown"} :
             /\ Finds(image, "canonical")
             /\ proc' = [proc EXCEPT ![p].op = journal,
                                     ![p].then = IF journal = None THEN None ELSE "install",
                                     ![p].pc =
                   IF journal = None THEN "write"
                   ELSE IF image # "new" THEN "undo"
                   ELSE IF journal.phase = Committed THEN "clean backup"
                   ELSE "ui"]
       \/ Fault /\ Goto(p, "ui")
    /\ Stays
    /\ UNCHANGED <<files, journal, readiness, attempts, deaths>>

\* Mutant of WriteCandidate: the first rename comes before the first save.
WriteAndMove(p) ==
    /\ proc[p].pc = "write"
    /\ files["canonical"] = "old"
    /\ attempts' = attempts + 1
    /\ files' = [files EXCEPT !["candidate"] = "new"]
    /\ readiness' = 0
    /\ proc' = [proc EXCEPT ![p].pc = "move out",
          ![p].op = [attempt |-> attempts + 1, phase |-> Verified, pid |-> 0]]
    /\ Stays
    /\ UNCHANGED <<journal, faults, deaths>>

\* The download, verified in memory and again on disk; before that, and if
\* any check fails, nothing has been journaled.
WriteCandidate(p) ==
    /\ proc[p].pc = "write"
    /\ attempts' = attempts + 1
    /\ \/ /\ files["canonical"] = "old"
          /\ files' = [files EXCEPT !["candidate"] = "new"]
          /\ readiness' = 0
          /\ proc' = [proc EXCEPT ![p].pc = "verified",
                ![p].op = [attempt |-> attempts + 1, phase |-> Verified, pid |-> 0]]
          /\ UNCHANGED faults
       \/ /\ \/ files["canonical"] # "old" /\ UNCHANGED faults
             \/ Fault
          /\ files' \in {files, [files EXCEPT !["candidate"] = "new"]}
          /\ Goto(p, "ui")
          /\ UNCHANGED readiness
    /\ Stays
    /\ UNCHANGED <<journal, deaths>>

\* start_handover: each save of a phase, with the rename that comes before it.
SavePhase(p, pc, phase, next) ==
    /\ proc[p].pc = pc
    /\ \/ Saved(p, At(p, phase), next)
       \/ NotSaved(At(p, phase)) /\ Undo(p)
    /\ UNCHANGED <<files, readiness, attempts, deaths>>

SaveVerified(p) == SavePhase(p, "verified", Verified, "move out")
SaveCurrentMoved(p) == SavePhase(p, "moved", CurrentMoved, "move in")
SaveCandidateInstalled(p) == SavePhase(p, "installed", CandidateInstalled, "inspect")

Rename(p, pc, from, to, next) ==
    /\ proc[p].pc = pc
    /\ \/ Moved(from, to) /\ Goto(p, next)
       \/ NotMoved(from, to) /\ Undo(p)
    /\ UNCHANGED <<journal, readiness, attempts, deaths>>

MoveCurrentOut(p) == Rename(p, "move out", "canonical", "backup", "moved")
MoveCandidateIn(p) == Rename(p, "move in", "candidate", "canonical", "installed")

\* Both images are verified where they are now.
Inspect(p) ==
    /\ proc[p].pc = "inspect"
    /\ \/ /\ files["canonical"] = "new" /\ files["backup"] = "old"
          /\ Goto(p, "watch") /\ Stays
          /\ UNCHANGED faults
       \/ /\ \/ (files["canonical"] # "new" \/ files["backup"] # "old") /\ UNCHANGED faults
             \/ Fault
          /\ Undo(p)
    /\ UNCHANGED <<files, journal, readiness, attempts, deaths>>

\* The backup is started as the watchdog, and the program is told to quit.
StartWatchdog(p) ==
    /\ proc[p].pc = "watch"
    /\ \/ /\ files["backup"] # "missing"
          /\ proc' = [proc EXCEPT ![p].pc = "quit",
                                  !["watchdog"] = Born("backup", proc[p].op.attempt, FALSE, "check")]
          /\ at' = [at EXCEPT !["watchdog"] = "backup"]
          /\ UNCHANGED <<mutex, faults>>
       \/ Fault /\ Undo(p)
    /\ UNCHANGED <<files, journal, readiness, attempts, deaths>>

\* WM_UPDATE ends the program, unless the message could not be posted.
QuitForUpdate(p) ==
    /\ proc[p].pc = "quit"
    /\ \/ Exit(p) /\ UNCHANGED faults
       \/ Fault /\ Goto(p, "ui") /\ Stays
    /\ UNCHANGED <<files, journal, readiness, attempts, deaths>>

-----------------------------------------------------------------------------
\* run_watchdog: the journal must name this attempt, its phase and its images.
IsWatched(p) ==
    IF journal = None THEN FALSE
    ELSE /\ journal.attempt = proc[p].invited
         /\ journal.phase = CandidateInstalled
         /\ files["backup"] = "old" /\ files["canonical"] = "new"

CheckWatchdog(p) ==
    /\ proc[p].pc = "check"
    /\ \/ /\ IsWatched(p)
          /\ proc' = [proc EXCEPT ![p].op = journal, ![p].pc = "forget"]
          /\ Stays
          /\ UNCHANGED faults
       \/ /\ \/ ~IsWatched(p) /\ UNCHANGED faults
             \/ Fault
          /\ Exit(p)
    /\ UNCHANGED <<files, journal, readiness, attempts, deaths>>

\* An acknowledgement left by somebody else does not count.
ForgetReadiness(p) ==
    /\ proc[p].pc = "forget"
    /\ \/ readiness' = 0 /\ Goto(p, "spawn") /\ Stays /\ UNCHANGED faults
       \/ Fault /\ Exit(p) /\ UNCHANGED readiness
    /\ UNCHANGED <<files, journal, attempts, deaths>>

SpawnCandidate(p) ==
    /\ proc[p].pc = "spawn"
    /\ \/ /\ files["canonical"] # "missing"
          /\ proc' = [proc EXCEPT ![p].pc = "pid",
                         !["candidate"] = Born("canonical", proc[p].op.attempt, TRUE, "mutex")]
          /\ at' = [at EXCEPT !["candidate"] = "canonical"]
          /\ UNCHANGED <<mutex, faults>>
       \/ /\ \/ files["canonical"] = "missing" /\ UNCHANGED faults
             \/ Fault
          /\ UndoWatched(p)
    /\ UNCHANGED <<files, journal, readiness, attempts, deaths>>

SaveCandidatePid(p) ==
    LET op == [proc[p].op EXCEPT !.pid = proc[p].op.attempt]
    IN  /\ proc[p].pc = "pid"
        /\ \/ Saved(p, op, "supervise")
           \/ NotSaved(op) /\ UndoWatched(p)
        /\ UNCHANGED <<files, readiness, attempts, deaths>>

\* await_readiness: an acknowledgement of a candidate that still runs, or the
\* end of the candidate, or thirty seconds.
AwaitReadiness(p) ==
    /\ proc[p].pc = "supervise"
    /\ \/ /\ Alive("candidate")
          /\ readiness = proc[p].op.pid
          /\ Goto(p, "commit")
          /\ Stays
       \/ /\ ~Alive("candidate") \/ readiness # proc[p].op.pid
          /\ UndoWatched(p)
    /\ UNCHANGED <<files, journal, readiness, attempts, faults, deaths>>

\* commit_candidate: the images once more, then two saves.
CheckCommit(p) ==
    /\ proc[p].pc = "commit"
    /\ \/ /\ files["canonical"] = "new" /\ files["backup"] = "old"
          /\ Goto(p, "ready") /\ Stays
          /\ UNCHANGED faults
       \/ /\ \/ (files["canonical"] # "new" \/ files["backup"] # "old") /\ UNCHANGED faults
             \/ Fault
          /\ UndoWatched(p)
    /\ UNCHANGED <<files, journal, readiness, attempts, deaths>>

SaveCandidateReady(p) ==
    /\ proc[p].pc = "ready"
    /\ \/ Saved(p, At(p, CandidateReady), "committed")
       \/ NotSaved(At(p, CandidateReady)) /\ UndoWatched(p)
    /\ UNCHANGED <<files, readiness, attempts, deaths>>

\* After the commit the watchdog ends.
SaveCommitted(p) ==
    /\ proc[p].pc = "committed"
    /\ \/ journal' = At(p, Committed) /\ Exit(p) /\ UNCHANGED faults
       \/ NotSaved(At(p, Committed)) /\ UndoWatched(p)
    /\ UNCHANGED <<files, readiness, attempts, deaths>>

\* restart_previous, after a rollback of the watchdog or of a candidate.
Respawn(p) ==
    /\ proc[p].pc = "respawn"
    /\ \/ \E q \in Started :
             /\ ~Alive(q) /\ files["canonical"] # "missing"
             /\ proc' = [proc EXCEPT ![p] = Nobody, ![q] = Born("canonical", 0, TRUE, "mutex")]
             /\ at' = [at EXCEPT ![p] = None, ![q] = "canonical"]
             /\ mutex' = IF mutex = p THEN None ELSE mutex
             /\ UNCHANGED faults
       \/ /\ \/ (\A q \in Started : Alive(q)) /\ UNCHANGED faults
             \/ Fault
          /\ Exit(p)
    /\ UNCHANGED <<files, journal, readiness, attempts, deaths>>

-----------------------------------------------------------------------------
\* Mutant of LookAtCanonical: without an executable there is nothing to undo.
LookForCanonical(p) ==
    /\ proc[p].pc = "undo"
    /\ CASE files["canonical"] = "old" -> Goto(p, "confirm") /\ Stays
         [] files["canonical"] = "missing" -> Fails(p)
         [] files["canonical"] = "new" -> Goto(p, "undo candidate") /\ Stays
    /\ UNCHANGED <<files, journal, readiness, attempts, faults, deaths>>

\* rollback_update begins with the canonical image.
LookAtCanonical(p) ==
    /\ proc[p].pc = "undo"
    /\ \E image \in Image \cup {"unknown"} :
          /\ Finds(image, "canonical")
          /\ CASE image = "old" -> Goto(p, "confirm") /\ Stays
               [] image = "missing" -> Goto(p, "undo missing") /\ Stays
               [] image = "new" -> Goto(p, "undo candidate") /\ Stays
               [] image = "unknown" -> Fails(p)
    /\ UNCHANGED <<files, journal, readiness, attempts, deaths>>

\* The backup must hold the verified image before anything is moved.
LookAtBackup(p) ==
    /\ proc[p].pc \in {"undo missing", "undo candidate"}
    /\ \E image \in Image \cup {"unknown"} :
          /\ Finds(image, "backup")
          /\ IF image # "old" THEN Fails(p)
             ELSE /\ Goto(p, IF proc[p].pc = "undo missing" THEN "restore" ELSE "vacate")
                  /\ Stays
    /\ UNCHANGED <<files, journal, readiness, attempts, deaths>>

\* The candidate's own name must be free to take it back.
VacateCandidate(p) ==
    /\ proc[p].pc = "vacate"
    /\ \/ files["candidate"] # "old" /\ Removed("candidate") /\ Goto(p, "return") /\ Stays
       \/ NotRemoved("candidate") /\ Fails(p)
       \/ files["candidate"] = "old" /\ Fails(p) /\ UNCHANGED <<files, faults>>
    /\ UNCHANGED <<journal, readiness, attempts, deaths>>

ReturnCandidate(p) ==
    /\ proc[p].pc = "return"
    /\ \/ Moved("canonical", "candidate") /\ Goto(p, "restore")
       \/ NotMoved("canonical", "candidate") /\ Fails(p)
    /\ UNCHANGED <<journal, readiness, attempts, deaths>>

RestoreBackup(p) ==
    /\ proc[p].pc = "restore"
    /\ \/ Moved("backup", "canonical") /\ Goto(p, "confirm")
       \/ NotMoved("backup", "canonical") /\ Fails(p)
    /\ UNCHANGED <<journal, readiness, attempts, deaths>>

ConfirmRestored(p) ==
    /\ proc[p].pc = "confirm"
    /\ \E image \in Image \cup {"unknown"} :
          /\ Finds(image, "canonical")
          /\ IF image = "old" THEN Goto(p, "drop candidate") /\ Stays ELSE Fails(p)
    /\ UNCHANGED <<files, journal, readiness, attempts, deaths>>

\* Both procedures end by removing what is left, the journal last.
Drop(p, pc, name, next) ==
    /\ proc[p].pc = pc
    /\ \/ Removed(name) /\ Goto(p, next) /\ Stays
       \/ NotRemoved(name) /\ Fails(p)
    /\ UNCHANGED <<journal, readiness, attempts, deaths>>

DropCandidate(p) == Drop(p, "drop candidate", "candidate", "drop backup")
DropBackup(p) == Drop(p, "drop backup", "backup", "drop readiness")

\* finish_committed: the backup goes first, as the update is final.
CleanBackup(p) == Drop(p, "clean backup", "backup", "clean candidate")
CleanCandidate(p) == Drop(p, "clean candidate", "candidate", "drop readiness")

DropReadiness(p) ==
    /\ proc[p].pc = "drop readiness"
    /\ \/ readiness' = 0 /\ Goto(p, "drop journal") /\ Stays /\ UNCHANGED faults
       \/ Fault /\ Fails(p) /\ UNCHANGED readiness
    /\ UNCHANGED <<files, journal, attempts, deaths>>

DropJournal(p) ==
    LET next == CASE proc[p].then \in {"startup", "cleanup", "handover"} -> "ui"
                  [] proc[p].then = "install" -> "write"
                  [] proc[p].then \in {"self", "watchdog"} -> "respawn"
    IN  /\ proc[p].pc = "drop journal"
        /\ \/ /\ journal' = None
              /\ Goto(p, next)
              /\ Stays
              /\ UNCHANGED faults
           \/ Fault /\ Fails(p) /\ UNCHANGED journal
        /\ UNCHANGED <<files, readiness, attempts, deaths>>

-----------------------------------------------------------------------------
\* A process dies, or all do when the machine stops.
Die(p) == /\ Alive(p)
          /\ deaths < MaxDeaths
          /\ deaths' = deaths + 1
          /\ Exit(p)
          /\ UNCHANGED <<files, journal, readiness, attempts, faults>>

PowerLoss == /\ deaths < MaxDeaths
             /\ deaths' = deaths + 1
             /\ proc' = [p \in Procs |-> Nobody]
             /\ at' = [p \in Procs |-> None]
             /\ mutex' = None
             /\ UNCHANGED <<files, journal, readiness, attempts, faults>>

Startup(p) == \/ EnterMutex(p) \/ PrepareStartup(p) \/ DecideStartup(p) \/ CheckIdentity(p)
              \/ Acknowledge(p) \/ AwaitCommit(p)

Installer(p) == \/ RecoverUpdate(p) \/ WriteCandidate(p) \/ SaveVerified(p) \/ MoveCurrentOut(p)
                \/ SaveCurrentMoved(p) \/ MoveCandidateIn(p) \/ SaveCandidateInstalled(p)
                \/ Inspect(p) \/ StartWatchdog(p) \/ QuitForUpdate(p)

Watchdog(p) == \/ CheckWatchdog(p) \/ ForgetReadiness(p) \/ SpawnCandidate(p)
               \/ SaveCandidatePid(p) \/ AwaitReadiness(p) \/ CheckCommit(p)
               \/ SaveCandidateReady(p) \/ SaveCommitted(p)

Rollback(p) == \/ LookAtCanonical(p) \/ LookAtBackup(p) \/ VacateCandidate(p)
               \/ ReturnCandidate(p) \/ RestoreBackup(p) \/ ConfirmRestored(p)
               \/ DropCandidate(p) \/ DropBackup(p) \/ CleanBackup(p) \/ CleanCandidate(p)
               \/ DropReadiness(p) \/ DropJournal(p) \/ Respawn(p)

Work(p) == Startup(p) \/ Installer(p) \/ Watchdog(p) \/ Rollback(p)

Next == \/ \E p \in Procs : Work(p) \/ Die(p)
        \/ \E p \in Started : Start(p) \/ Install(p) \/ Quit(p)
        \/ Quit("candidate")
        \/ PowerLoss

\* Processes go on, timeouts expire, and somebody who finds the program not
\* running starts it.
StartWhenGone == /\ \A p \in Procs : ~Alive(p)
                 /\ \E p \in Started : Start(p)

Fairness == /\ \A p \in Procs : WF_vars(Work(p))
            /\ WF_vars(StartWhenGone)

Spec == Init /\ [][Next]_vars /\ Fairness

-----------------------------------------------------------------------------
TypeOK == /\ files \in [Name -> Image]
          /\ journal \in UpdateOperation \cup {None}
          /\ readiness \in 0..MaxAttempts
          /\ proc \in [Procs -> Process]
          /\ at \in [Procs -> Name \cup {None}]
          /\ mutex \in Procs \cup {None}
          /\ attempts \in 0..MaxAttempts
          /\ faults \in 0..MaxFaults
          /\ deaths \in 0..MaxDeaths
==============================================================================
