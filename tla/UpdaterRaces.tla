------------------------------ MODULE UpdaterRaces ------------------------------
(***************************************************************************)
(* What the hand-over of Updater promises.  rollback_update takes no lock, *)
(* and a watchdog does not hold the mutex of the single instance: it may   *)
(* roll back while a program somebody started rolls back or cleans up.     *)
(* `overlapped' remembers whether two processes ever did; it is history,   *)
(* no step of the hand-over depends on it.                                 *)
(***************************************************************************)
EXTENDS Updater

VARIABLE overlapped  \* two processes were moving files of the update at once

\* From the first look at the canonical image to the last rename, or to the
\* removal of the backup after a commit.
Moving == {"undo missing", "undo candidate", "vacate", "return", "restore", "clean backup"}

OneMoves == \A p, q \in Procs : proc[p].pc \in Moving /\ proc[q].pc \in Moving => p = q

RacedInit == Init /\ overlapped = FALSE

RacedNext == Next /\ overlapped' = (overlapped \/ ~OneMoves')

RacedSpec == RacedInit /\ [][RacedNext]_<<vars, overlapped>> /\ Fairness

-----------------------------------------------------------------------------
\* What a start of the program needs is always there ("Journal restores the
\* retained last-known-good executable", docs/adr/0001): without a journal the
\* executable itself; before the commit the old one, under its name or as the
\* backup; after it the new one, unless the commit is being undone.
KnownGood ==
    /\ journal = None => files["canonical"] # "missing"
    /\ (journal # None /\ journal.phase # Committed)
           => "old" \in {files["canonical"], files["backup"]}
    /\ (journal # None /\ journal.phase = Committed)
           => files["canonical"] = "new" \/ "old" \in {files["canonical"], files["backup"]}

\* ... as long as no two rollbacks have met (rollback_update, updater.rs:865).
KnownGoodUnlessRaced == overlapped \/ KnownGood

\* Two that move files at once are the watchdog, which takes no mutex, and one
\* process that holds it (main.rs:229): every other pair is kept apart.
RacesNeedWatchdog ==
    \A p, q \in Procs :
       p # q /\ proc[p].pc \in Moving /\ proc[q].pc \in Moving => "watchdog" \in {p, q}

\* The new version serves the user only once its commit is durable
\* (complete_startup, updater.rs:1284), unless rollbacks have met.
ServesOnlyCommitted ==
    [][\A p \in Procs :
          ( /\ ~overlapped
            /\ proc[p].pc \notin {"ui", "recover", "quit"} /\ proc'[p].pc = "ui"
            /\ files[at[p]] = "new" )
          => \/ journal' = None /\ files["canonical"] = "new"
             \/ journal # None /\ journal.phase = Committed]_<<vars, overlapped>>

\* However a hand-over is interrupted, the program runs again in the end,
\* unless rollbacks have met.
RunsAgain == []<>(overlapped \/ \E p \in Procs : proc[p].pc = "ui")
==============================================================================
