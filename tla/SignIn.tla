--------------------------------- MODULE SignIn ---------------------------------
(***************************************************************************)
(* The Claude account broker of auth.rs and the account card of main.rs.   *)
(* A sign-in runs on a thread that starts the Claude CLI in a console and  *)
(* polls its end, the credentials file, the cancel flag and a deadline, in *)
(* the order of the code; the window thread reads a snapshot and acts on   *)
(* it later.  The CLI, the user at its console and the clock are external. *)
(***************************************************************************)
EXTENDS Naturals, Sequences

CONSTANTS None, MaxClicks, \* bound: how often the user works the account card
          MaxStamp         \* bound: how often the credentials file is written

VARIABLES connection,  \* CONNECTION: what the card says, or None
          busy,        \* INTERACTIVE_BUSY
          cancel,      \* CANCEL_LOGIN
          worker,      \* the thread of spawn_claude_account
          card,        \* what the window thread is doing
          stamp,       \* how often the credentials file was written
          signed,      \* whether it is there
          cli,         \* the console: "none", "runs", "done" or "failed"
          messages,    \* WM_AUTH_READY messages under way, with their login flag
          clicks,
          asked, cancelled,  \* history: cancels asked for, sign-ins that one ended
          called             \* history: the user asked to end the sign-in under way

vars == <<connection, busy, cancel, worker, card, stamp, signed, cli, messages,
          clicks, asked, cancelled, called>>

Connection == {"Connected", "Disconnected", "CliUnavailable", "Problem"}

Thread == [pc : {"none", "start", "stamp", "cancel", "wait", "finish", "clear", "free"},
           login : BOOLEAN, before : 0..MaxStamp, result : Connection \cup {None}]

NoWorker == [pc |-> "none", login |-> FALSE, before |-> 0, result |-> None]

TypeOK == /\ connection \in Connection \cup {None}
          /\ busy \in BOOLEAN /\ cancel \in BOOLEAN
          /\ worker \in Thread
          /\ card \in {"idle", "cancel"}
          /\ stamp \in 0..MaxStamp /\ signed \in BOOLEAN
          /\ cli \in {"none", "runs", "done", "failed"}
          /\ messages \in Seq(BOOLEAN)
          /\ clicks \in 0..MaxClicks /\ asked \in 0..clicks /\ cancelled \in Nat
          /\ called \in BOOLEAN

Init == /\ connection = None
        /\ busy = FALSE
        /\ cancel = FALSE
        /\ worker = NoWorker
        /\ card = "idle"
        /\ stamp = 1 /\ signed \in BOOLEAN
        /\ cli = "none"
        /\ messages = <<>>
        /\ clicks = 0
        /\ asked = 0
        /\ cancelled = 0
        /\ called = FALSE

\* query_status: signed in when the credentials file can be read.
QueryStatus == IF signed THEN "Connected" ELSE "Disconnected"

\* credentials_stamp: none without a file.
CredentialsStamp == IF signed THEN stamp ELSE 0

-----------------------------------------------------------------------------
\* spawn_claude_account: begin_interactive lets one thread in at a time.
Spawn(login) ==
    /\ ~busy
    /\ busy' = TRUE
    /\ worker' = [NoWorker EXCEPT !.pc = "start", !.login = login]
    /\ called' = FALSE

\* open_settings asks for the status the first time.
OpenSettings ==
    /\ card = "idle" /\ clicks < MaxClicks
    /\ connection = None
    /\ clicks' = clicks + 1
    /\ Spawn(FALSE)
    /\ UNCHANGED <<connection, cancel, card, stamp, signed, cli, messages, asked, cancelled>>

\* activate_claude_account decides by a snapshot: cancel, or sign in.
ClickCard ==
    /\ card = "idle" /\ clicks < MaxClicks
    /\ clicks' = clicks + 1
    /\ IF busy
       THEN card' = "cancel" /\ called' = TRUE /\ UNCHANGED <<busy, worker>>
       ELSE /\ connection # "CliUnavailable"
            /\ Spawn(connection # None)
            /\ UNCHANGED card
    /\ UNCHANGED <<connection, cancel, stamp, signed, cli, messages, asked, cancelled>>

\* cancel_interactive, after the snapshot: the sign-in may have ended meanwhile.
CancelInteractive ==
    /\ card = "cancel"
    /\ card' = "idle"
    /\ cancel' = TRUE
    /\ asked' = asked + 1
    /\ UNCHANGED <<connection, busy, worker, stamp, signed, cli, messages, clicks, cancelled, called>>

\* WM_AUTH_READY; its effects on the providers are in PollPipeline.
AuthReady == /\ messages # <<>>
             /\ messages' = Tail(messages)
             /\ UNCHANGED <<connection, busy, cancel, worker, card, stamp, signed, cli, clicks, asked, cancelled, called>>

-----------------------------------------------------------------------------
Ends(result) == worker' = [worker EXCEPT !.pc = "finish", !.result = result]

Goto(pc) == worker' = [worker EXCEPT !.pc = pc]

\* A status query, or the start of the CLI, which may not be installed.
Begin ==
    /\ worker.pc = "start"
    /\ \/ /\ ~worker.login
          /\ Ends(QueryStatus)
          /\ UNCHANGED cli
       \/ /\ worker.login
          /\ Ends("CliUnavailable")
          /\ UNCHANGED cli
       \/ /\ worker.login
          /\ worker' = [worker EXCEPT !.pc = "stamp", !.before = CredentialsStamp]
          /\ cli' = "runs"
    /\ UNCHANGED <<connection, busy, cancel, card, stamp, signed, messages, clicks, asked, cancelled, called>>

\* Mutant of LookAtStamp: the loop does not look at the cancel flag.
LookAtNoCancel ==
    /\ worker.pc = "stamp"
    /\ IF CredentialsStamp \notin {0, worker.before} THEN Ends("Connected") ELSE Goto("wait")
    /\ UNCHANGED <<connection, busy, cancel, card, stamp, signed, cli, messages, clicks, asked, cancelled, called>>

\* The loop of login: the credentials first, then the cancel flag, then the CLI
\* and the deadline.
LookAtStamp ==
    /\ worker.pc = "stamp"
    /\ IF CredentialsStamp \notin {0, worker.before} THEN Ends("Connected") ELSE Goto("cancel")
    /\ UNCHANGED <<connection, busy, cancel, card, stamp, signed, cli, messages, clicks, asked, cancelled, called>>

LookAtCancel ==
    /\ worker.pc = "cancel"
    /\ IF cancel
       THEN Ends(QueryStatus) /\ cli' = "none" /\ cancelled' = cancelled + 1
       ELSE Goto("wait") /\ UNCHANGED <<cli, cancelled>>
    /\ UNCHANGED <<connection, busy, cancel, card, stamp, signed, messages, clicks, asked, called>>

LookAtCli ==
    /\ worker.pc = "wait"
    /\ CASE cli = "done" -> Ends(QueryStatus) /\ UNCHANGED cli
         [] cli = "failed" -> Ends("Problem") /\ UNCHANGED cli
         [] OTHER -> \/ Goto("stamp") /\ UNCHANGED cli
                     \/ Ends("Problem") /\ cli' = "none"
    /\ UNCHANGED <<connection, busy, cancel, card, stamp, signed, messages, clicks, asked, cancelled, called>>

\* finish_interactive: the result, the cancel flag, the reservation; then the
\* message, which travels on its own.
StoreConnection ==
    /\ worker.pc = "finish"
    /\ connection' = worker.result
    /\ Goto("clear")
    /\ UNCHANGED <<busy, cancel, card, stamp, signed, cli, messages, clicks, asked, cancelled, called>>

ClearCancel ==
    /\ worker.pc = "clear"
    /\ cancel' = FALSE
    /\ Goto("free")
    /\ UNCHANGED <<connection, busy, card, stamp, signed, cli, messages, clicks, asked, cancelled, called>>

FreeBroker ==
    /\ worker.pc = "free"
    /\ busy' = FALSE
    /\ worker' = NoWorker
    /\ messages' = Append(messages, worker.login)
    /\ UNCHANGED <<connection, cancel, card, stamp, signed, cli, clicks, asked, cancelled, called>>

\* The CLI writes the credentials, at its end or at any other time (it renews
\* them by itself), and ends; the user may sign out.
Cli ==
    /\ \/ stamp < MaxStamp /\ stamp' = stamp + 1 /\ signed' = TRUE /\ UNCHANGED cli
       \/ signed /\ signed' = FALSE /\ UNCHANGED <<stamp, cli>>
       \/ cli = "runs" /\ cli' \in {"done", "failed"} /\ UNCHANGED <<stamp, signed>>
    /\ UNCHANGED <<connection, busy, cancel, worker, card, messages, clicks, asked, cancelled, called>>

Work == \/ Begin \/ LookAtStamp \/ LookAtCancel \/ LookAtCli
        \/ StoreConnection \/ ClearCancel \/ FreeBroker

Next == \/ OpenSettings \/ ClickCard \/ CancelInteractive \/ AuthReady
        \/ Work \/ Cli

Spec == Init /\ [][Next]_vars

-----------------------------------------------------------------------------
\* The flag outlives the moment it is set in: a cancel that comes too late ends
\* the sign-in after the one it was meant for.  Whichever it ends, one cancel
\* never ends two, and a sign-in nobody cancelled before is never cut short.
OneCancelEach == cancelled <= asked

\* "Asking again while it runs abandons it instead of being ignored" (auth.rs,
\* line 64): not ignored, neither by a loop that waits for a console nor by a
\* sign-in that is about to end anyway.
AskingEndsIt == (called /\ busy) ~> ~busy
==============================================================================
