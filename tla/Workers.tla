-------------------------------- MODULE Workers --------------------------------
(***************************************************************************)
(* Time and the three kinds of threads: the workers of the poll pipeline,   *)
(* on a clock, which must not ask too early; a reading of the Codex app     *)
(* server, which such a worker may perform, and an interactive sign-in,     *)
(* which holds the broker, which must not last for ever.  They share no     *)
(* state; `kind` chooses the one a behaviour is about.                      *)
(***************************************************************************)
EXTENDS MCPollSpacing

CONSTANTS Client, MaxRuns, MaxFrames     \* CodexSession
CONSTANTS MaxClicks, MaxStamp            \* SignIn

VARIABLE kind

VARIABLES profiles, session

VARIABLES connection, busy, cancel, authWorker, card, stamp, signed, cli, messages, clicks,
          asked, cancelled, called

readingVars == <<profiles, session>>
Reading == INSTANCE CodexSession

authVars == <<connection, busy, cancel, authWorker, card, stamp, signed, cli, messages,
              clicks, asked, cancelled, called>>
Auth == INSTANCE SignIn WITH worker <- authWorker

WorkersInit ==
  /\ kind \in {"poll", "reading", "sign_in"}
  /\ TimedInit
  /\ Reading!Init
  /\ Auth!Init
  /\ kind # "sign_in" => signed

InPoll == kind = "poll" /\ UNCHANGED <<kind, readingVars, authVars>>

InReading == kind = "reading" /\ UNCHANGED <<kind, vars, ended, authVars>>

InAuth == kind = "sign_in" /\ UNCHANGED <<kind, vars, ended, readingVars>>

WorkersNext ==
  \/ InPoll /\ TimedNext
  \/ InReading /\ Reading!Next
  \/ InAuth /\ Auth!Next

workersVars == <<kind, vars, ended, readingVars, authVars>>

\* Threads run, the deadline of a reading passes, the window thread finishes the
\* click it is in.  Nothing is assumed of the user, of the CLI and of what the app
\* server sends.
WorkersFairness ==
  /\ \A c \in Client : /\ WF_readingVars(InReading /\ Reading!Work(c))
                       /\ WF_readingVars(InReading /\ Reading!Expire(c))
  /\ WF_authVars(InAuth /\ Auth!Work)
  /\ WF_authVars(InAuth /\ Auth!CancelInteractive)

WorkersSpec == WorkersInit /\ [][WorkersNext]_workersVars /\ WorkersFairness

-----------------------------------------------------------------------------
\* A reading of the app server ends, whatever the server does: its deadline is
\* looked at in every wait (codex_server.rs, DEADLINE).
ReadingEnds == Reading!ReadingEnds

\* A sign-in that the user asks to end while it holds the broker does end
\* (auth.rs, cancel_interactive and the loop of login).
AskingEndsIt == Auth!AskingEndsIt
================================================================================
