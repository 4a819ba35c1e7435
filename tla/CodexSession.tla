------------------------------ MODULE CodexSession ------------------------------
(***************************************************************************)
(* One quota reading through the Codex app server (codex_server.rs): a     *)
(* scratch profile with a lock file, a process in a job that dies with its *)
(* owner, three calls over private pipes under one deadline and one frame  *)
(* limit each, then the end of the process and of the profile.  Another    *)
(* process of the program may do the same at the same time, and sweeps     *)
(* the profiles that crashed ones left behind, file by file.  Any file     *)
(* operation may fail; the server answers what it likes, or nothing.       *)
(***************************************************************************)
EXTENDS Naturals

CONSTANTS Client,      \* the processes that read quotas: the program, --measure
          MaxRuns,     \* bound: readings of each
          MaxFrames    \* MAX_FRAMES

VARIABLES profiles,  \* what there is of every scratch directory
          session    \* every client's reading

vars == <<profiles, session>>

\* Directories have random names: every reading has its own.
Dir == Client \X (1..MaxRuns)

\* owner.lock and model-catalog.json; "open": owner.lock is, for its owner alone.
Entry == {"lock", "catalogue"}

Content == Entry \cup {"dir", "open"}

Calls == 1..3   \* initialize, account/login/start, account/rateLimits/read

Failure == {"Transient", "UnexpectedResponse", "Authentication", "Timeout"}

Pc == {"idle", "sweep", "create", "lock", "catalogue", "spawn", "send", "receive", "stop",
       "release", "list", "clear"}

\* target: whose profile is removed, <<>> for the client's own; late: the
\* deadline has passed.
TypeOK == /\ profiles \in [Dir -> SUBSET Content]
          /\ session \in [Client -> [pc : Pc, run : 0..MaxRuns, todo : SUBSET Dir,
                                     target : Dir \cup {<<>>}, entries : SUBSET Entry,
                                     call : Calls, frames : 0..MaxFrames, late : BOOLEAN,
                                     running : BOOLEAN,
                                     result : {"none", "Ok"} \cup Failure]]

Init == /\ profiles = [d \in Dir |-> {}]
        /\ session = [c \in Client |-> [pc |-> "idle", run |-> 0, todo |-> {}, target |-> <<>>,
                         entries |-> {}, call |-> 1, frames |-> 0, late |-> FALSE,
                         running |-> FALSE, result |-> "none"]]

Own(c) == <<c, session[c].run>>

Goto(c, pc) == session' = [session EXCEPT ![c].pc = pc]

\* An error before the profile exists ends the reading; later ones tidy up.
FailsEarly(c) == session' = [session EXCEPT ![c].pc = "idle", ![c].todo = {}, ![c].target = <<>>,
                                            ![c].entries = {}, ![c].result = "Transient"]

\* The calls are over, one way or the other.
Ends(c, result) == session' = [session EXCEPT ![c].pc = "stop", ![c].call = 1, ![c].frames = 0,
                                              ![c].late = FALSE, ![c].result = result]

-----------------------------------------------------------------------------
\* fetch_at begins with Scratch::new, which looks at every profile there is.
Fetch(c) ==
    /\ session[c].pc = "idle" /\ session[c].run < MaxRuns
    /\ session' = [session EXCEPT ![c].pc = "sweep", ![c].run = @ + 1, ![c].result = "none",
                                  ![c].todo = {d \in Dir : profiles[d] # {}}]
    /\ UNCHANGED profiles

\* A profile whose lock file is open is in use, one without a lock file or with
\* one that opens is not; any look may fail, and does at one that vanished.
Sweep(c) ==
    /\ session[c].pc = "sweep"
    /\ \/ /\ session[c].todo = {}
          /\ session' = [session EXCEPT ![c].pc = "create", ![c].target = <<>>]
       \/ \E d \in session[c].todo :
             /\ "open" \in profiles[d]
             /\ session' = [session EXCEPT ![c].todo = @ \ {d}]
       \/ \E d \in session[c].todo :
             /\ "open" \notin profiles[d] /\ profiles[d] # {}
             /\ session' = [session EXCEPT ![c].pc = "list", ![c].todo = @ \ {d}, ![c].target = d]
       \/ FailsEarly(c)
    /\ UNCHANGED profiles

\* The profile that remove_owned removes: one that is swept, or the client's own.
Target(c) == IF session[c].target = <<>> THEN Own(c) ELSE session[c].target

Removed(c) == Goto(c, IF session[c].target = <<>> THEN "idle" ELSE "sweep")

\* It did not: the sweep is an error, a reading that had succeeded one as well.
NotRemoved(c) ==
    IF session[c].target # <<>> THEN FailsEarly(c)
    ELSE session' = [session EXCEPT ![c].pc = "idle", ![c].entries = {},
                                    ![c].result = IF @ = "Ok" THEN "Transient" ELSE @]

\* remove_owned lists the directory as it is now, which may no longer be what the
\* sweep looked at, ...
ListOwned(c) ==
    /\ session[c].pc = "list"
    /\ \/ profiles[Target(c)] = {} /\ Removed(c)
       \/ /\ profiles[Target(c)] # {}
          /\ session' = [session EXCEPT ![c].pc = "clear",
                                        ![c].entries = profiles[Target(c)] \cap Entry]
       \/ NotRemoved(c)
    /\ UNCHANGED profiles

\* Mutant of RemoveEntry: a lock file that is open can be deleted.
RemoveAnyEntry(c) ==
    /\ session[c].pc = "clear"
    /\ \E e \in session[c].entries :
          /\ profiles' = [profiles EXCEPT ![Target(c)] = @ \ {e, "open"}]
          /\ session' = [session EXCEPT ![c].entries = @ \ {e}]

\* ... deletes one entry after the other, until one cannot be: a lock file that
\* is open, although other entries may be gone by then, ...
RemoveEntry(c) ==
    /\ session[c].pc = "clear"
    /\ \E e \in session[c].entries :
          \/ /\ e = "lock" => "open" \notin profiles[Target(c)]
             /\ profiles' = [profiles EXCEPT ![Target(c)] = @ \ {e}]
             /\ session' = [session EXCEPT ![c].entries = @ \ {e}]
          \/ NotRemoved(c) /\ UNCHANGED profiles

\* ... and then the directory, if nothing came into it meanwhile.
RemoveEmpty(c) ==
    /\ session[c].pc = "clear" /\ session[c].entries = {}
    /\ \/ /\ profiles[Target(c)] = {"dir"}
          /\ profiles' = [profiles EXCEPT ![Target(c)] = {}]
          /\ Removed(c)
       \/ NotRemoved(c) /\ UNCHANGED profiles

\* The profile is created, locked, and given its model catalogue.
CreateDir(c) ==
    /\ session[c].pc = "create"
    /\ \/ profiles' = [profiles EXCEPT ![Own(c)] = {"dir"}] /\ Goto(c, "lock")
       \/ FailsEarly(c) /\ UNCHANGED profiles

\* From here an error drops the Scratch, which removes it.
CreateLock(c) ==
    /\ session[c].pc = "lock"
    /\ \/ /\ profiles[Own(c)] # {}
          /\ profiles' = [profiles EXCEPT ![Own(c)] = @ \cup {"lock", "open"}]
          /\ Goto(c, "catalogue")
       \/ /\ session' = [session EXCEPT ![c].pc = "list", ![c].result = "Transient"]
          /\ UNCHANGED profiles

WriteCatalogue(c) ==
    /\ session[c].pc = "catalogue"
    /\ \/ /\ profiles' = [profiles EXCEPT ![Own(c)] = @ \cup {"catalogue"}]
          /\ Goto(c, "spawn")
       \/ /\ session' = [session EXCEPT ![c].pc = "release", ![c].result = "Transient"]
          /\ profiles' \in {profiles, [profiles EXCEPT ![Own(c)] = @ \cup {"catalogue"}]}

\* Process::spawn: a job that kills on close, two pipes, and an environment
\* with nothing of the user's; any step of it may fail.
Spawn(c) ==
    /\ session[c].pc = "spawn"
    /\ \/ session' = [session EXCEPT ![c].pc = "send", ![c].running = TRUE]
       \/ session' = [session EXCEPT ![c].pc = "release", ![c].result = "Transient"]
    /\ UNCHANGED profiles

-----------------------------------------------------------------------------
\* rpc and external_login: a request that does not fit or cannot be written ends it.
Send(c) ==
    /\ session[c].pc = "send"
    /\ \/ Goto(c, "receive")
       \/ Ends(c, "Transient")
       \/ Ends(c, "UnexpectedResponse")
    /\ UNCHANGED profiles

Message == [kind : {"result", "error", "request", "refresh", "notification", "malformed"}, id : 0..3]

\* response: what a complete frame means to the call that waits for `id`.
Response(id, message) ==
    CASE message.kind = "refresh" -> "Authentication"
      [] message.kind = "notification" -> "none"
      [] message.kind = "result" /\ message.id = id -> "Ok"
      [] OTHER -> "UnexpectedResponse"

\* receive_response, frame by frame; the answer to the login must be of its type.
Receive(c) ==
    /\ session[c].pc = "receive"
    /\ \E message \in Message, fits \in BOOLEAN :
          LET call == session[c].call
              says == Response(call, message)
          IN  CASE says = "none" ->
                     IF session[c].frames + 1 < MaxFrames
                     THEN session' = [session EXCEPT ![c].frames = @ + 1]
                     ELSE Ends(c, "UnexpectedResponse")
                [] says = "Ok" /\ call = 1 ->
                     session' = [session EXCEPT ![c].call = 2, ![c].frames = 0, ![c].pc = "send"]
                [] says = "Ok" /\ call = 2 /\ fits ->
                     session' = [session EXCEPT ![c].call = 3, ![c].frames = 0, ![c].pc = "send"]
                [] says = "Ok" /\ call = 3 /\ fits -> Ends(c, "Ok")
                [] says = "Ok" -> \/ Ends(c, "UnexpectedResponse")
                                  \/ call = 3 /\ Ends(c, "Authentication")
                [] OTHER -> Ends(c, says)
    /\ UNCHANGED profiles

\* Process::read without a complete frame: the end of the pipe, or more bytes
\* than the limit, ...
PipeEnds(c) ==
    /\ session[c].pc = "receive"
    /\ Ends(c, "UnexpectedResponse")
    /\ UNCHANGED profiles

\* Mutant of TimesOut: only a server that has not sent anything is timed out.
TimesOutInSilence(c) ==
    /\ session[c].pc = "receive" /\ session[c].late /\ session[c].frames = 0
    /\ Ends(c, "Timeout")
    /\ UNCHANGED profiles

\* ... or the deadline, which is looked at when no complete frame is buffered.
TimesOut(c) ==
    /\ session[c].pc = "receive" /\ session[c].late
    /\ Ends(c, "Timeout")
    /\ UNCHANGED profiles

\* Ten seconds have passed since the calls began.
Expire(c) ==
    /\ session[c].pc \in {"send", "receive"} /\ ~session[c].late
    /\ session' = [session EXCEPT ![c].late = TRUE]
    /\ UNCHANGED profiles

-----------------------------------------------------------------------------
\* stop: the whole tree must be gone; an error replaces the result.  The job
\* handle is closed in any case, and the process with it.
Stop(c) ==
    /\ session[c].pc = "stop"
    /\ \E result \in {session[c].result, "Transient"} :
          session' = [session EXCEPT ![c].pc = "release", ![c].running = FALSE,
                                  ![c].result = result]
    /\ UNCHANGED profiles

\* Scratch::cleanup lets the lock go, and removes the profile like any other's.
Release(c) ==
    /\ session[c].pc = "release"
    /\ profiles' = [profiles EXCEPT ![Own(c)] = @ \ {"open"}]
    /\ Goto(c, "list")

\* The process of a client dies: its job and its handles go with it.
Crash(c) ==
    /\ session[c].pc # "idle"
    /\ session' = [session EXCEPT ![c].pc = "idle", ![c].running = FALSE, ![c].result = "none",
                                  ![c].todo = {}, ![c].target = <<>>, ![c].entries = {},
                                  ![c].call = 1, ![c].frames = 0, ![c].late = FALSE]
    /\ profiles' = [profiles EXCEPT ![Own(c)] = @ \ {"open"}]

\* What a client does of its own accord, once it has begun.
Work(c) == \/ Sweep(c) \/ ListOwned(c) \/ RemoveEntry(c) \/ RemoveEmpty(c)
           \/ CreateDir(c) \/ CreateLock(c) \/ WriteCatalogue(c) \/ Spawn(c)
           \/ Send(c) \/ TimesOut(c) \/ Stop(c) \/ Release(c)

\* What it meets: a request for a reading, the server's frames, time, its death.
Meet(c) == Fetch(c) \/ Receive(c) \/ PipeEnds(c) \/ Expire(c) \/ Crash(c)

Next == \E c \in Client : Work(c) \/ Meet(c)

Spec == Init /\ [][Next]_vars

-----------------------------------------------------------------------------
\* The directory of a running server, and its owner's lock on it, are never swept
\* away, although the sweep of another process may look at it, list it and delete
\* from it at every moment of its life.
LockIsKept ==
    \A c \in Client : session[c].running => {"dir", "lock", "open"} \subseteq profiles[Own(c)]

\* A reading succeeds only when nothing of it is left: no process, no profile.
NothingLeft ==
    \A c \in Client : session[c].pc = "idle" /\ session[c].result = "Ok"
        => ~session[c].running /\ profiles[Own(c)] = {}

\* Every reading ends, whatever the server sends and even if it sends nothing.
ReadingEnds == \A c \in Client : session[c].pc # "idle" ~> session[c].pc = "idle"
==============================================================================
