----------------------------- MODULE PollSpacing -----------------------------
(***************************************************************************)
(* How requests of one session are spaced in time.  The history variable   *)
(* ended records, per provider, the last completion the slot accepted; it  *)
(* is forgotten when an invalidation, an account switch or a restart       *)
(* begins a new session, as the reducer then forgets its last attempt.     *)
(***************************************************************************)
EXTENDS PollPipeline

VARIABLE ended

\* rejected: the provider answered that the credentials are not valid.
Ending == [at: Nat, account: Account, source: Source, rejected: BOOLEAN]

\* The step is an accepted completion.  Only a rejected one leaves the slot
\* Unavailable with the error of the account it belonged to.
Rejects(p) == /\ slot[p].phase = "Fetching"
              /\ slot'[p].phase = "Unavailable"
              /\ slot'[p].error = slot[p].account

Ends(p) == \/ Rejects(p)
           \/ /\ slot[p].phase = "Fetching"
              /\ slot'[p].phase \in {"Ready", "Backoff", "Failed"}

EndingOf(p) == [at |-> now, account |-> slot[p].account,
                source |-> slot[p].source, rejected |-> Rejects(p)]

TimedInit == Init /\ ended = [p \in Provider |-> None]

TimedNext ==
  /\ Next
  /\ ended' = [p \in Provider |->
                 IF Ends(p) THEN EndingOf(p)
                 ELSE IF slot'[p].generation # slot[p].generation THEN None
                 ELSE ended[p]]

TimedSpec == TimedInit /\ [][TimedNext]_<<vars, ended>>

-----------------------------------------------------------------------------

\* The step repeats a request of the session recorded in ended.
Repeats(p) == /\ Starts(p)
              /\ ended[p] # None
              /\ ended[p].account = slot'[p].account
              /\ ended[p].source = slot'[p].source

\* Requests of one session keep the distance their trigger asks for, counted
\* from the completion, however long the preparations between them take
\* ("the interval is measured from completion", state.rs:504).  A rejected
\* request ends the session: see DebouncedRequests.
SpacedRequests ==
  [][\A p \in Provider :
       Repeats(p) /\ ~ended[p].rejected =>
         now - ended[p].at >= Spacing(slot[p].pending.trigger)]_<<vars, ended>>

\* No request for an account follows the completion of the previous one
\* within the debounce ("3 s debounce on refresh; UI-owned pending
\* preparation/request state dedupes worker spawns", ARCHITECTURE.md:138).
DebouncedRequests ==
  [][\A p \in Provider :
       Repeats(p) => now - ended[p].at >= Debounce]_<<vars, ended>>
=============================================================================
