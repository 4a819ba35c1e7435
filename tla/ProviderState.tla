---------------------------- MODULE ProviderState ----------------------------
(***************************************************************************)
(* The pure provider reducer of src/src/provider/state.rs.  Its state is a *)
(* record s; every reducer event is an operator that returns the next      *)
(* record.  The reducer's fields are a part of the record of a provider    *)
(* slot (module ProviderSlot), which embeds the reducer in app.rs.         *)
(*                                                                         *)
(* One clock tick stands for the 60 seconds of the shortest back-off.      *)
(* Phase payloads are the fields request (of Fetching) and until (of       *)
(* Backoff), 0 in the other phases.  The error a Failed or Backoff phase   *)
(* carries is not kept: the slot keeps its own copy of it.                 *)
(***************************************************************************)
EXTENDS Integers, Sequences

CONSTANTS
  Account,        \* opaque account keys (salted digests in the code)
  Source,         \* provenances a snapshot may come from
  None,           \* the absent value of every optional field
  Debounce,       \* spacing of manual refreshes, DEBOUNCE
  Interval,       \* spacing of the other refreshes, the poll interval
  MinRetryAfter,  \* 60 s: lower clamp of Retry-After and first fallback delay
  MaxRetryAfter,  \* 900 s: upper clamp, and the longest restorable deadline
  MaxFallback     \* 600 s: upper bound of the exponential fallback

ASSUME ProviderStateAssumption ==
  /\ Debounce \in Nat
  /\ Interval \in Nat
  /\ MinRetryAfter \in Nat \ {0}
  /\ MaxRetryAfter \in Nat
  /\ MaxFallback \in Nat
  /\ MinRetryAfter <= MaxFallback
  /\ MaxFallback <= MaxRetryAfter
  /\ None \notin Account
  /\ None \notin Nat
  /\ None \notin [account: Account, source: Source]

\* The flyout's trigger is gated exactly as the automatic one.
Trigger == {"Automatic", "Manual"}

Phase == {"Disabled", "Unavailable", "Idle", "Fetching", "Ready", "Backoff",
          "Failed"}

\* A snapshot is told apart by whose usage it is and which source read it.
Snapshot == [account: Account, source: Source]

\* The envelope that ties a worker's request to the state that granted it.
Ticket == [generation: Nat, request: Nat, account: Account]

Failure == {"RateLimited", "Authentication", "Transient"}

Result ==
  [kind: {"Success"}, snapshot: Snapshot, retryAfter: {None}]
  \cup [kind: Failure, snapshot: {None}, retryAfter: Nat \cup {None}]

-----------------------------------------------------------------------------
(* Scheduling decisions.                                                   *)

Cooling(s, now) == s.phase = "Backoff" /\ now < s.until

Spacing(trigger) == IF trigger = "Manual" THEN Debounce ELSE Interval

\* Mutant: the gate forgets that a request is in flight.
GateReadyWhileFetching(s, trigger, now) ==
  /\ ~Cooling(s, now)
  /\ s.lastAttempt # None => now - s.lastAttempt >= Spacing(trigger)

\* Mutant: the gate forgets the time of the last attempt.
GateReadyUnspaced(s, trigger, now) ==
  ~Cooling(s, now) /\ s.phase # "Fetching"

\* RefreshGate::Ready: neither cooling down, nor in flight, nor too early.
GateReady(s, trigger, now) ==
  /\ ~Cooling(s, now)
  /\ s.phase # "Fetching"
  /\ s.lastAttempt # None => now - s.lastAttempt >= Spacing(trigger)

Least(a, b) == IF a <= b THEN a ELSE b

Greatest(a, b) == IF a >= b THEN a ELSE b

\* The factor 2^min(streak - 1, 4) of the exponential fallback.
Doubling(streak) == <<1, 2, 4, 8, 16>>[Least(Greatest(streak, 1), 5)]

RateLimitDelay(retryAfter, streak) ==
  IF retryAfter # None
  THEN Greatest(MinRetryAfter, Least(retryAfter, MaxRetryAfter))
  ELSE Least(MinRetryAfter * Doubling(streak), MaxFallback)

-----------------------------------------------------------------------------
(* Reducer events.                                                         *)

\* Leave the current phase for one without payload.
Enter(s, phase) == [s EXCEPT !.phase = phase, !.request = 0, !.until = 0]

\* Mutant: the account is replaced within its generation.
ClearAccountInPlace(s) ==
  [s EXCEPT !.account = None, !.snapshot = None, !.cached = FALSE,
            !.lastAttempt = None, !.streak = 0]

\* Mutant: usage outlives the account it belongs to.
ClearAccountKeepsUsage(s) ==
  [s EXCEPT !.generation = @ + 1, !.account = None, !.lastAttempt = None,
            !.streak = 0]

ClearAccount(s) ==
  [s EXCEPT !.generation = @ + 1, !.account = None, !.snapshot = None,
            !.cached = FALSE, !.lastAttempt = None, !.streak = 0]

Enable(s, on) ==
  IF on <=> s.phase # "Disabled" THEN s
  ELSE Enter(ClearAccount(s), IF on THEN "Unavailable" ELSE "Disabled")

CredentialsChanged(s, account) ==
  IF s.phase = "Disabled" THEN s
  ELSE [Enter(ClearAccount(s), "Idle") EXCEPT !.account = account]

BecomeUnavailable(s) ==
  IF s.phase = "Disabled" THEN s ELSE Enter(ClearAccount(s), "Unavailable")

\* A late disk read never replaces a fetch or live data.
LoadCache(s, snapshot) ==
  IF s.phase = "Idle" /\ s.snapshot = None /\ s.account = snapshot.account
  THEN [s EXCEPT !.snapshot = snapshot, !.cached = TRUE]
  ELSE s

\* Mutant: a restart forgets the cool-down.
LoadRetryDeadlineForgets(s, deadline, now) == s

LoadRetryDeadline(s, deadline, now) ==
  IF /\ s.phase = "Idle"
     /\ s.account # None
     /\ deadline > now
     /\ deadline - now <= MaxRetryAfter
  THEN [Enter(s, "Backoff") EXCEPT !.until = deadline]
  ELSE s

FailPreparation(s, invalidates, now) ==
  IF s.phase \in {"Disabled", "Fetching"} THEN s
  ELSE IF invalidates
       THEN [Enter(ClearAccount(s), "Unavailable") EXCEPT !.lastAttempt = now]
       ELSE [Enter(s, "Failed") EXCEPT !.streak = 0, !.lastAttempt = now]

CanStart(s, trigger, now) ==
  /\ s.account # None
  /\ s.phase \notin {"Disabled", "Unavailable"}
  /\ GateReady(s, trigger, now)

StartFetch(s, now) ==
  [s EXCEPT !.phase = "Fetching", !.request = s.nextRequest, !.until = 0,
            !.nextRequest = @ + 1, !.lastAttempt = now]

TicketOf(s) ==
  [generation |-> s.generation, request |-> s.request, account |-> s.account]

\* Mutant: a fetching slot takes any completion.
LiveForAnyTicket(s, ticket) == s.phase = "Fetching"

\* Mutant: a completion is matched by its account alone.
LiveForAccount(s, ticket) ==
  s.phase = "Fetching" /\ s.account = ticket.account

\* The completion of this ticket would still be looked at.
Live(s, ticket) == s.phase = "Fetching" /\ TicketOf(s) = ticket

Accepts(s, ticket, result) ==
  /\ Live(s, ticket)
  /\ result.kind = "Success" => result.snapshot.account = s.account

Complete(s, ticket, result, now) ==
  LET t == [s EXCEPT !.lastAttempt = now]
  IN  CASE ~Accepts(s, ticket, result) -> s
        [] Accepts(s, ticket, result) /\ result.kind = "Success" ->
             [Enter(t, "Ready") EXCEPT !.snapshot = result.snapshot,
                                       !.cached = FALSE, !.streak = 0]
        [] Accepts(s, ticket, result) /\ result.kind = "Authentication" ->
             Enter(ClearAccount(t), "Unavailable")
        [] Accepts(s, ticket, result) /\ result.kind = "RateLimited" ->
             [Enter(t, "Backoff") EXCEPT
                !.streak = @ + 1,
                !.until = now + RateLimitDelay(result.retryAfter, s.streak + 1)]
        [] Accepts(s, ticket, result) /\ result.kind = "Transient" ->
             [Enter(t, "Failed") EXCEPT !.streak = 0]

\* CooldownExpired is not modelled: the shell never sends it, because the
\* gate lets a refresh through as soon as the deadline has passed.
=============================================================================
