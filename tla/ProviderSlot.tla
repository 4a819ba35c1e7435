----------------------------- MODULE ProviderSlot -----------------------------
(***************************************************************************)
(* A provider slot of src/src/app.rs: the reducer, the preparation the UI  *)
(* thread is waiting for, and the error on display.  Slots live on the UI  *)
(* thread; the operators below are its methods.  The diagnostic fields     *)
(* (detected, attempt and success times, fallback reason) are left out.    *)
(***************************************************************************)
EXTENDS ProviderState

\* What the slot remembers of a worker it has started.
Preparation == [generation: Nat, operation: Nat, trigger: Trigger]

ASSUME ProviderSlotAssumption ==
  /\ None \notin Preparation
  /\ None \notin Ticket

\* The error on display belongs to the account whose request failed, or is
\* "Local" when the credentials could not be prepared.
ErrorOwner == Account \cup {None, "Local"}

Slot ==
  [phase: Phase, request: Nat, until: Nat, account: Account \cup {None},
   generation: Nat, nextRequest: Nat, snapshot: Snapshot \cup {None},
   cached: BOOLEAN, lastAttempt: Nat \cup {None}, streak: Nat,
   pending: Preparation \cup {None}, nextOperation: Nat, source: Source,
   error: ErrorOwner]

NewSlot(source) ==
  [phase |-> "Unavailable", request |-> 0, until |-> 0, account |-> None,
   generation |-> 0, nextRequest |-> 1, snapshot |-> None, cached |-> FALSE,
   lastAttempt |-> None, streak |-> 0, pending |-> None, nextOperation |-> 1,
   source |-> source, error |-> None]

\* What a restart may read back for an account: see runtime_state.rs.
Restored == [snapshot: Snapshot \cup {None}, retryAt: Nat \cup {None}]

-----------------------------------------------------------------------------

\* Mutant: the preparation under way is not forgotten.
InvalidateKeepsPending(s, disabled) ==
  LET t == [s EXCEPT !.error = None]
  IN  IF disabled THEN Enable(t, FALSE) ELSE BecomeUnavailable(t)

Invalidate(s, disabled) ==
  LET t == [s EXCEPT !.pending = None, !.error = None]
  IN  IF disabled THEN Enable(t, FALSE) ELSE BecomeUnavailable(t)

CanReserve(s, trigger, now) ==
  /\ s.phase # "Disabled"
  /\ s.pending = None
  /\ GateReady(s, trigger, now)

NextPreparation(s, trigger) ==
  [generation |-> s.generation, operation |-> s.nextOperation,
   trigger |-> trigger]

Reserve(s, trigger) ==
  [s EXCEPT !.pending = NextPreparation(s, trigger), !.nextOperation = @ + 1]

\* Mutant: any worker's preparation is taken while one is pending.
MatchesAnyWorker(s, prep) == s.pending # None

\* The preparation is the pending one and nothing was invalidated since.
Matches(s, prep) ==
  /\ s.pending # None
  /\ s.pending.operation = prep.operation
  /\ s.pending.generation = prep.generation
  /\ prep.generation = s.generation

\* Mutant: a change of source keeps what was read from the old one.
SelectSourceInPlace(s, source) == [s EXCEPT !.source = source]

\* prepared_selection up to the call of prepared: a change of source drops
\* everything read from the old one and re-binds the pending preparation.
SelectSource(s, source) ==
  LET t == BecomeUnavailable(s)
      u == [t EXCEPT !.pending = [@ EXCEPT !.generation = t.generation],
                     !.error = None]
  IN  [(IF s.source = source THEN s ELSE u) EXCEPT !.source = source]

\* The account part of prepared_with_cache: adopt a new account together
\* with what the runtime cache restores for it.
AdoptAccount(s, account, restored, now) ==
  LET t == [s EXCEPT !.pending = None]
      u == CredentialsChanged([t EXCEPT !.error = None], account)
      v == IF restored.snapshot = None THEN u
           ELSE LoadCache(u, restored.snapshot)
      w == IF restored.retryAt = None THEN v
           ELSE LoadRetryDeadline(v, restored.retryAt, now)
  IN  IF s.account = account THEN t ELSE w

\* prepared_selection: the slot after a matching Prepared event, together
\* with the ticket of the request it started, if it started one.
Prepared(s, prep, account, source, restored, now) ==
  LET t == AdoptAccount(SelectSource(s, source), account, restored, now)
      u == StartFetch(t, now)
  IN  IF CanStart(t, prep.trigger, now)
      THEN [slot |-> u, ticket |-> TicketOf(u)]
      ELSE [slot |-> t, ticket |-> None]

PreparationFailed(s, invalidates, now) ==
  FailPreparation([s EXCEPT !.pending = None, !.error = "Local"],
                  invalidates, now)

\* complete: an accepted completion also replaces the error on display.
Completed(s, ticket, result, now) ==
  IF Accepts(s, ticket, result)
  THEN [Complete(s, ticket, result, now) EXCEPT
          !.error = IF result.kind = "Success" THEN None ELSE ticket.account]
  ELSE s

-----------------------------------------------------------------------------
(* The values of the slot a user can be shown.                             *)

\* Usage and errors on display belong to the account the slot is bound to,
\* and a slot without credentials is bound to nobody.
OwnData(s) ==
  /\ s.phase \in {"Disabled", "Unavailable"} => s.account = None
  /\ s.snapshot # None => /\ s.account # None
                          /\ s.snapshot.account = s.account
  /\ s.account # None => s.error \in {None, "Local", s.account}

HoldsNothing(s) ==
  /\ s.account = None
  /\ s.snapshot = None
  /\ s.pending = None
  /\ s.phase \in {"Disabled", "Unavailable"}

\* At most one of "a worker prepares" and "a request runs" holds, both are
\* bound to the current generation, and only a bound slot fetches.
OneActivity(s) ==
  /\ s.pending # None => /\ s.phase \notin {"Fetching", "Disabled"}
                         /\ s.pending.generation = s.generation
                         /\ s.pending.operation < s.nextOperation
  /\ s.phase = "Fetching" => /\ s.account # None
                             /\ s.request < s.nextRequest
=============================================================================
