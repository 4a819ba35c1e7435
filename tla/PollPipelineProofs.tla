-------------------------- MODULE PollPipelineProofs --------------------------
(***************************************************************************)
(* Theorems about the polling pipeline, for all providers, accounts,       *)
(* sources and bounds.  One inductive invariant carries them: every        *)
(* variable is well formed, every slot is sound, the receipts follow the   *)
(* slot's account, and a provider that is switched off holds nothing.      *)
(*                                                                         *)
(* First what the methods of a slot preserve, for every slot; then the     *)
(* actions of the pipeline; then that they implement ProviderSession.      *)
(***************************************************************************)
EXTENDS PollPipeline, SequenceTheorems, TLAPS

(***************************************************************************)
(* What the methods of a provider slot preserve, for every slot.           *)
(***************************************************************************)
\* A well-formed slot that shows only its own account's data and waits for
\* at most one thing.
Sound(s) == s \in Slot /\ OwnData(s) /\ OneActivity(s)

-----------------------------------------------------------------------------

\* The back-off after a 429 is a number of ticks (rate_limit_delay).
LEMMA DelayType ==
  ASSUME NEW retryAfter \in Nat \cup {None}, NEW streak \in Nat
  PROVE  RateLimitDelay(retryAfter, streak) \in Nat
<1> USE ProviderStateAssumption
<1>1. Doubling(streak) \in {1, 2, 4, 8, 16}
  <2>1. Least(Greatest(streak, 1), 5) \in 1..5
    BY DEF Least, Greatest
  <2>2. \A i \in 1..5 : <<1, 2, 4, 8, 16>>[i] \in {1, 2, 4, 8, 16}
    OBVIOUS
  <2> QED BY <2>1, <2>2 DEF Doubling
<1>2. MinRetryAfter * Doubling(streak) \in Nat
  BY <1>1
<1>3. CASE retryAfter = None
  BY <1>2, <1>3 DEF RateLimitDelay, Least
<1>4. CASE retryAfter # None
  BY <1>4 DEF RateLimitDelay, Least, Greatest
<1> QED BY <1>3, <1>4

-----------------------------------------------------------------------------
(* The steps the reducer's events are made of.                             *)

\* The phases without payload.
LEMMA PlainPhases ==
  /\ "Disabled" \in Phase /\ "Unavailable" \in Phase /\ "Idle" \in Phase
  /\ "Ready" \in Phase /\ "Failed" \in Phase
BY DEF Phase

\* Entering a phase changes nothing but the phase and its payload.
LEMMA EnterSlot ==
  ASSUME NEW s \in Slot, NEW phase \in Phase
  PROVE  LET t == Enter(s, phase)
         IN  /\ t \in Slot
             /\ t.phase = phase
             /\ t.account = s.account
             /\ t.generation = s.generation
             /\ t.snapshot = s.snapshot
             /\ t.pending = s.pending
             /\ t.nextOperation = s.nextOperation
             /\ t.source = s.source
             /\ t.error = s.error
BY DEF Slot, Enter

\* Clearing the account begins a new generation without an owner.
LEMMA ClearAccountSlot ==
  ASSUME NEW s \in Slot
  PROVE  LET t == ClearAccount(s)
         IN  /\ t \in Slot
             /\ t.account = None
             /\ t.snapshot = None
             /\ t.generation = s.generation + 1
             /\ t.phase = s.phase
             /\ t.pending = s.pending
             /\ t.nextOperation = s.nextOperation
             /\ t.source = s.source
             /\ t.error = s.error
<1>1. s.generation + 1 \in Nat /\ 0 \in Nat
  BY DEF Slot
<1>2. ClearAccount(s) \in Slot
  BY <1>1, Zenon DEF Slot, ClearAccount
<1> QED BY <1>2 DEF Slot, ClearAccount

\* Clearing the account and leaving the phase for one without payload.
LEMMA ClearedSlot ==
  ASSUME NEW s \in Slot, NEW phase \in Phase
  PROVE  LET t == Enter(ClearAccount(s), phase)
         IN  /\ t \in Slot
             /\ t.phase = phase
             /\ t.account = None
             /\ t.snapshot = None
             /\ t.generation = s.generation + 1
             /\ t.pending = s.pending
             /\ t.nextOperation = s.nextOperation
             /\ t.error = s.error
<1> DEFINE c == ClearAccount(s)
<1>1. /\ c \in Slot /\ c.account = None /\ c.snapshot = None
      /\ c.generation = s.generation + 1 /\ c.pending = s.pending
      /\ c.nextOperation = s.nextOperation /\ c.error = s.error
  BY ClearAccountSlot
<1> HIDE DEF c
<1>2. LET t == Enter(c, phase)
      IN  /\ t \in Slot /\ t.phase = phase /\ t.account = None
          /\ t.snapshot = None /\ t.generation = s.generation + 1
          /\ t.pending = s.pending /\ t.nextOperation = s.nextOperation
          /\ t.error = s.error
  BY <1>1, EnterSlot
<1> QED BY <1>2 DEF c

\* Switching a provider on keeps its account and what it waits for.
LEMMA EnableSound ==
  ASSUME NEW s, Sound(s)
  PROVE  LET t == Enable(s, TRUE)
         IN  /\ Sound(t)
             /\ t.account = s.account
             /\ t.snapshot = s.snapshot
             /\ t.pending = s.pending
             /\ t.phase = "Fetching" <=> s.phase = "Fetching"
             /\ t.phase # "Disabled"
             /\ t.nextOperation = s.nextOperation
<1> DEFINE t == Enable(s, TRUE)
<1> s \in Slot
  BY DEF Sound
<1>1. CASE s.phase # "Disabled"
  BY <1>1 DEF Enable, Sound
<1>2. CASE s.phase = "Disabled"
  <2>1. t = Enter(ClearAccount(s), "Unavailable")
    BY <1>2 DEF Enable
  <2> HIDE DEF t
  <2>2. /\ t \in Slot /\ t.phase = "Unavailable" /\ t.account = None
        /\ t.snapshot = None /\ t.pending = s.pending
        /\ t.nextOperation = s.nextOperation
    BY <2>1, s \in Slot, ClearedSlot, PlainPhases
  <2>3. s.account = None /\ s.pending = None /\ s.snapshot = None
    BY <1>2 DEF Sound, OwnData, OneActivity
  <2>4. Sound(t)
    BY <2>2, <2>3 DEF Sound, OwnData, OneActivity
  <2> QED BY <1>2, <2>2, <2>3, <2>4 DEF t
<1> QED BY <1>1, <1>2

\* An invalidated slot is bound to nobody and waits for nothing.
LEMMA InvalidateSound ==
  ASSUME NEW s, Sound(s), NEW disabled \in BOOLEAN
  PROVE  LET t == Invalidate(s, disabled)
         IN  /\ Sound(t)
             /\ HoldsNothing(t)
             /\ t.nextOperation = s.nextOperation
<1> DEFINE u == [s EXCEPT !.pending = None, !.error = None]
           t == Invalidate(s, disabled)
<1>1. /\ u \in Slot /\ u.pending = None /\ u.phase = s.phase
      /\ u.account = s.account /\ u.snapshot = s.snapshot
      /\ u.nextOperation = s.nextOperation
  BY DEF Sound, Slot, ErrorOwner
<1>2. \/ t = u /\ s.phase = "Disabled"
      \/ t = Enter(ClearAccount(u), "Disabled")
      \/ t = Enter(ClearAccount(u), "Unavailable")
  BY <1>1 DEF Invalidate, Enable, BecomeUnavailable
<1>3. /\ t \in Slot /\ t.account = None /\ t.snapshot = None
      /\ t.pending = None /\ t.phase \in {"Disabled", "Unavailable"}
      /\ t.nextOperation = s.nextOperation
  <2>1. CASE t = u /\ s.phase = "Disabled"
    BY <1>1, <2>1 DEF Sound, OwnData
  <2> HIDE DEF t, u
  <2>2. CASE t = Enter(ClearAccount(u), "Disabled")
    BY <1>1, <2>2, ClearedSlot, PlainPhases
  <2>3. CASE t = Enter(ClearAccount(u), "Unavailable")
    BY <1>1, <2>3, ClearedSlot, PlainPhases
  <2> QED BY <1>2, <2>1, <2>2, <2>3
<1> QED BY <1>3 DEF Sound, OwnData, OneActivity, HoldsNothing

\* A reservation only adds the preparation the slot waits for.
LEMMA ReserveSound ==
  ASSUME NEW s, Sound(s), NEW trigger \in Trigger, NEW time \in Nat,
         CanReserve(s, trigger, time)
  PROVE  /\ NextPreparation(s, trigger) \in Preparation
         /\ Sound(Reserve(s, trigger))
         /\ Reserve(s, trigger).account = s.account
         /\ Reserve(s, trigger).snapshot = s.snapshot
         /\ Reserve(s, trigger).phase = s.phase
         /\ s.pending = None /\ s.phase # "Fetching"
<1> DEFINE t == Reserve(s, trigger)
           q == NextPreparation(s, trigger)
<1>1. q \in Preparation /\ s.nextOperation + 1 \in Nat
  BY DEF Sound, Slot, Preparation, NextPreparation
<1>2. t \in Slot
  BY <1>1, Zenon DEF Sound, Slot, Reserve
<1>3. /\ t.pending = q /\ t.phase = s.phase /\ t.account = s.account
      /\ t.snapshot = s.snapshot /\ t.error = s.error
      /\ t.generation = s.generation /\ t.request = s.request
      /\ t.nextRequest = s.nextRequest
      /\ t.nextOperation = s.nextOperation + 1
  BY DEF Sound, Slot, Reserve
<1>4. q.generation = s.generation /\ q.operation = s.nextOperation
  BY DEF NextPreparation
<1>5. /\ s.phase \notin {"Fetching", "Disabled"} /\ s.pending = None
      /\ s.nextOperation \in Nat
  BY DEF CanReserve, GateReady, Sound, Slot
<1>6. OwnData(t) /\ OneActivity(t)
  BY <1>3, <1>4, <1>5 DEF Sound, OwnData, OneActivity
<1> QED BY <1>1, <1>2, <1>3, <1>5, <1>6 DEF Sound

-----------------------------------------------------------------------------
(* The decision on a worker's preparation.                                 *)

\* A change of source unbinds the slot and keeps the matching preparation.
LEMMA SelectSourceSound ==
  ASSUME NEW s, Sound(s), s.pending # None, NEW source \in Source
  PROVE  LET t == SelectSource(s, source)
         IN  /\ Sound(t)
             /\ t.phase \notin {"Fetching", "Disabled"}
             /\ t.nextOperation = s.nextOperation
             /\ \/ t.generation = s.generation /\ t.account = s.account
                \/ t.generation = s.generation + 1
<1> DEFINE b == BecomeUnavailable(s)
           q == [s.pending EXCEPT !.generation = b.generation]
           u == [b EXCEPT !.pending = [@ EXCEPT !.generation = b.generation],
                          !.error = None]
           t == SelectSource(s, source)
<1>1. /\ s \in Slot /\ s.phase # "Disabled" /\ s.phase # "Fetching"
      /\ s.pending \in Preparation /\ s.pending.operation < s.nextOperation
  BY DEF Sound, OneActivity, Slot
<1>2. CASE s.source = source
  <2>1. t = [s EXCEPT !.source = source]
    BY <1>2 DEF SelectSource
  <2>2. t = s
    BY <1>1, <1>2, <2>1, Zenon DEF Slot
  <2> QED BY <1>1, <2>2
<1>3. CASE s.source # source
  <2>1. t = [u EXCEPT !.source = source]
    BY <1>3 DEF SelectSource
  <2>2. /\ b \in Slot /\ b.phase = "Unavailable" /\ b.account = None
        /\ b.snapshot = None /\ b.generation = s.generation + 1
        /\ b.pending = s.pending /\ b.nextOperation = s.nextOperation
    BY <1>1, ClearedSlot, PlainPhases DEF BecomeUnavailable
  <2> HIDE DEF b
  <2>3. q \in Preparation /\ q.generation = b.generation
        /\ q.operation = s.pending.operation
    BY <1>1, <2>2 DEF Preparation, Slot
  <2>4. u = [b EXCEPT !.pending = q, !.error = None]
    BY <2>2, Zenon DEF Slot
  <2> HIDE DEF q, u
  <2>6. u \in Slot /\ u.pending = q /\ u.account = None /\ u.snapshot = None
        /\ u.phase = "Unavailable" /\ u.generation = b.generation
        /\ u.nextOperation = s.nextOperation
    BY <2>2, <2>3, <2>4 DEF Slot, ErrorOwner
  <2> HIDE DEF t
  <2>7. t \in Slot /\ t.pending = q /\ t.account = None /\ t.snapshot = None
        /\ t.phase = "Unavailable" /\ t.generation = b.generation
        /\ t.nextOperation = s.nextOperation
    BY <2>1, <2>6 DEF Slot
  <2>8. Sound(t)
    BY <1>1, <2>3, <2>7 DEF Sound, OwnData, OneActivity
  <2> QED BY <2>2, <2>7, <2>8 DEF t
<1> QED BY <1>2, <1>3
\* The account a worker reports becomes the slot's owner, together with what
\* the runtime cache restores for it.
LEMMA AdoptAccountSound ==
  ASSUME NEW s, Sound(s), s.phase \notin {"Fetching", "Disabled"},
         NEW account \in Account, NEW restored \in Restored, NEW time \in Nat
  PROVE  LET t == AdoptAccount(s, account, restored, time)
         IN  /\ Sound(t)
             /\ t.account = account
             /\ t.pending = None
             /\ t.nextOperation = s.nextOperation
             /\ \/ t.generation = s.generation /\ s.account = account
                \/ t.generation = s.generation + 1
<1> DEFINE t == [s EXCEPT !.pending = None]
           x == [t EXCEPT !.error = None]
           c == Enter(ClearAccount(x), "Idle")
           u == [c EXCEPT !.account = account]
           v == IF restored.snapshot = None THEN u
                ELSE LoadCache(u, restored.snapshot)
           w == IF restored.retryAt = None THEN v
                ELSE LoadRetryDeadline(v, restored.retryAt, time)
<1>1. /\ restored.snapshot \in Snapshot \cup {None}
      /\ restored.retryAt \in Nat \cup {None}
      /\ account # None
  BY ProviderStateAssumption DEF Restored
<1>2. /\ t \in Slot /\ t.pending = None /\ t.phase = s.phase
      /\ t.account = s.account /\ t.snapshot = s.snapshot /\ t.error = s.error
      /\ t.generation = s.generation /\ t.nextOperation = s.nextOperation
  BY DEF Sound, Slot
<1>3. Sound(t)
  BY <1>2 DEF Sound, OwnData, OneActivity
<1>4. CASE s.account = account
  BY <1>2, <1>3, <1>4 DEF AdoptAccount
<1>5. CASE s.account # account
  <2>1. /\ x \in Slot /\ x.pending = None /\ x.phase = s.phase /\ x.error = None
        /\ x.generation = s.generation /\ x.nextOperation = s.nextOperation
    BY <1>2 DEF Slot, ErrorOwner
  <2>2. AdoptAccount(s, account, restored, time) = w
    BY <1>5, <2>1 DEF AdoptAccount, CredentialsChanged
  <2> HIDE DEF x
  <2>3. /\ c \in Slot /\ c.phase = "Idle" /\ c.snapshot = None
        /\ c.pending = None /\ c.error = None
        /\ c.generation = s.generation + 1
        /\ c.nextOperation = s.nextOperation
    <3>1. /\ c \in Slot /\ c.phase = "Idle" /\ c.snapshot = None
          /\ c.pending = x.pending /\ c.error = x.error
          /\ c.generation = x.generation + 1
          /\ c.nextOperation = x.nextOperation
      BY <2>1, ClearedSlot, PlainPhases
    <3> QED BY <2>1, <3>1
  <2> HIDE DEF c
  <2>4. /\ u \in Slot /\ u.phase = "Idle" /\ u.account = account
        /\ u.snapshot = None /\ u.pending = None /\ u.error = None
        /\ u.generation = s.generation + 1
        /\ u.nextOperation = s.nextOperation
    BY <2>3 DEF Slot
  <2> HIDE DEF u
  <2>5. /\ v \in Slot /\ v.phase = "Idle" /\ v.account = account
        /\ v.snapshot # None => v.snapshot.account = account
        /\ v.pending = None /\ v.error = None
        /\ v.generation = s.generation + 1
        /\ v.nextOperation = s.nextOperation
    BY <1>1, <2>4 DEF LoadCache, Slot
  <2> HIDE DEF v
  <2>6. /\ w \in Slot /\ w.phase \in {"Idle", "Backoff"}
        /\ w.account = account
        /\ w.snapshot # None => w.snapshot.account = account
        /\ w.pending = None /\ w.error = None
        /\ w.generation = s.generation + 1
        /\ w.nextOperation = s.nextOperation
    BY <1>1, <2>5 DEF LoadRetryDeadline, Enter, Slot, Phase
  <2> HIDE DEF w
  <2>7. Sound(w)
    BY <1>1, <2>6 DEF Sound, OwnData, OneActivity
  <2> QED BY <2>2, <2>6, <2>7
<1> QED BY <1>4, <1>5

\* A request starts with a fresh request id for the slot's account.
LEMMA StartFetchSound ==
  ASSUME NEW s, Sound(s), s.account # None, s.pending = None, NEW time \in Nat
  PROVE  LET t == StartFetch(s, time)
         IN  /\ Sound(t)
             /\ TicketOf(t) \in Ticket
             /\ t.account = s.account
             /\ t.generation = s.generation
             /\ t.pending = None
             /\ t.nextOperation = s.nextOperation
<1> DEFINE t == StartFetch(s, time)
<1>1. /\ s \in Slot /\ s.nextRequest \in Nat /\ s.nextRequest + 1 \in Nat
      /\ 0 \in Nat
  BY DEF Sound, Slot
<1>2. t \in Slot
  BY <1>1, Zenon DEF Slot, StartFetch, Phase
<1>3. /\ t.phase = "Fetching" /\ t.request = s.nextRequest
      /\ t.nextRequest = s.nextRequest + 1 /\ t.account = s.account
      /\ t.generation = s.generation /\ t.snapshot = s.snapshot
      /\ t.error = s.error /\ t.pending = s.pending
      /\ t.nextOperation = s.nextOperation
  BY <1>1 DEF Slot, StartFetch
<1> HIDE DEF t
<1>4. Sound(t)
  BY <1>1, <1>2, <1>3 DEF Sound, OwnData, OneActivity
<1>5. TicketOf(t) \in Ticket
  BY <1>2, <1>3 DEF TicketOf, Ticket, Slot
<1> QED BY <1>3, <1>4, <1>5 DEF t

\* The whole decision: the slot stays sound, and a new generation begins
\* exactly when the owner was replaced by the reported account.
LEMMA PreparedSound ==
  ASSUME NEW s, Sound(s), s.pending # None, NEW prep \in Preparation,
         NEW account \in Account, NEW source \in Source,
         NEW restored \in Restored, NEW time \in Nat
  PROVE  LET r == Prepared(s, prep, account, source, restored, time)
         IN  /\ Sound(r.slot)
             /\ r.slot.account = account
             /\ r.slot.pending = None
             /\ r.slot.generation = s.generation => s.account = account
             /\ r.slot.nextOperation = s.nextOperation
             /\ r.ticket \in Ticket \cup {None}
<1> DEFINE x == SelectSource(s, source)
           t == AdoptAccount(x, account, restored, time)
           u == StartFetch(t, time)
<1>1. /\ Sound(x) /\ x.phase \notin {"Fetching", "Disabled"}
      /\ x.nextOperation = s.nextOperation
      /\ \/ x.generation = s.generation /\ x.account = s.account
         \/ x.generation = s.generation + 1
  BY SelectSourceSound
<1>2. s.generation \in Nat /\ x.generation \in Nat
  BY <1>1 DEF Sound, Slot
<1> HIDE DEF x
<1>3. /\ Sound(t) /\ t.account = account /\ t.pending = None
      /\ t.nextOperation = s.nextOperation
      /\ \/ t.generation = x.generation /\ x.account = account
         \/ t.generation = x.generation + 1
  BY <1>1, AdoptAccountSound
<1>4. t.generation = s.generation => s.account = account
  BY <1>1, <1>2, <1>3
<1> HIDE DEF t
<1>5. CASE CanStart(t, prep.trigger, time)
  <2>1. /\ Sound(u) /\ TicketOf(u) \in Ticket /\ u.account = account
        /\ u.pending = None
        /\ u.generation = t.generation /\ u.nextOperation = s.nextOperation
    BY <1>3, <1>5, StartFetchSound DEF CanStart
  <2>2. Prepared(s, prep, account, source, restored, time)
          = [slot |-> u, ticket |-> TicketOf(u)]
    BY <1>5 DEF Prepared, x, t
  <2> QED BY <1>4, <2>1, <2>2
<1>6. CASE ~CanStart(t, prep.trigger, time)
  <2>1. Prepared(s, prep, account, source, restored, time)
          = [slot |-> t, ticket |-> None]
    BY <1>6 DEF Prepared, x, t
  <2> QED BY <1>3, <1>4, <2>1
<1> QED BY <1>5, <1>6

-----------------------------------------------------------------------------
(* The other events that end what the slot waits for.                      *)

\* A failed preparation unbinds the slot when it proves the account gone.
LEMMA PreparationFailedSound ==
  ASSUME NEW s, Sound(s), s.pending # None, NEW invalidates \in BOOLEAN,
         NEW time \in Nat
  PROVE  LET t == PreparationFailed(s, invalidates, time)
         IN  /\ Sound(t)
             /\ t.account = IF invalidates THEN None ELSE s.account
             /\ t.snapshot = IF invalidates THEN None ELSE s.snapshot
             /\ t.pending = None
             /\ t.phase # "Fetching"
             /\ t.nextOperation = s.nextOperation
<1> DEFINE x == [s EXCEPT !.pending = None, !.error = "Local"]
           c == Enter(ClearAccount(x), "Unavailable")
           f == Enter(x, "Failed")
           t == PreparationFailed(s, invalidates, time)
<1>1. /\ x \in Slot /\ x.pending = None /\ x.phase = s.phase
      /\ x.error = "Local" /\ x.account = s.account
      /\ x.snapshot = s.snapshot /\ x.nextOperation = s.nextOperation
      /\ x.phase \notin {"Fetching", "Disabled"}
  BY DEF Sound, OneActivity, Slot, ErrorOwner
<1>2. t = IF invalidates THEN [c EXCEPT !.lastAttempt = time]
          ELSE [f EXCEPT !.streak = 0, !.lastAttempt = time]
  BY <1>1 DEF PreparationFailed, FailPreparation
<1> HIDE DEF x
<1>3. CASE invalidates
  <2>1. /\ c \in Slot /\ c.phase = "Unavailable" /\ c.account = None
        /\ c.snapshot = None /\ c.pending = None
        /\ c.nextOperation = s.nextOperation
    BY <1>1, ClearedSlot, PlainPhases
  <2> HIDE DEF c, t
  <2>2. /\ t \in Slot /\ t.phase = "Unavailable" /\ t.account = None
        /\ t.snapshot = None /\ t.pending = None
        /\ t.nextOperation = s.nextOperation
    BY <1>2, <1>3, <2>1 DEF Slot
  <2>3. Sound(t)
    BY <2>2 DEF Sound, OwnData, OneActivity
  <2> QED BY <1>3, <2>2, <2>3 DEF t
<1>4. CASE ~invalidates
  <2>1. /\ f \in Slot /\ f.phase = "Failed" /\ f.account = s.account
        /\ f.snapshot = s.snapshot /\ f.pending = None /\ f.error = "Local"
        /\ f.nextOperation = s.nextOperation
    BY <1>1, EnterSlot, PlainPhases
  <2> HIDE DEF f, t
  <2>2. /\ t \in Slot /\ t.phase = "Failed" /\ t.account = s.account
        /\ t.snapshot = s.snapshot /\ t.pending = None /\ t.error = "Local"
        /\ t.nextOperation = s.nextOperation
    BY <1>2, <1>4, <2>1 DEF Slot
  <2>3. Sound(t)
    BY <2>2 DEF Sound, OwnData, OneActivity
  <2> QED BY <1>4, <2>2, <2>3 DEF t
<1> QED BY <1>3, <1>4

\* A completion is ignored, or ends the request of the slot's own account.
LEMMA CompletedSound ==
  ASSUME NEW s, Sound(s), NEW ticket \in Ticket, NEW result \in Result,
         NEW time \in Nat
  PROVE  LET t == Completed(s, ticket, result, time)
         IN  /\ Sound(t)
             /\ t.account # None => t.account = s.account
             /\ t.nextOperation = s.nextOperation
             /\ ~Accepts(s, ticket, result) => t = s
             /\ Accepts(s, ticket, result) =>
                  /\ s.phase = "Fetching" /\ s.pending = None
                  /\ t.phase # "Fetching" /\ t.pending = None
                  /\ \/ t.account = None /\ t.snapshot = None
                     \/ /\ t.account = s.account
                        /\ \/ t.snapshot = s.snapshot
                           \/ /\ t.snapshot \in Snapshot
                              /\ t.snapshot.account = s.account
<1> DEFINE x == [s EXCEPT !.lastAttempt = time]
           r == Complete(s, ticket, result, time)
           e == IF result.kind = "Success" THEN None ELSE ticket.account
           t == Completed(s, ticket, result, time)
<1>1. CASE ~Accepts(s, ticket, result)
  BY <1>1 DEF Completed
<1>2. CASE Accepts(s, ticket, result)
  <2>1. /\ s \in Slot /\ s.phase = "Fetching" /\ s.pending = None
        /\ s.account = ticket.account /\ s.account # None
        /\ result.kind = "Success" => result.snapshot.account = s.account
    BY <1>2 DEF Accepts, Live, TicketOf, Sound, OneActivity, Ticket
  <2>2. /\ x \in Slot /\ x.pending = None /\ x.account = s.account
        /\ x.snapshot = s.snapshot /\ x.nextOperation = s.nextOperation
    BY <2>1 DEF Slot
  <2>3. /\ r \in Slot /\ r.pending = None
        /\ r.nextOperation = s.nextOperation
        /\ \/ /\ r.account = None /\ r.snapshot = None
              /\ r.phase = "Unavailable"
           \/ /\ r.account = s.account
              /\ \/ r.snapshot = s.snapshot
                 \/ /\ r.snapshot \in Snapshot
                    /\ r.snapshot.account = s.account
              /\ r.phase \in {"Ready", "Backoff", "Failed"}
    <3> HIDE DEF x
    <3>1. CASE result.kind = "Success"
      <4> DEFINE y == Enter(x, "Ready")
      <4>1. /\ y \in Slot /\ y.pending = None /\ y.account = s.account
            /\ y.phase = "Ready" /\ y.nextOperation = s.nextOperation
        BY <2>2, EnterSlot, PlainPhases
      <4>2. r = [y EXCEPT !.snapshot = result.snapshot,
                          !.cached = FALSE, !.streak = 0]
        BY <1>2, <3>1 DEF Complete, x
      <4>3. result.snapshot \in Snapshot /\ 0 \in Nat
        BY <3>1 DEF Result, Failure
      <4> HIDE DEF y, r
      <4>4. r \in Slot
        BY <4>1, <4>2, <4>3, Zenon DEF Slot
      <4>5. /\ r.pending = None /\ r.account = s.account /\ r.phase = "Ready"
            /\ r.nextOperation = s.nextOperation
            /\ r.snapshot = result.snapshot
        BY <4>1, <4>2 DEF Slot
      <4> QED BY <2>1, <3>1, <4>3, <4>4, <4>5
    <3>2. CASE result.kind = "Authentication"
      <4>1. r = Enter(ClearAccount(x), "Unavailable")
        BY <1>2, <3>2 DEF Complete, x
      <4> HIDE DEF r
      <4> QED BY <2>2, <4>1, ClearedSlot, PlainPhases
    <3>3. CASE result.kind = "RateLimited"
      <4> DEFINE y == Enter(x, "Backoff")
                 d == RateLimitDelay(result.retryAfter, s.streak + 1)
      <4>1. "Backoff" \in Phase
        BY DEF Phase
      <4>2. /\ y \in Slot /\ y.pending = None /\ y.account = s.account
            /\ y.phase = "Backoff" /\ y.nextOperation = s.nextOperation
            /\ y.snapshot = s.snapshot
        BY <2>2, <4>1, EnterSlot
      <4>3. r = [y EXCEPT !.streak = @ + 1, !.until = time + d]
        BY <1>2, <3>3 DEF Complete, x
      <4>4. s.streak + 1 \in Nat /\ result.retryAfter \in Nat \cup {None}
        BY <2>1 DEF Slot, Result
      <4>5. time + d \in Nat
        <5>1. d \in Nat
          BY <4>4, DelayType
        <5> QED BY <5>1
      <4> HIDE DEF y, d, r
      <4>6. y.streak + 1 \in Nat
        BY <4>2 DEF Slot
      <4>7. r \in Slot
        BY <4>2, <4>3, <4>5, <4>6, Zenon DEF Slot
      <4>8. /\ r.pending = None /\ r.account = s.account
            /\ r.phase = "Backoff" /\ r.nextOperation = s.nextOperation
            /\ r.snapshot = s.snapshot
        BY <4>2, <4>3 DEF Slot
      <4> QED BY <2>1, <4>7, <4>8 DEF Sound, OwnData
    <3>4. CASE result.kind = "Transient"
      <4> DEFINE y == Enter(x, "Failed")
      <4>1. /\ y \in Slot /\ y.pending = None /\ y.account = s.account
            /\ y.phase = "Failed" /\ y.nextOperation = s.nextOperation
            /\ y.snapshot = s.snapshot
        BY <2>2, EnterSlot, PlainPhases
      <4>2. r = [y EXCEPT !.streak = 0]
        BY <1>2, <3>4 DEF Complete, x
      <4> HIDE DEF y, r
      <4>3. /\ r \in Slot /\ r.pending = None /\ r.account = s.account
            /\ r.phase = "Failed" /\ r.nextOperation = s.nextOperation
            /\ r.snapshot = s.snapshot
        BY <4>1, <4>2 DEF Slot
      <4> QED BY <2>1, <4>3 DEF Sound, OwnData
    <3> QED BY <3>1, <3>2, <3>3, <3>4 DEF Result, Failure
  <2>4. t = [r EXCEPT !.error = e]
    BY <1>2 DEF Completed
  <2>5. e \in ErrorOwner /\ e \in {None, s.account}
    BY <2>1 DEF ErrorOwner, Ticket
  <2> HIDE DEF r, e, t
  <2>6. /\ t \in Slot /\ t.pending = None /\ t.error = e
        /\ t.account = r.account /\ t.snapshot = r.snapshot
        /\ t.phase = r.phase /\ t.nextOperation = s.nextOperation
    BY <2>3, <2>4, <2>5 DEF Slot
  <2>7. Sound(t)
    BY <2>1, <2>3, <2>5, <2>6 DEF Sound, OwnData, OneActivity
  <2> QED BY <1>2, <2>1, <2>3, <2>6, <2>7 DEF t
<1> QED BY <1>1, <1>2

-----------------------------------------------------------------------------
(* What a step of a slot may start.                                        *)

\* Usage on display was read from the slot's source.
OwnSource(s) == s.snapshot # None => s.snapshot.source = s.source

\* A step that starts neither a request nor a preparation.
Quiet(s, t) ==
  /\ t.nextRequest = s.nextRequest
  /\ t.nextOperation = s.nextOperation
  /\ t.phase = "Fetching" => /\ s.phase = "Fetching"
                             /\ TicketOf(t) = TicketOf(s)
                             /\ t.source = s.source
  /\ t.pending # None => t.pending = s.pending

\* The fields no step but a new preparation, a new request or a change of
\* source touches.
Frame(s, t) ==
  /\ t.nextRequest = s.nextRequest
  /\ t.nextOperation = s.nextOperation
  /\ t.source = s.source

LEMMA EnterFrame ==
  ASSUME NEW s \in Slot, NEW phase
  PROVE  Frame(s, Enter(s, phase))
BY DEF Slot, Enter, Frame

LEMMA ClearedFrame ==
  ASSUME NEW s \in Slot, NEW phase
  PROVE  Frame(s, Enter(ClearAccount(s), phase))
BY DEF Slot, Enter, ClearAccount, Frame

LEMMA EnableFrame ==
  ASSUME NEW s \in Slot
  PROVE  /\ Frame(s, Enable(s, TRUE))
         /\ Enable(s, TRUE) = s \/ Enable(s, TRUE).phase = "Unavailable"
BY DEF Slot, Enter, ClearAccount, Enable, Frame

LEMMA InvalidateFrame ==
  ASSUME NEW s \in Slot, NEW disabled \in BOOLEAN
  PROVE  Frame(s, Invalidate(s, disabled))
BY DEF Slot, Enter, ClearAccount, Enable, BecomeUnavailable, Invalidate, Frame

LEMMA PreparationFailedFrame ==
  ASSUME NEW s \in Slot, NEW invalidates \in BOOLEAN, NEW time
  PROVE  Frame(s, PreparationFailed(s, invalidates, time))
BY DEF Slot, Enter, ClearAccount, FailPreparation, PreparationFailed, Frame

LEMMA CompletedFrame ==
  ASSUME NEW s \in Slot, NEW ticket, NEW result \in Result, NEW time \in Nat
  PROVE  LET t == Completed(s, ticket, result, time)
         IN  /\ Frame(s, t)
             /\ \/ t.snapshot = None
                \/ t.snapshot = s.snapshot
                \/ result.kind = "Success" /\ t.snapshot = result.snapshot
<1> DEFINE x == [s EXCEPT !.lastAttempt = time]
           r == Complete(s, ticket, result, time)
           e == IF result.kind = "Success" THEN None ELSE ticket.account
<1>1. CASE ~Accepts(s, ticket, result)
  BY <1>1 DEF Completed, Frame
<1>2. CASE Accepts(s, ticket, result)
  <2>1. x \in Slot /\ Frame(s, x)
    BY DEF Slot, Frame
  <2>2. \/ /\ result.kind = "Success"
           /\ r = [Enter(x, "Ready") EXCEPT !.snapshot = result.snapshot,
                                           !.cached = FALSE, !.streak = 0]
        \/ r = Enter(ClearAccount(x), "Unavailable")
        \/ r = [Enter(x, "Backoff") EXCEPT
                  !.streak = @ + 1,
                  !.until = time + RateLimitDelay(result.retryAfter,
                                                 s.streak + 1)]
        \/ r = [Enter(x, "Failed") EXCEPT !.streak = 0]
    BY <1>2 DEF Complete, Result, Failure
  <2> HIDE DEF x, r
  <2>3. Frame(s, [r EXCEPT !.error = e])
    BY <2>1, <2>2 DEF Slot, Enter, ClearAccount, Frame
  <2>4. x.snapshot = s.snapshot
    BY DEF Slot, x
  <2>5. LET t == [r EXCEPT !.error = e]
        IN  \/ t.snapshot = None
            \/ t.snapshot = s.snapshot
            \/ result.kind = "Success" /\ t.snapshot = result.snapshot
    BY <2>1, <2>2, <2>4 DEF Slot, Enter, ClearAccount
  <2> QED BY <1>2, <2>3, <2>5 DEF Completed, r, e
<1> QED BY <1>1, <1>2

LEMMA AdoptFrame ==
  ASSUME NEW s \in Slot, NEW account, NEW restored, NEW time
  PROVE  Frame(s, AdoptAccount(s, account, restored, time))
BY DEF Slot, Enter, ClearAccount, CredentialsChanged, LoadCache,
       LoadRetryDeadline, AdoptAccount, Frame

LEMMA SelectSourceFrame ==
  ASSUME NEW s \in Slot, s.phase # "Disabled", NEW source \in Source
  PROVE  LET t == SelectSource(s, source)
         IN  /\ t.nextRequest = s.nextRequest
             /\ t.nextOperation = s.nextOperation
             /\ t.source = source
             /\ s.source = source => t = s
             /\ s.source # source => t.account = None /\ t.snapshot = None
<1>1. CASE s.source = source
  <2>1. SelectSource(s, source) = s
    BY <1>1, Zenon DEF SelectSource, Slot
  <2> QED BY <1>1, <2>1
<1>2. CASE s.source # source
  BY <1>2 DEF Slot, Enter, ClearAccount, BecomeUnavailable, SelectSource
<1> QED BY <1>1, <1>2

\* A deadline the runtime cache restores lies in a plausible future.
Plausible(restored, time) ==
  restored.retryAt # None => /\ restored.retryAt > time
                             /\ restored.retryAt - time <= MaxRetryAfter

LEMMA AdoptAccountFrame ==
  ASSUME NEW s \in Slot, s.phase \notin {"Fetching", "Disabled"},
         NEW account \in Account, NEW restored \in Restored, NEW time \in Nat
  PROVE  LET t == AdoptAccount(s, account, restored, time)
         IN  /\ Frame(s, t)
             /\ t.phase # "Fetching"
             /\ s.account = account => /\ t.snapshot = s.snapshot
                                       /\ t.phase = s.phase
                                       /\ t.until = s.until
             /\ s.account # account =>
                  /\ t.snapshot \in {None, restored.snapshot}
                  /\ restored.retryAt = None => t.phase # "Backoff"
                  /\ restored.retryAt # None /\ Plausible(restored, time) =>
                       t.phase = "Backoff" /\ t.until = restored.retryAt
<1> DEFINE t == [s EXCEPT !.pending = None]
           u == [Enter(ClearAccount([t EXCEPT !.error = None]), "Idle")
                   EXCEPT !.account = account]
           v == IF restored.snapshot = None THEN u
                ELSE LoadCache(u, restored.snapshot)
           w == IF restored.retryAt = None THEN v
                ELSE LoadRetryDeadline(v, restored.retryAt, time)
<1>1. CASE s.account = account
  BY <1>1 DEF AdoptAccount, Slot, Frame
<1>2. CASE s.account # account
  <2>1. AdoptAccount(s, account, restored, time) = w
    BY <1>2 DEF AdoptAccount, CredentialsChanged, Slot
  <2>2. /\ u.phase = "Idle" /\ u.snapshot = None /\ u.account = account
        /\ Frame(s, u)
    BY DEF Enter, ClearAccount, Slot, Frame
  <2>3. DOMAIN u = DOMAIN s
    BY DEF Enter, ClearAccount, Slot
  <2>3a. "snapshot" \in DOMAIN s /\ "until" \in DOMAIN s /\ "phase" \in DOMAIN s
    BY DEF Slot
  <2> HIDE DEF u
  <2>4. /\ v.phase = "Idle" /\ v.account = account /\ Frame(s, v)
        /\ v.snapshot \in {None, restored.snapshot}
        /\ DOMAIN v = DOMAIN s
    BY <2>2, <2>3, <2>3a DEF LoadCache, Frame
  <2> HIDE DEF v
  <2>5. account # None
    BY ProviderStateAssumption
  <2>6. /\ Frame(s, w) /\ w.phase # "Fetching"
        /\ w.snapshot \in {None, restored.snapshot}
        /\ restored.retryAt = None => w.phase # "Backoff"
        /\ restored.retryAt # None /\ Plausible(restored, time) =>
             w.phase = "Backoff" /\ w.until = restored.retryAt
    BY <2>3a, <2>4, <2>5 DEF LoadRetryDeadline, Enter, Frame, Plausible
  <2> QED BY <1>2, <2>1, <2>6
<1> QED BY <1>1, <1>2

\* A decision that starts a request uses the next request id, and one that
\* starts none leaves the slot without one.
LEMMA PreparedStarts ==
  ASSUME NEW s, Sound(s), s.pending # None, NEW prep \in Preparation,
         NEW account \in Account, NEW source \in Source,
         NEW restored \in Restored, NEW time \in Nat
  PROVE  LET r == Prepared(s, prep, account, source, restored, time)
             t == r.slot
         IN  /\ t.nextOperation = s.nextOperation
             /\ t.source = source
             /\ \/ /\ r.ticket = None
                   /\ t.phase # "Fetching"
                   /\ t.nextRequest = s.nextRequest
                \/ /\ r.ticket = TicketOf(t)
                   /\ t.phase = "Fetching"
                   /\ t.request = s.nextRequest
                   /\ t.nextRequest = s.nextRequest + 1
             /\ OwnSource(s) /\ (\/ restored.snapshot = None
                                 \/ restored.snapshot.source = source)
                  => OwnSource(t)
             /\ Plausible(restored, time) =>
                  \/ /\ s.account = account /\ s.source = source
                     /\ ~Cooling(s, time) /\ t.phase = "Fetching"
                  \/ /\ s.account = account /\ s.source = source
                     /\ t.phase = s.phase /\ t.until = s.until
                  \/ restored.retryAt = None /\ t.phase # "Backoff"
                  \/ /\ restored.retryAt # None
                     /\ t.phase = "Backoff" /\ t.until = restored.retryAt
<1> DEFINE x == SelectSource(s, source)
           t == AdoptAccount(x, account, restored, time)
           u == StartFetch(t, time)
           start == CanStart(t, prep.trigger, time)
           final == IF start THEN u ELSE t
<1>1. /\ s \in Slot /\ s.phase \notin {"Fetching", "Disabled"}
      /\ s.nextRequest \in Nat
  BY DEF Sound, OneActivity, Slot
<1>2. /\ x \in Slot /\ x.phase \notin {"Fetching", "Disabled"}
      /\ x.nextRequest = s.nextRequest /\ x.nextOperation = s.nextOperation
      /\ x.source = source
      /\ s.source = source => x = s
      /\ s.source # source => x.account = None /\ x.snapshot = None
  BY <1>1, SelectSourceSound, SelectSourceFrame DEF Sound
<1> HIDE DEF x
<1>3. /\ t \in Slot
      /\ Frame(x, t)
      /\ t.phase # "Fetching"
      /\ x.account = account => /\ t.snapshot = x.snapshot
                                /\ t.phase = x.phase
                                /\ t.until = x.until
      /\ x.account # account =>
           /\ t.snapshot \in {None, restored.snapshot}
           /\ restored.retryAt = None => t.phase # "Backoff"
           /\ restored.retryAt # None /\ Plausible(restored, time) =>
                t.phase = "Backoff" /\ t.until = restored.retryAt
  <2>1. Sound(x)
    BY SelectSourceSound DEF x
  <2> QED BY <1>2, <2>1, AdoptAccountSound, AdoptAccountFrame DEF Sound
<1> HIDE DEF t
<1>4. /\ t.nextRequest = s.nextRequest /\ t.nextOperation = s.nextOperation
      /\ t.source = source
  BY <1>2, <1>3 DEF Frame
<1>5. /\ u.phase = "Fetching" /\ u.request = s.nextRequest
      /\ u.nextRequest = s.nextRequest + 1
      /\ u.nextOperation = s.nextOperation /\ u.source = source
      /\ u.snapshot = t.snapshot
  BY <1>3, <1>4 DEF StartFetch, Slot
<1> HIDE DEF u
<1>6. Prepared(s, prep, account, source, restored, time)
        = [slot |-> final, ticket |-> IF start THEN TicketOf(final) ELSE None]
  BY DEF Prepared, x, t, u
<1>7. account # None
  BY ProviderStateAssumption
<1>8. x.account = account => s.account = account /\ s.source = source /\ x = s
  BY <1>2, <1>7
<1>9. OwnSource(s) /\ (\/ restored.snapshot = None
                        \/ restored.snapshot.source = source)
        => OwnSource(final)
  <2>1. \/ t.snapshot = None \/ t.snapshot = restored.snapshot
        \/ t.snapshot = s.snapshot /\ s.source = source
    BY <1>3, <1>8
  <2> QED BY <1>4, <1>5, <2>1 DEF OwnSource
<1>10. Plausible(restored, time) =>
         \/ /\ s.account = account /\ s.source = source
            /\ ~Cooling(s, time) /\ final.phase = "Fetching"
         \/ /\ s.account = account /\ s.source = source
            /\ final.phase = s.phase /\ final.until = s.until
         \/ restored.retryAt = None /\ final.phase # "Backoff"
         \/ /\ restored.retryAt # None
            /\ final.phase = "Backoff" /\ final.until = restored.retryAt
  <2> SUFFICES ASSUME Plausible(restored, time)
               PROVE  \/ /\ s.account = account /\ s.source = source
                         /\ ~Cooling(s, time) /\ final.phase = "Fetching"
                      \/ /\ s.account = account /\ s.source = source
                         /\ final.phase = s.phase /\ final.until = s.until
                      \/ restored.retryAt = None /\ final.phase # "Backoff"
                      \/ /\ restored.retryAt # None
                         /\ final.phase = "Backoff"
                         /\ final.until = restored.retryAt
    OBVIOUS
  <2>1. start => ~Cooling(t, time)
    BY DEF CanStart, GateReady
  <2>2. CASE x.account = account
    BY <1>3, <1>5, <1>8, <2>1, <2>2 DEF Cooling
  <2>3. CASE x.account # account
    <3>1. restored.retryAt # None => Cooling(t, time)
      BY <1>3, <2>3 DEF Cooling, Plausible, Restored
    <3> QED BY <1>3, <1>5, <2>1, <2>3, <3>1
  <2> QED BY <2>2, <2>3
<1> QED BY <1>3, <1>4, <1>5, <1>6, <1>9, <1>10

\* Asking for fresh values starts no request.
LEMMA EnableQuiet ==
  ASSUME NEW s, Sound(s), OwnSource(s)
  PROVE  LET t == Enable(s, TRUE)
         IN  /\ Quiet(s, t)
             /\ OwnSource(t)
             /\ t = s \/ (t.phase = "Unavailable" /\ t.account = None)
<1> DEFINE t == Enable(s, TRUE)
<1>1. /\ t.snapshot = s.snapshot /\ t.pending = s.pending /\ Frame(s, t)
      /\ t.account = s.account
      /\ t = s \/ t.phase = "Unavailable"
      /\ Sound(t)
  BY EnableSound, EnableFrame DEF Sound
<1> QED BY <1>1 DEF Quiet, OwnSource, Frame, Sound, OwnData

LEMMA InvalidateQuiet ==
  ASSUME NEW s, Sound(s), NEW disabled \in BOOLEAN
  PROVE  LET t == Invalidate(s, disabled)
         IN  Quiet(s, t) /\ OwnSource(t)
<1> DEFINE t == Invalidate(s, disabled)
<1>1. HoldsNothing(t) /\ Frame(s, t)
  BY InvalidateSound, InvalidateFrame DEF Sound
<1> QED BY <1>1 DEF Quiet, OwnSource, Frame, HoldsNothing

LEMMA PreparationFailedQuiet ==
  ASSUME NEW s, Sound(s), OwnSource(s), s.pending # None,
         NEW invalidates \in BOOLEAN, NEW time \in Nat
  PROVE  LET t == PreparationFailed(s, invalidates, time)
         IN  Quiet(s, t) /\ OwnSource(t)
<1> DEFINE t == PreparationFailed(s, invalidates, time)
<1>1. /\ t.snapshot \in {None, s.snapshot} /\ t.pending = None
      /\ t.phase # "Fetching" /\ Frame(s, t)
  BY PreparationFailedSound, PreparationFailedFrame DEF Sound
<1> QED BY <1>1 DEF Quiet, OwnSource, Frame

LEMMA CompletedQuiet ==
  ASSUME NEW s, Sound(s), OwnSource(s), NEW ticket \in Ticket,
         NEW result \in Result, NEW time \in Nat,
         Accepts(s, ticket, result) /\ result.kind = "Success"
           => result.snapshot.source = s.source
  PROVE  LET t == Completed(s, ticket, result, time)
         IN  Quiet(s, t) /\ OwnSource(t)
<1> DEFINE t == Completed(s, ticket, result, time)
<1>1. /\ ~Accepts(s, ticket, result) => t = s
      /\ Accepts(s, ticket, result) => t.phase # "Fetching" /\ t.pending = None
  BY CompletedSound
<1>2. /\ Frame(s, t)
      /\ \/ t.snapshot = None
         \/ t.snapshot = s.snapshot
         \/ result.kind = "Success" /\ t.snapshot = result.snapshot
  BY CompletedFrame DEF Sound
<1> QED BY <1>1, <1>2 DEF Quiet, OwnSource, Frame

\* A step that starts no request makes no ticket live.
LEMMA QuietLive ==
  ASSUME NEW s, NEW t, Quiet(s, t), NEW ticket, Live(t, ticket)
  PROVE  Live(s, ticket) /\ t.source = s.source
BY DEF Quiet, Live

-----------------------------------------------------------------------------
(* What a step of a slot does to a cool-down.                              *)

\* No preparation is pending during a cool-down.
Settled(s, time) == s.pending # None => ~Cooling(s, time)

\* A step that neither cuts a cool-down short nor gives the slot another
\* account or source to fetch for.
Calm(s, t, time) ==
  /\ Settled(t, time)
  /\ t.phase = "Backoff" => \/ s.phase = "Backoff" /\ t.until = s.until
                            \/ t.until <= time + MaxRetryAfter
  /\ \/ t.account = None
     \/ /\ t.account = s.account /\ t.source = s.source
        /\ ~Cooling(s, time) \/ (t.phase = s.phase /\ t.until = s.until)

LEMMA DelayBound ==
  ASSUME NEW retryAfter \in Nat \cup {None}, NEW streak \in Nat
  PROVE  RateLimitDelay(retryAfter, streak) <= MaxRetryAfter
<1> USE ProviderStateAssumption
<1>1. CASE retryAfter # None
  BY <1>1 DEF RateLimitDelay, Greatest, Least
<1>2. CASE retryAfter = None
  <2>1. RateLimitDelay(retryAfter, streak) \in Nat
    BY DelayType
  <2>2. RateLimitDelay(retryAfter, streak)
          = Least(MinRetryAfter * Doubling(streak), MaxFallback)
    BY <1>2 DEF RateLimitDelay
  <2> DEFINE x == MinRetryAfter * Doubling(streak)
  <2>3. \/ Least(x, MaxFallback) = x /\ x <= MaxFallback
        \/ Least(x, MaxFallback) = MaxFallback
    BY DEF Least
  <2> HIDE DEF x
  <2> QED BY <2>1, <2>2, <2>3 DEF x
<1> QED BY <1>1, <1>2

LEMMA CalmSelf ==
  ASSUME NEW s, NEW time, Settled(s, time)
  PROVE  Calm(s, s, time)
BY DEF Calm

LEMMA EmptyCalm ==
  ASSUME NEW s, NEW t, NEW time, HoldsNothing(t)
  PROVE  Calm(s, t, time)
BY DEF Calm, Settled, HoldsNothing

LEMMA EnableCalm ==
  ASSUME NEW s, Sound(s), NEW time, Settled(s, time)
  PROVE  Calm(s, Enable(s, TRUE), time)
<1> DEFINE t == Enable(s, TRUE)
<1>1. t = s \/ t.phase = "Unavailable"
  BY EnableFrame DEF Sound
<1>2. t.phase = "Unavailable" => t.account = None
  BY EnableSound DEF Sound, OwnData
<1> HIDE DEF t
<1> QED BY <1>1, <1>2 DEF Calm, Settled, Cooling, t

LEMMA ReserveCalm ==
  ASSUME NEW s, Sound(s), NEW trigger, NEW time, CanReserve(s, trigger, time)
  PROVE  Calm(s, Reserve(s, trigger), time)
<1> DEFINE t == Reserve(s, trigger)
<1>1. /\ t.phase = s.phase /\ t.until = s.until /\ t.account = s.account
      /\ t.source = s.source
  BY DEF Reserve, Slot, Sound
<1>2. ~Cooling(s, time)
  BY DEF CanReserve, GateReady
<1> HIDE DEF t
<1> QED BY <1>1, <1>2 DEF Calm, Settled, Cooling, t

LEMMA CalmTwice ==
  ASSUME NEW a, NEW b, NEW c, NEW time, Calm(a, b, time), Calm(b, c, time)
  PROVE  Calm(a, c, time)
BY DEF Calm, Settled, Cooling

LEMMA PreparationFailedCalm ==
  ASSUME NEW s, Sound(s), s.pending # None, NEW invalidates \in BOOLEAN,
         NEW time \in Nat, Settled(s, time)
  PROVE  Calm(s, PreparationFailed(s, invalidates, time), time)
<1> DEFINE t == PreparationFailed(s, invalidates, time)
<1>1. /\ t.account = IF invalidates THEN None ELSE s.account
      /\ t.pending = None
  BY PreparationFailedSound
<1>2. t.source = s.source
  BY PreparationFailedFrame DEF Frame, Sound
<1>3. t.phase # "Backoff"
  BY DEF Sound, OneActivity, Slot, Enter, ClearAccount, FailPreparation,
         PreparationFailed
<1> HIDE DEF t
<1> QED BY <1>1, <1>2, <1>3 DEF Calm, Settled, t

LEMMA CompletedCalm ==
  ASSUME NEW s, Sound(s), NEW ticket \in Ticket, NEW result \in Result,
         NEW time \in Nat, Settled(s, time)
  PROVE  Calm(s, Completed(s, ticket, result, time), time)
<1> DEFINE t == Completed(s, ticket, result, time)
<1>1. CASE ~Accepts(s, ticket, result)
  BY <1>1, CompletedSound, CalmSelf
<1>2. CASE Accepts(s, ticket, result)
  <2>1. /\ s.phase = "Fetching" /\ t.pending = None
        /\ t.account \in {None, s.account}
    BY <1>2, CompletedSound
  <2>2. t.source = s.source
    BY CompletedFrame DEF Frame, Sound
  <2>3. t.phase = "Backoff" => t.until <= time + MaxRetryAfter
    <3> DEFINE x == [s EXCEPT !.lastAttempt = time]
               r == Complete(s, ticket, result, time)
               e == IF result.kind = "Success" THEN None ELSE ticket.account
               d == RateLimitDelay(result.retryAfter, s.streak + 1)
    <3>1. \/ d \in Nat /\ d <= MaxRetryAfter
          \/ result.kind # "RateLimited"
      <4>1. result.kind = "RateLimited" => result.retryAfter \in Nat \cup {None}
        BY DEF Result, Failure
      <4>2. s.streak + 1 \in Nat
        BY DEF Sound, Slot
      <4> QED BY <4>1, <4>2, DelayType, DelayBound
    <3> HIDE DEF d
    <3>2. \/ /\ result.kind = "Success"
             /\ r = [Enter(x, "Ready") EXCEPT !.snapshot = result.snapshot,
                                             !.cached = FALSE, !.streak = 0]
          \/ r = Enter(ClearAccount(x), "Unavailable")
          \/ /\ r = [Enter(x, "Backoff") EXCEPT !.streak = @ + 1,
                                               !.until = time + d]
             /\ result.kind = "RateLimited"
          \/ r = [Enter(x, "Failed") EXCEPT !.streak = 0]
      BY <1>2 DEF Complete, Result, Failure, d
    <3>3. x \in Slot
      BY DEF Sound, Slot
    <3> HIDE DEF x, r
    <3>4. r.phase = "Backoff" => r.until = time + d /\ result.kind = "RateLimited"
      BY <3>2, <3>3 DEF Slot, Enter, ClearAccount
    <3>5. t = [r EXCEPT !.error = e]
      BY <1>2 DEF Completed, r
    <3>6. t.phase = r.phase /\ t.until = r.until
      BY <3>2, <3>3, <3>5 DEF Slot, Enter, ClearAccount
    <3>7. MaxRetryAfter \in Nat
      BY ProviderStateAssumption
    <3> QED BY <3>1, <3>4, <3>6, <3>7
  <2> HIDE DEF t
  <2> QED BY <2>1, <2>2, <2>3 DEF Calm, Settled, Cooling, t
<1> QED BY <1>1, <1>2

-----------------------------------------------------------------------------
(***************************************************************************)
(* The pipeline.                                                           *)
(***************************************************************************)
IndInv ==
  /\ TypeOK
  /\ NoForeignData
  /\ OneActivityEach
  /\ AlertsFollowAccount
  /\ OffHoldsNothing

\* The invariant in the form in which the lemmas about slots use it.
LEMMA SlotsAreSound ==
  ASSUME IndInv
  PROVE  \A p \in Provider : Sound(slot[p])
BY DEF IndInv, TypeOK, NoForeignData, OneActivityEach, Sound

LEMMA SlotsWereSound ==
  ASSUME slot \in [Provider -> Slot], \A p \in Provider : Sound(slot[p])
  PROVE  NoForeignData /\ OneActivityEach
BY DEF NoForeignData, OneActivityEach, Sound

-----------------------------------------------------------------------------
(* Initially.                                                              *)

LEMMA NewSlotSound ==
  ASSUME NEW source \in Source
  PROVE  /\ Sound(NewSlot(source))
         /\ HoldsNothing(NewSlot(source))
<1>1. 0 \in Nat /\ 1 \in Nat
  OBVIOUS
<1>2. NewSlot(source) \in Slot
  BY <1>1 DEF NewSlot, Slot, Phase, ErrorOwner
<1> QED BY <1>2 DEF NewSlot, Sound, OwnData, OneActivity, HoldsNothing

LEMMA NoWorkersType ==
  /\ NoWorker \in Worker
  /\ Equipped(NoWorker)
  /\ NoWorkers \in [Provider -> [Operation -> Worker]]
  /\ \A p \in Provider, o \in Operation : Equipped(NoWorkers[p][o])
<1>1. NoWorker \in Worker /\ Equipped(NoWorker)
  BY DEF NoWorker, Worker, Stage, Equipped
<1> QED BY <1>1 DEF NoWorkers

\* Init and Restart leave behind the same memory.
LEMMA FreshMemory ==
  /\ NewSlots \in [Provider -> Slot]
  /\ \A p \in Provider : Sound(NewSlots[p]) /\ HoldsNothing(NewSlots[p])
  /\ IdleUi \in Ui
<1>1. \A p \in Provider : DefaultSource[p] \in Source
  BY PollPipelineAssumption
<1>2. \A p \in Provider : NewSlots[p] = NewSlot(DefaultSource[p])
  BY DEF NewSlots
<1>3. NewSlots \in [Provider -> Slot]
  BY <1>1, NewSlotSound DEF NewSlots, Sound
<1>4. IdleUi \in Ui
  BY DEF IdleUi, Ui
<1> QED BY <1>1, <1>2, <1>3, <1>4, NewSlotSound

LEMMA InitInd == Init => IndInv
<1> SUFFICES ASSUME Init PROVE IndInv
  OBVIOUS
<1>1. TypeOK
  BY FreshMemory, NoWorkersType DEF Init, TypeOK
<1>2. NoForeignData /\ OneActivityEach
  BY <1>1, FreshMemory, SlotsWereSound DEF Init, TypeOK
<1>3. AlertsFollowAccount /\ OffHoldsNothing
  BY FreshMemory DEF Init, AlertsFollowAccount, OffHoldsNothing, HoldsNothing
<1> QED BY <1>1, <1>2, <1>3 DEF IndInv

LEMMA RestartInd ==
  ASSUME IndInv, Restart
  PROVE  IndInv'
<1>1. TypeOK'
  BY FreshMemory, NoWorkersType DEF Restart, IndInv, TypeOK
<1>2. NoForeignData' /\ OneActivityEach'
  BY FreshMemory DEF Restart, NoForeignData, OneActivityEach, Sound
<1>3. AlertsFollowAccount' /\ OffHoldsNothing'
  BY FreshMemory
     DEF Restart, AlertsFollowAccount, OffHoldsNothing, HoldsNothing
<1> QED BY <1>1, <1>2, <1>3 DEF IndInv

-----------------------------------------------------------------------------
(* Steps that leave the slots alone.                                       *)

LEMMA KeepSlots ==
  ASSUME IndInv, TypeOK', UNCHANGED <<slot, enabled, alerts>>
  PROVE  IndInv'
BY DEF IndInv, NoForeignData, OneActivityEach, AlertsFollowAccount,
       OffHoldsNothing

\* Replacing one worker.
LEMMA SetWorkerType ==
  ASSUME TypeOK, NEW p \in Provider, NEW o \in Operation, NEW w \in Worker,
         Equipped(w), SetWorker(p, o, w)
  PROVE  /\ worker' \in [Provider -> [Operation -> Worker]]
         /\ \A q \in Provider, i \in Operation : Equipped(worker'[q][i])
BY DEF TypeOK, SetWorker

LEMMA PostType ==
  ASSUME TypeOK, NEW e \in AppEvent, Post(e)
  PROVE  queue' \in Seq(AppEvent)
BY DEF TypeOK, Post

LEMMA WorkerStepInd ==
  ASSUME IndInv, NEW p \in Provider, NEW o \in Operation, WorkerStep(p, o)
  PROVE  IndInv'
<1> DEFINE w == worker[p][o]
<1>1. TypeOK /\ w \in Worker /\ Equipped(w)
  BY DEF IndInv, TypeOK
<1>2. CASE WorkerPrepares(p, o)
  <2>1. PICK account \in Account, source \in Sources[p] :
          /\ Post([kind |-> "Prepared", provider |-> p, prep |-> w.prep,
                   account |-> account, source |-> source])
          /\ SetWorker(p, o, [NoWorker EXCEPT !.stage = "waiting",
                                              !.account = account,
                                              !.source = source])
    BY <1>2 DEF WorkerPrepares
  <2>2. source \in Source /\ w.prep \in Preparation
    BY <1>1, <1>2, PollPipelineAssumption DEF WorkerPrepares, Equipped
  <2>3. queue' \in Seq(AppEvent)
    BY <1>1, <2>1, <2>2, PostType DEF AppEvent, PreparedEvent
  <2> DEFINE x == [NoWorker EXCEPT !.stage = "waiting", !.account = account,
                                   !.source = source]
  <2>4. x \in Worker /\ Equipped(x)
    BY <2>2 DEF NoWorker, Worker, Stage, Equipped
  <2> HIDE DEF x
  <2>5. SetWorker(p, o, x)
    BY <2>1 DEF x
  <2>6. TypeOK'
    BY <1>1, <1>2, <2>3, <2>4, <2>5, SetWorkerType DEF WorkerPrepares, TypeOK
  <2> QED BY <1>2, <2>6, KeepSlots DEF WorkerPrepares
<1>3. CASE WorkerFailsToPrepare(p, o)
  <2>1. PICK invalidates \in BOOLEAN :
          Post([kind |-> "PreparationFailed", provider |-> p,
                prep |-> w.prep, invalidates |-> invalidates])
    BY <1>3 DEF WorkerFailsToPrepare
  <2>2. queue' \in Seq(AppEvent)
    BY <1>1, <1>3, <2>1, PostType
       DEF WorkerFailsToPrepare, Equipped, AppEvent, PreparationFailedEvent
  <2>3. TypeOK'
    BY <1>1, <1>3, <2>2, SetWorkerType, NoWorkersType
       DEF WorkerFailsToPrepare, TypeOK
  <2> QED BY <1>3, <2>3, KeepSlots DEF WorkerFailsToPrepare
<1>4. CASE WorkerReceives(p, o)
  <2>1. PICK x \in Worker : Equipped(x) /\ SetWorker(p, o, x)
    <3>1. CASE w.stage = "granted"
      <4> DEFINE x == [w EXCEPT !.stage = "executing"]
      <4>1. x \in Worker /\ Equipped(x)
        BY <1>1, <3>1 DEF Worker, Stage, Equipped
      <4> QED BY <1>4, <3>1, <4>1 DEF WorkerReceives
    <3>2. CASE w.stage = "refused"
      BY <1>4, <3>2, NoWorkersType DEF WorkerReceives
    <3> QED BY <1>4, <3>1, <3>2 DEF WorkerReceives
  <2>2. TypeOK'
    BY <1>1, <1>4, <2>1, SetWorkerType DEF WorkerReceives, TypeOK
  <2> QED BY <1>4, <2>2, KeepSlots DEF WorkerReceives
<1>5. CASE WorkerTimesOut(p, o)
  <2>1. PICK x \in Worker : Equipped(x) /\ SetWorker(p, o, x)
    <3> DEFINE x == [w EXCEPT !.stage = "expired"]
    <3>1. x \in Worker /\ Equipped(x)
      BY <1>1, <1>5 DEF WorkerTimesOut, Worker, Stage, Equipped
    <3> QED BY <1>5, <3>1, NoWorkersType DEF WorkerTimesOut
  <2>2. TypeOK'
    BY <1>1, <1>5, <2>1, SetWorkerType DEF WorkerTimesOut, TypeOK
  <2> QED BY <1>5, <2>2, KeepSlots DEF WorkerTimesOut
<1>6. CASE WorkerHangsUp(p, o)
  <2>1. TypeOK'
    BY <1>1, <1>6, NoWorkersType, SetWorkerType DEF WorkerHangsUp, TypeOK
  <2> QED BY <1>6, <2>1, KeepSlots DEF WorkerHangsUp
<1>7. CASE WorkerCompletes(p, o)
  <2>1. PICK result \in Outcomes(w) :
          Post([kind |-> "Completed", provider |-> p, ticket |-> w.ticket,
                result |-> result])
    BY <1>7 DEF WorkerCompletes
  <2>2. /\ w.ticket \in Ticket /\ w.account \in Account /\ w.source \in Source
    BY <1>1, <1>7 DEF WorkerCompletes, Equipped
  <2>3. result \in Result
    <3> DEFINE own == [account |-> w.account, source |-> w.source]
    <3>1. own \in Snapshot
      BY <2>2 DEF Snapshot
    <3> HIDE DEF own
    <3>2. \/ result \in [kind: {"Success"}, retryAfter: {None}, snapshot: {own}]
          \/ result \in [kind: {"RateLimited"}, retryAfter: RetryAfter,
                         snapshot: {None}]
          \/ result \in [kind: {"Authentication", "Transient"},
                         retryAfter: {None}, snapshot: {None}]
      BY <2>1 DEF Outcomes, own
    <3>3. RetryAfter \subseteq Nat \cup {None}
      BY PollPipelineAssumption
    <3> QED BY <3>1, <3>2, <3>3 DEF Result, Failure
  <2>4. queue' \in Seq(AppEvent)
    BY <1>1, <2>1, <2>2, <2>3, PostType DEF AppEvent, CompletedEvent
  <2>5. TypeOK'
    BY <1>1, <1>7, <2>4, NoWorkersType, SetWorkerType
       DEF WorkerCompletes, TypeOK
  <2> QED BY <1>7, <2>5, KeepSlots DEF WorkerCompletes
<1> QED BY <1>2, <1>3, <1>4, <1>5, <1>6, <1>7 DEF WorkerStep

LEMMA TakeEventsInd ==
  ASSUME IndInv, WakeUp \/ PollTimer
  PROVE  IndInv'
<1>1. ui' \in Ui
  BY DEF IndInv, TypeOK, WakeUp, PollTimer, Ui
<1>2. queue' \in Seq(AppEvent) /\ batch' \in Seq(AppEvent)
  <2>1. queue' = <<>> /\ batch' = queue
    BY DEF WakeUp, PollTimer
  <2>2. queue \in Seq(AppEvent)
    BY DEF IndInv, TypeOK
  <2> QED BY <2>1, <2>2
<1>3. UNCHANGED <<slot, worker, enabled, cache, alerts, now>>
  BY DEF WakeUp, PollTimer
<1>4. TypeOK'
  BY <1>1, <1>2, <1>3 DEF IndInv, TypeOK
<1> QED BY <1>3, <1>4, KeepSlots

LEMMA TimePassesInd ==
  ASSUME IndInv, TimePasses
  PROVE  IndInv'
<1>1. TypeOK'
  BY DEF IndInv, TypeOK, TimePasses
<1> QED BY <1>1, KeepSlots DEF TimePasses

LEMMA StutterInd ==
  ASSUME IndInv, UNCHANGED vars
  PROVE  IndInv'
<1>1. TypeOK'
  BY DEF IndInv, TypeOK, vars
<1> QED BY <1>1, KeepSlots DEF vars

-----------------------------------------------------------------------------
(* Steps of the user and of the window procedure.                          *)

\* Asking for fresh values changes no owner, and no slot that is not asked.
LEMMA RefreshSound ==
  ASSUME TypeOK, NEW slots \in [Provider -> Slot],
         \A p \in Provider : Sound(slots[p]),
         NEW S \in SUBSET Provider, NEW trigger \in Trigger,
         Refresh(slots, S, trigger)
  PROVE  /\ slot' \in [Provider -> Slot]
         /\ \A p \in Provider : /\ Sound(slot'[p])
                                /\ slot'[p].account = slots[p].account
                                /\ p \notin S => slot'[p] = slots[p]
         /\ worker' \in [Provider -> [Operation -> Worker]]
         /\ \A p \in Provider, o \in Operation : Equipped(worker'[p][o])
<1> DEFINE on(p) == Enable(slots[p], TRUE)
           spawns == {p \in S : /\ CanReserve(on(p), trigger, now)
                                /\ slots[p].nextOperation <= MaxOperations}
           started(p) == [NoWorker EXCEPT
                            !.stage = "preparing",
                            !.prep = NextPreparation(on(p), trigger)]
<1>1. slot' = [p \in Provider |->
                 IF p \in spawns THEN Reserve(on(p), trigger)
                 ELSE IF p \in S THEN on(p) ELSE slots[p]]
  BY DEF Refresh
<1>2. worker' = [p \in Provider |->
                   IF p \in spawns
                   THEN [worker[p] EXCEPT ![slots[p].nextOperation] =
                           started(p)]
                   ELSE worker[p]]
  BY DEF Refresh
<1>3. now \in Nat
  BY DEF TypeOK
<1>4. ASSUME NEW p \in Provider
      PROVE  Sound(on(p)) /\ on(p).account = slots[p].account
  BY EnableSound
<1>5. ASSUME NEW p \in spawns
      PROVE  /\ p \in Provider
             /\ NextPreparation(on(p), trigger) \in Preparation
             /\ Sound(Reserve(on(p), trigger))
             /\ Reserve(on(p), trigger).account = slots[p].account
  BY <1>3, <1>4, ReserveSound
<1>6. ASSUME NEW p \in spawns
      PROVE  started(p) \in Worker /\ Equipped(started(p))
  <2> DEFINE q == NextPreparation(on(p), trigger)
  <2>1. q \in Preparation
    BY <1>5
  <2> HIDE DEF q
  <2>2. LET w == [NoWorker EXCEPT !.stage = "preparing", !.prep = q]
        IN  w \in Worker /\ Equipped(w)
    BY <2>1 DEF NoWorker, Worker, Stage, Equipped
  <2> QED BY <2>2 DEF q
<1> HIDE DEF on, spawns, started
<1>7. ASSUME NEW p \in Provider
      PROVE  /\ Sound(slot'[p])
             /\ slot'[p].account = slots[p].account
             /\ p \notin S => slot'[p] = slots[p]
  <2>1. CASE p \in spawns
    <3>1. slot'[p] = Reserve(on(p), trigger) /\ p \in S
      BY <1>1, <2>1 DEF spawns
    <3> QED BY <1>5, <2>1, <3>1
  <2>2. CASE p \notin spawns /\ p \in S
    BY <1>1, <1>4, <2>2
  <2>3. CASE p \notin spawns /\ p \notin S
    BY <1>1, <2>3
  <2> QED BY <2>1, <2>2, <2>3
<1>8. slot' \in [Provider -> Slot]
  <2>1. \A p \in Provider : slot'[p] \in Slot
    BY <1>7 DEF Sound
  <2> QED BY <1>1, <2>1
<1>9. ASSUME NEW p \in Provider
      PROVE  /\ worker'[p] \in [Operation -> Worker]
             /\ \A o \in Operation : Equipped(worker'[p][o])
  <2>1. /\ worker[p] \in [Operation -> Worker]
        /\ \A o \in Operation : Equipped(worker[p][o])
    BY DEF TypeOK
  <2>2. CASE p \in spawns
    <3>1. worker'[p] = [worker[p] EXCEPT ![slots[p].nextOperation] =
                          started(p)]
      BY <1>2, <2>2
    <3>2. started(p) \in Worker /\ Equipped(started(p))
      BY <1>6, <2>2
    <3> QED BY <2>1, <3>1, <3>2
  <2>3. CASE p \notin spawns
    BY <1>2, <2>1, <2>3
  <2> QED BY <2>2, <2>3
<1>10. worker' \in [Provider -> [Operation -> Worker]]
  BY <1>2, <1>9
<1> QED BY <1>7, <1>8, <1>9, <1>10

\* What is left to check of a step that refreshes some of the slots given.
LEMMA RefreshInd ==
  ASSUME IndInv, NEW slots \in [Provider -> Slot],
         \A p \in Provider : Sound(slots[p]),
         NEW S \in SUBSET Provider, NEW trigger \in Trigger,
         Refresh(slots, S, trigger),
         UNCHANGED <<queue, batch, now>>, ui' \in Ui,
         enabled' \in [Provider -> BOOLEAN],
         cache' \in [Provider -> CacheEntry \cup {None}],
         alerts' \in [Provider -> Account \cup {None}],
         \A p \in Provider : alerts'[p] = slots[p].account,
         \A p \in Provider \ Optional : enabled'[p],
         \A p \in Provider : \/ enabled'[p]
                             \/ p \notin S /\ HoldsNothing(slots[p])
  PROVE  IndInv'
<1>1. TypeOK
  BY DEF IndInv
<1>2. /\ slot' \in [Provider -> Slot]
      /\ \A p \in Provider : /\ Sound(slot'[p])
                             /\ slot'[p].account = slots[p].account
                             /\ p \notin S => slot'[p] = slots[p]
      /\ worker' \in [Provider -> [Operation -> Worker]]
      /\ \A p \in Provider, o \in Operation : Equipped(worker'[p][o])
  BY <1>1, RefreshSound
<1>3. TypeOK'
  BY <1>1, <1>2 DEF TypeOK
<1>4. NoForeignData' /\ OneActivityEach'
  BY <1>2 DEF NoForeignData, OneActivityEach, Sound
<1>5. AlertsFollowAccount'
  BY <1>2 DEF AlertsFollowAccount
<1>6. OffHoldsNothing'
  BY <1>2 DEF OffHoldsNothing
<1> QED BY <1>3, <1>4, <1>5, <1>6 DEF IndInv

LEMMA SaveCacheType ==
  ASSUME TypeOK, NEW p \in Provider, NEW entry \in CacheEntry \cup {None},
         SaveCache(p, entry)
  PROVE  cache' \in [Provider -> CacheEntry \cup {None}]
BY DEF TypeOK, SaveCache

\* What the lemmas below need of the state a refresh starts from.
LEMMA BeforeRefresh ==
  ASSUME IndInv
  PROVE  /\ TypeOK
         /\ slot \in [Provider -> Slot]
         /\ \A p \in Provider : Sound(slot[p])
         /\ \A p \in Provider : alerts[p] = slot[p].account
         /\ \A p \in Provider : enabled[p] \/ HoldsNothing(slot[p])
         /\ Enabled \in SUBSET Provider
         /\ \A p \in Enabled : enabled[p]
         /\ "Automatic" \in Trigger /\ "Manual" \in Trigger
BY SlotsAreSound
   DEF IndInv, TypeOK, AlertsFollowAccount, OffHoldsNothing, Enabled, Trigger

\* A refresh of enabled providers that touches nothing but the window state.
LEMMA PlainRefreshInd ==
  ASSUME IndInv, NEW S \in SUBSET Enabled, NEW trigger \in Trigger,
         Refresh(slot, S, trigger), ui' \in Ui,
         UNCHANGED <<queue, batch, enabled, cache, alerts, now>>
  PROVE  IndInv'
<1>1. S \in SUBSET Provider /\ \A p \in S : enabled[p]
  BY DEF Enabled
<1>2. /\ enabled \in [Provider -> BOOLEAN]
      /\ \A p \in Provider \ Optional : enabled[p]
      /\ cache \in [Provider -> CacheEntry \cup {None}]
      /\ alerts \in [Provider -> Account \cup {None}]
  BY DEF IndInv, TypeOK
<1> QED BY <1>1, <1>2, BeforeRefresh, RefreshInd

LEMMA RefreshAllInd ==
  ASSUME IndInv, RefreshAll
  PROVE  IndInv'
<1>1. PICK trigger \in Trigger : Refresh(slot, Enabled, trigger)
  BY DEF RefreshAll, Trigger
<1>2. ui' \in Ui
  BY DEF RefreshAll, IndInv, TypeOK
<1> QED BY <1>1, <1>2, PlainRefreshInd DEF RefreshAll

LEMMA OpenFlyoutInd ==
  ASSUME IndInv, OpenFlyout
  PROVE  IndInv'
<1>1. PICK S \in SUBSET Enabled : Refresh(slot, S, "Automatic")
  BY DEF OpenFlyout, RefreshForFlyout
<1>2. ui' \in Ui
  BY DEF OpenFlyout, IndInv, TypeOK
<1> QED BY <1>1, <1>2, PlainRefreshInd, BeforeRefresh DEF OpenFlyout

\* Invalidating one slot keeps all of them sound and leaves that one empty.
LEMMA InvalidatedSound ==
  ASSUME IndInv, NEW p \in Provider, NEW disabled \in BOOLEAN
  PROVE  LET slots == Invalidated(p, disabled)
         IN  /\ slots \in [Provider -> Slot]
             /\ \A q \in Provider : Sound(slots[q])
             /\ HoldsNothing(slots[p])
             /\ \A q \in Provider \ {p} : slots[q] = slot[q]
<1>1. /\ Sound(Invalidate(slot[p], disabled))
      /\ HoldsNothing(Invalidate(slot[p], disabled))
  BY BeforeRefresh, InvalidateSound
<1> QED BY <1>1, BeforeRefresh DEF Invalidated, Sound

LEMMA FinishLoginInd ==
  ASSUME IndInv, NEW p \in Provider, FinishLogin(p)
  PROVE  IndInv'
<1> DEFINE slots == Invalidated(p, FALSE)
<1>1. PICK S \in {{}, {p}} : Refresh(slots, S, "Automatic")
  BY DEF FinishLogin
<1>2. /\ slots \in [Provider -> Slot]
      /\ \A q \in Provider : Sound(slots[q])
      /\ HoldsNothing(slots[p])
      /\ \A q \in Provider \ {p} : slots[q] = slot[q]
  BY InvalidatedSound
<1> HIDE DEF slots
<1>3. alerts' = [alerts EXCEPT ![p] = None] /\ p \notin Optional
  BY DEF FinishLogin
<1>4. /\ alerts' \in [Provider -> Account \cup {None}]
      /\ \A q \in Provider : alerts'[q] = slots[q].account
  BY <1>2, <1>3, BeforeRefresh DEF TypeOK, HoldsNothing
<1>5. cache' \in [Provider -> CacheEntry \cup {None}]
  BY BeforeRefresh, SaveCacheType DEF FinishLogin
<1>6. /\ UNCHANGED <<queue, batch, ui, enabled, now>>
      /\ ui' \in Ui
      /\ enabled' \in [Provider -> BOOLEAN]
      /\ \A q \in Provider \ Optional : enabled'[q]
  BY DEF FinishLogin, IndInv, TypeOK
<1>7. \A q \in Provider : \/ enabled'[q]
                          \/ q \notin S /\ HoldsNothing(slots[q])
  BY <1>2, <1>3, <1>6, BeforeRefresh
<1>8. S \in SUBSET Provider
  OBVIOUS
<1> QED BY <1>1, <1>2, <1>4, <1>5, <1>6, <1>7, <1>8, BeforeRefresh, RefreshInd

LEMMA SwitchOffInd ==
  ASSUME IndInv, NEW p \in Provider, SwitchOff(p)
  PROVE  IndInv'
<1>1. /\ slot' = Invalidated(p, TRUE)
      /\ enabled' = [enabled EXCEPT ![p] = FALSE]
      /\ alerts' = [alerts EXCEPT ![p] = None]
      /\ UNCHANGED <<worker, queue, batch, ui, cache, now>>
      /\ p \in Optional
  BY DEF SwitchOff
<1>2. /\ slot' \in [Provider -> Slot]
      /\ \A q \in Provider : Sound(slot'[q])
      /\ HoldsNothing(slot'[p])
      /\ \A q \in Provider \ {p} : slot'[q] = slot[q]
  BY <1>1, InvalidatedSound
<1>3. TypeOK'
  BY <1>1, <1>2 DEF IndInv, TypeOK
<1>4. NoForeignData' /\ OneActivityEach'
  BY <1>2 DEF NoForeignData, OneActivityEach, Sound
<1>5. AlertsFollowAccount'
  BY <1>1, <1>2, BeforeRefresh DEF AlertsFollowAccount, HoldsNothing, TypeOK
<1>6. OffHoldsNothing'
  BY <1>1, <1>2, BeforeRefresh DEF OffHoldsNothing, TypeOK
<1> QED BY <1>3, <1>4, <1>5, <1>6 DEF IndInv

LEMMA SwitchOnInd ==
  ASSUME IndInv, NEW p \in Provider, SwitchOn(p)
  PROVE  IndInv'
<1>1. /\ Refresh(slot, {p}, "Manual")
      /\ enabled' = [enabled EXCEPT ![p] = TRUE]
      /\ UNCHANGED <<queue, batch, ui, cache, alerts, now>>
  BY DEF SwitchOn
<1>2. /\ enabled' \in [Provider -> BOOLEAN]
      /\ \A q \in Provider \ Optional : enabled'[q]
      /\ \A q \in Provider : \/ enabled'[q]
                             \/ q \notin {p} /\ HoldsNothing(slot[q])
      /\ cache' \in [Provider -> CacheEntry \cup {None}]
      /\ alerts' \in [Provider -> Account \cup {None}]
      /\ ui' \in Ui
  BY <1>1, BeforeRefresh DEF TypeOK
<1>3. /\ {p} \in SUBSET Provider
      /\ \A q \in Provider : alerts'[q] = slot[q].account
  BY <1>1, BeforeRefresh
<1> QED BY <1>1, <1>2, <1>3, BeforeRefresh, RefreshInd

LEMMA SwitchSourceInd ==
  ASSUME IndInv, NEW p \in Provider, SwitchSource(p)
  PROVE  IndInv'
<1>1. /\ alerts' = [alerts EXCEPT ![p] = None]
      /\ UNCHANGED <<queue, batch, ui, enabled, now>>
  BY DEF SwitchSource
<1>2. alerts' \in [Provider -> Account \cup {None}]
  BY <1>1, BeforeRefresh DEF TypeOK
<1>3. CASE enabled[p]
  <2> DEFINE slots == Invalidated(p, FALSE)
  <2>1. Refresh(slots, {p}, "Manual")
    BY <1>3 DEF SwitchSource
  <2>2. /\ slots \in [Provider -> Slot]
        /\ \A q \in Provider : Sound(slots[q])
        /\ HoldsNothing(slots[p])
        /\ \A q \in Provider \ {p} : slots[q] = slot[q]
    BY InvalidatedSound
  <2> HIDE DEF slots
  <2>3. cache' \in [Provider -> CacheEntry \cup {None}]
    BY <1>3, BeforeRefresh, SaveCacheType DEF SwitchSource
  <2>4. \A q \in Provider : alerts'[q] = slots[q].account
    BY <1>1, <2>2, BeforeRefresh DEF HoldsNothing, TypeOK
  <2>5. \A q \in Provider : \/ enabled'[q]
                            \/ q \notin {p} /\ HoldsNothing(slots[q])
    BY <1>1, <1>3, <2>2, BeforeRefresh
  <2>6. /\ ui' \in Ui
        /\ enabled' \in [Provider -> BOOLEAN]
        /\ \A q \in Provider \ Optional : enabled'[q]
        /\ {p} \in SUBSET Provider
    BY <1>1 DEF IndInv, TypeOK
  <2> QED BY <1>1, <1>2, <2>1, <2>2, <2>3, <2>4, <2>5, <2>6, BeforeRefresh,
             RefreshInd
<1>4. CASE ~enabled[p]
  <2>1. slot' = Invalidated(p, TRUE) /\ UNCHANGED <<worker, cache>>
    BY <1>4 DEF SwitchSource
  <2>2. /\ slot' \in [Provider -> Slot]
        /\ \A q \in Provider : Sound(slot'[q])
        /\ HoldsNothing(slot'[p])
        /\ \A q \in Provider \ {p} : slot'[q] = slot[q]
    BY <2>1, InvalidatedSound
  <2>3. TypeOK'
    BY <1>1, <1>2, <2>1, <2>2 DEF IndInv, TypeOK
  <2>4. NoForeignData' /\ OneActivityEach'
    BY <2>2 DEF NoForeignData, OneActivityEach, Sound
  <2>5. AlertsFollowAccount'
    BY <1>1, <2>2, BeforeRefresh DEF AlertsFollowAccount, HoldsNothing, TypeOK
  <2>6. OffHoldsNothing'
    BY <1>1, <2>2, BeforeRefresh DEF OffHoldsNothing
  <2> QED BY <2>3, <2>4, <2>5, <2>6 DEF IndInv
<1> QED BY <1>3, <1>4

-----------------------------------------------------------------------------
(* Handling one event of a drain.                                          *)

\* Taking the first event off the batch.
LEMMA HandlingType ==
  ASSUME TypeOK, NEW kind, Handling(kind)
  PROVE  /\ Head(batch) \in AppEvent
         /\ Head(batch).kind = kind
         /\ batch' \in Seq(AppEvent)
<1>1. batch \in Seq(AppEvent) /\ batch # <<>>
  BY DEF TypeOK, Handling
<1>2. Head(batch) \in AppEvent /\ Tail(batch) \in Seq(AppEvent)
  BY <1>1, HeadTailProperties
<1> QED BY <1>2 DEF Handling

\* What the runtime cache restores, and what is saved to it.
LEMMA RestoredForType ==
  ASSUME TypeOK, NEW p \in Provider, NEW account \in Account,
         NEW source \in Source, NEW fresh \in BOOLEAN
  PROVE  RestoredFor(p, account, source, fresh) \in Restored
<1> DEFINE entry == cache[p]
           matches == /\ entry # None
                      /\ account \in Persistent
                      /\ entry.account = account
                      /\ entry.source = source
<1>1. matches => /\ entry.snapshot \in Snapshot \cup {None}
                 /\ entry.retryAt \in Nat \cup {None}
  BY DEF TypeOK, CacheEntry
<1> QED BY <1>1 DEF RestoredFor, Restored

LEMMA EntryOfType ==
  ASSUME NEW s \in Slot, now \in Nat
  PROVE  EntryOf(s) \in CacheEntry \cup {None}
<1>1. CASE s.account \in Persistent
  <2>1. s.account \in Account
    BY <1>1, PollPipelineAssumption
  <2>2. (IF Cooling(s, now) THEN s.until ELSE None) \in Nat \cup {None}
    BY DEF Slot
  <2> QED BY <1>1, <2>1, <2>2 DEF EntryOf, CacheEntry, Slot
<1>2. CASE s.account \notin Persistent
  BY <1>2 DEF EntryOf
<1> QED BY <1>1, <1>2

\* What is left to check of a step that replaces the slot of one provider,
\* which is not switched off unless the slot is left as it was.
LEMMA OneSlotInd ==
  ASSUME IndInv, TypeOK', NEW p \in Provider, NEW s \in Slot, Sound(s),
         slot' = [slot EXCEPT ![p] = s], UNCHANGED enabled,
         s = slot[p] \/ ~HoldsNothing(slot[p]),
         alerts' = [alerts EXCEPT ![p] = s.account]
  PROVE  IndInv'
<1>1. /\ \A q \in Provider : Sound(slot'[q])
      /\ slot'[p] = s
      /\ \A q \in Provider \ {p} : slot'[q] = slot[q]
  BY BeforeRefresh
<1>2. NoForeignData' /\ OneActivityEach'
  BY <1>1 DEF NoForeignData, OneActivityEach, Sound
<1>3. AlertsFollowAccount'
  BY <1>1, BeforeRefresh DEF AlertsFollowAccount, TypeOK
<1>4. OffHoldsNothing'
  BY <1>1, BeforeRefresh DEF OffHoldsNothing
<1> QED BY <1>2, <1>3, <1>4 DEF IndInv

LEMMA HandlePreparedInd ==
  ASSUME IndInv, HandlePrepared
  PROVE  IndInv'
<1> DEFINE e == Head(batch)
           p == e.provider
<1>1. TypeOK
  BY DEF IndInv
<1>2. e \in AppEvent /\ e.kind = "Prepared" /\ batch' \in Seq(AppEvent)
  BY <1>1, HandlingType DEF HandlePrepared
<1>3. /\ p \in Provider /\ e.prep \in Preparation /\ e.account \in Account
      /\ e.source \in Source
  BY <1>2 DEF AppEvent, PreparedEvent, PreparationFailedEvent, CompletedEvent
<1> DEFINE restored(fresh) == RestoredFor(p, e.account, e.source, fresh)
           next(fresh) == IF Matches(slot[p], e.prep)
                          THEN Prepared(slot[p], e.prep, e.account, e.source,
                                        restored(fresh), now)
                          ELSE [slot |-> slot[p], ticket |-> None]
           switched(fresh) ==
             next(fresh).slot.generation # slot[p].generation
<1>4. PICK fresh \in BOOLEAN :
        /\ slot' = [slot EXCEPT ![p] = next(fresh).slot]
        /\ alerts' = IF switched(fresh)
                     THEN [alerts EXCEPT ![p] = e.account]
                     ELSE alerts
        /\ ui' = [ui EXCEPT
                    !.changed = @ \/ switched(fresh)
                                  \/ next(fresh).ticket # None,
                    !.reply = [provider |-> p, operation |-> e.prep.operation,
                               ticket |-> next(fresh).ticket]]
  BY DEF HandlePrepared
<1> DEFINE s == next(fresh).slot
           ticket == next(fresh).ticket
<1>5. restored(fresh) \in Restored /\ now \in Nat
  BY <1>1, <1>3, RestoredForType DEF TypeOK
<1>6. /\ Sound(s) /\ ticket \in Ticket \cup {None}
      /\ s = slot[p] \/ (slot[p].pending # None /\ s.account = e.account)
      /\ ~switched(fresh) => s.account = slot[p].account
  <2> HIDE DEF e, p, restored
  <2>1. CASE Matches(slot[p], e.prep)
    <3>1. slot[p].pending # None
      BY <2>1 DEF Matches
    <3>2. next(fresh) = Prepared(slot[p], e.prep, e.account, e.source,
                                 restored(fresh), now)
      BY <2>1
    <3> QED BY <1>3, <1>5, <3>1, <3>2, BeforeRefresh, PreparedSound
  <2>2. CASE ~Matches(slot[p], e.prep)
    BY <1>3, <2>2, BeforeRefresh
  <2> QED BY <2>1, <2>2
<1>7. s \in Slot
  BY <1>6 DEF Sound
<1> HIDE DEF e, p, restored, next, switched
<1>8. alerts' = [alerts EXCEPT ![p] = s.account]
  <2>1. alerts[p] = slot[p].account /\ alerts \in [Provider -> Account \cup {None}]
    BY <1>1, <1>3, BeforeRefresh DEF TypeOK
  <2>2. CASE switched(fresh)
    <3>1. s.account = e.account
      BY <1>6, <2>2 DEF switched
    <3> QED BY <1>4, <2>2, <3>1
  <2>3. CASE ~switched(fresh)
    <3>1. alerts' = alerts /\ s.account = alerts[p]
      BY <1>4, <1>6, <2>1, <2>3
    <3> QED BY <2>1, <3>1
  <2> QED BY <2>2, <2>3
<1>9. ui' \in Ui
  <2>1. [provider |-> p, operation |-> e.prep.operation, ticket |-> ticket]
          \in Reply
    BY <1>3, <1>6 DEF Reply, Preparation
  <2>2. (ui.changed \/ switched(fresh) \/ ticket # None) \in BOOLEAN
    OBVIOUS
  <2> QED BY <1>1, <1>4, <2>1, <2>2, Zenon DEF TypeOK, Ui
<1>10. UNCHANGED <<worker, queue, enabled, cache, now>>
  BY DEF HandlePrepared
<1>11. TypeOK'
  <2>1. slot' \in [Provider -> Slot]
    BY <1>1, <1>4, <1>7 DEF TypeOK
  <2>2. alerts' \in [Provider -> Account \cup {None}]
    BY <1>1, <1>7, <1>8 DEF TypeOK, Slot
  <2> QED BY <1>1, <1>2, <1>9, <1>10, <2>1, <2>2 DEF TypeOK
<1>12. s = slot[p] \/ ~HoldsNothing(slot[p])
  BY <1>6 DEF HoldsNothing
<1> HIDE DEF s
<1> QED BY <1>3, <1>4, <1>6, <1>7, <1>8, <1>10, <1>11, <1>12, OneSlotInd DEF s

LEMMA HandlePreparationFailedInd ==
  ASSUME IndInv, HandlePreparationFailed
  PROVE  IndInv'
<1> DEFINE e == Head(batch)
           p == e.provider
           s == PreparationFailed(slot[p], e.invalidates, now)
<1>1. TypeOK
  BY DEF IndInv
<1>2. /\ e \in AppEvent /\ e.kind = "PreparationFailed"
      /\ batch' \in Seq(AppEvent)
  BY <1>1, HandlingType DEF HandlePreparationFailed
<1>3. p \in Provider /\ e.prep \in Preparation /\ e.invalidates \in BOOLEAN
  BY <1>2 DEF AppEvent, PreparedEvent, PreparationFailedEvent, CompletedEvent
<1>4. UNCHANGED <<worker, queue, enabled, now>> /\ now \in Nat
  BY <1>1 DEF HandlePreparationFailed, TypeOK
<1>5. CASE ~Matches(slot[p], e.prep)
  <2>1. UNCHANGED <<slot, ui, alerts, cache>>
    BY <1>5 DEF HandlePreparationFailed
  <2>2. TypeOK'
    BY <1>1, <1>2, <1>4, <2>1 DEF TypeOK
  <2> QED BY <1>4, <2>1, <2>2, KeepSlots
<1>6. CASE Matches(slot[p], e.prep)
  <2>1. /\ slot' = [slot EXCEPT ![p] = s]
        /\ ui' = [ui EXCEPT !.changed = TRUE]
        /\ \/ /\ e.invalidates /\ alerts' = [alerts EXCEPT ![p] = None]
              /\ SaveCache(p, None)
           \/ ~e.invalidates /\ UNCHANGED <<alerts, cache>>
    BY <1>6 DEF HandlePreparationFailed
  <2>2. slot[p].pending # None
    BY <1>6 DEF Matches
  <2> HIDE DEF e, p
  <2>3. /\ Sound(s)
        /\ s.account = IF e.invalidates THEN None ELSE slot[p].account
    BY <1>3, <1>4, <2>2, BeforeRefresh, PreparationFailedSound
  <2> HIDE DEF s
  <2>4. s \in Slot
    BY <2>3 DEF Sound
  <2>5. alerts' = [alerts EXCEPT ![p] = s.account]
    BY <1>1, <1>3, <2>1, <2>3, BeforeRefresh DEF TypeOK
  <2>6. cache' \in [Provider -> CacheEntry \cup {None}]
    BY <1>1, <1>3, <2>1, SaveCacheType DEF TypeOK
  <2>7. ui' \in Ui
    BY <1>1, <2>1, Zenon DEF TypeOK, Ui
  <2>8. TypeOK'
    <3>1. slot' \in [Provider -> Slot]
      BY <1>1, <2>1, <2>4 DEF TypeOK
    <3>2. alerts' \in [Provider -> Account \cup {None}]
      BY <1>1, <2>4, <2>5 DEF TypeOK, Slot
    <3> QED BY <1>1, <1>2, <1>4, <2>6, <2>7, <3>1, <3>2 DEF TypeOK
  <2> QED BY <1>3, <1>4, <2>1, <2>2, <2>3, <2>4, <2>5, <2>8, OneSlotInd
          DEF HoldsNothing
<1> QED BY <1>5, <1>6

LEMMA HandleCompletedInd ==
  ASSUME IndInv, HandleCompleted
  PROVE  IndInv'
<1> DEFINE e == Head(batch)
           p == e.provider
           s == Completed(slot[p], e.ticket, e.result, now)
<1>1. TypeOK
  BY DEF IndInv
<1>2. e \in AppEvent /\ e.kind = "Completed" /\ batch' \in Seq(AppEvent)
  BY <1>1, HandlingType DEF HandleCompleted
<1>3. p \in Provider /\ e.ticket \in Ticket /\ e.result \in Result
  BY <1>2 DEF AppEvent, PreparedEvent, PreparationFailedEvent, CompletedEvent
<1>4. UNCHANGED <<worker, queue, enabled, now>> /\ now \in Nat
  BY <1>1 DEF HandleCompleted, TypeOK
<1>5. CASE ~Accepts(slot[p], e.ticket, e.result)
  <2>1. UNCHANGED <<slot, ui, cache, alerts>>
    BY <1>5 DEF HandleCompleted
  <2>2. TypeOK'
    BY <1>1, <1>2, <1>4, <2>1 DEF TypeOK
  <2> QED BY <1>4, <2>1, <2>2, KeepSlots
<1>6. CASE Accepts(slot[p], e.ticket, e.result)
  <2>1. /\ slot' = [slot EXCEPT ![p] = s]
        /\ ui' = [ui EXCEPT !.changed = TRUE]
        /\ \/ s.account # None /\ SaveCache(p, EntryOf(s)) /\ UNCHANGED alerts
           \/ /\ s.account = None /\ SaveCache(p, None)
              /\ alerts' = [alerts EXCEPT ![p] = None]
    BY <1>6 DEF HandleCompleted
  <2>2. slot[p].phase = "Fetching"
    BY <1>6 DEF Accepts, Live
  <2> HIDE DEF e, p
  <2>3. Sound(s) /\ (s.account # None => s.account = slot[p].account)
    BY <1>3, <1>4, BeforeRefresh, CompletedSound
  <2> HIDE DEF s
  <2>4. s \in Slot
    BY <2>3 DEF Sound
  <2>5. alerts' = [alerts EXCEPT ![p] = s.account]
    BY <1>1, <1>3, <2>1, <2>3, BeforeRefresh DEF TypeOK
  <2>6. cache' \in [Provider -> CacheEntry \cup {None}]
    BY <1>1, <1>3, <1>4, <2>1, <2>4, SaveCacheType, EntryOfType
  <2>7. ui' \in Ui
    BY <1>1, <2>1, Zenon DEF TypeOK, Ui
  <2>8. TypeOK'
    <3>1. slot' \in [Provider -> Slot]
      BY <1>1, <2>1, <2>4 DEF TypeOK
    <3>2. alerts' \in [Provider -> Account \cup {None}]
      BY <1>1, <2>4, <2>5 DEF TypeOK, Slot
    <3> QED BY <1>1, <1>2, <1>4, <2>6, <2>7, <3>1, <3>2 DEF TypeOK
  <2> QED BY <1>3, <1>4, <2>1, <2>2, <2>3, <2>4, <2>5, <2>8, OneSlotInd
          DEF HoldsNothing
<1> QED BY <1>5, <1>6

LEMMA SendReplyInd ==
  ASSUME IndInv, SendReply
  PROVE  IndInv'
<1> DEFINE p == ui.reply.provider
           o == ui.reply.operation
           t == ui.reply.ticket
           w == worker[p][o]
           granted == [w EXCEPT
                         !.stage = IF t = None THEN "refused" ELSE "granted",
                         !.ticket = t]
           s == Completed(slot[p], t, Abandoned, now)
<1>1. TypeOK /\ now \in Nat
  BY DEF IndInv, TypeOK
<1>2. p \in Provider /\ t \in Ticket \cup {None}
  BY <1>1 DEF SendReply, TypeOK, Ui, Reply
<1>3. UNCHANGED <<queue, batch, enabled, cache, alerts, now>>
  BY DEF SendReply
<1>4. ui' \in Ui
  BY <1>1 DEF SendReply, TypeOK, Ui
<1>5. \/ UNCHANGED slot /\ w.stage = "waiting" /\ SetWorker(p, o, granted)
      \/ UNCHANGED <<slot, worker>>
      \/ /\ t # None /\ slot' = [slot EXCEPT ![p] = s]
         /\ UNCHANGED worker
  BY DEF SendReply, Unanswered
<1>6. CASE UNCHANGED slot /\ w.stage = "waiting" /\ SetWorker(p, o, granted)
  <2>1. CASE o \in Operation
    <3>1. w \in Worker /\ Equipped(w)
      BY <1>1, <1>2, <2>1 DEF TypeOK
    <3>2. granted \in Worker /\ Equipped(granted)
      <4> HIDE DEF w, t
      <4> QED BY <1>2, <1>6, <3>1 DEF Worker, Stage, Equipped
    <3>3. TypeOK'
      BY <1>1, <1>2, <1>3, <1>4, <1>6, <2>1, <3>2, SetWorkerType DEF TypeOK
    <3> QED BY <1>3, <1>6, <3>3, KeepSlots
  <2>2. CASE o \notin Operation
    <3> HIDE DEF p, o, granted
    <3>1. worker' = worker
      <4> DEFINE row == [worker[p] EXCEPT ![o] = granted]
      <4>1. worker \in [Provider -> [Operation -> Worker]]
        BY <1>1 DEF TypeOK
      <4>2. row = worker[p]
        BY <1>2, <2>2, <4>1
      <4>3. worker' = [worker EXCEPT ![p] = row]
        BY <1>6 DEF SetWorker
      <4> HIDE DEF row
      <4> QED BY <1>2, <4>1, <4>2, <4>3
    <3>2. TypeOK'
      BY <1>1, <1>3, <1>4, <1>6, <3>1 DEF TypeOK
    <3> QED BY <1>3, <1>6, <3>2, KeepSlots
  <2> QED BY <2>1, <2>2
<1>7. CASE UNCHANGED <<slot, worker>>
  <2>1. TypeOK'
    BY <1>1, <1>3, <1>4, <1>7 DEF TypeOK
  <2> QED BY <1>3, <1>7, <2>1, KeepSlots
<1>8. CASE /\ t # None /\ slot' = [slot EXCEPT ![p] = s]
           /\ UNCHANGED worker
  <2> HIDE DEF p, t
  <2>1. Abandoned \in Result
    BY DEF Abandoned, Result, Failure
  <2>2. /\ Sound(s)
        /\ s.account # None => s.account = slot[p].account
        /\ ~Accepts(slot[p], t, Abandoned) => s = slot[p]
    BY <1>1, <1>2, <1>8, <2>1, BeforeRefresh, CompletedSound
  <2>3. s.account = slot[p].account
    <3>1. CASE ~Accepts(slot[p], t, Abandoned)
      BY <2>2, <3>1
    <3>2. CASE Accepts(slot[p], t, Abandoned)
      <4> DEFINE x == [slot[p] EXCEPT !.lastAttempt = now]
                 y == [Enter(x, "Failed") EXCEPT !.streak = 0]
      <4>1. slot[p] \in Slot
        BY <1>2, BeforeRefresh
      <4>2. s = [y EXCEPT !.error = t.account]
        BY <3>2 DEF Completed, Complete, Abandoned
      <4> QED BY <4>1, <4>2 DEF Enter, Slot
    <3> QED BY <3>1, <3>2
  <2>4. s = slot[p] \/ ~HoldsNothing(slot[p])
    BY <2>2 DEF Accepts, Live, HoldsNothing
  <2> HIDE DEF s
  <2>5. s \in Slot
    BY <2>2 DEF Sound
  <2>6. alerts' = [alerts EXCEPT ![p] = s.account]
    BY <1>1, <1>2, <1>3, <2>3, BeforeRefresh DEF TypeOK
  <2>7. TypeOK'
    <3>1. slot' \in [Provider -> Slot]
      BY <1>1, <1>8, <2>5 DEF TypeOK
    <3> QED BY <1>1, <1>3, <1>4, <1>8, <3>1 DEF TypeOK
  <2> QED BY <1>2, <1>3, <1>8, <2>2, <2>4, <2>5, <2>6, <2>7, OneSlotInd
<1> QED BY <1>5, <1>6, <1>7, <1>8

LEMMA EndDrainInd ==
  ASSUME IndInv, EndDataReady \/ EndPoll
  PROVE  IndInv'
<1>1. /\ UNCHANGED <<queue, batch, enabled, cache, alerts, now>>
      /\ ui' \in Ui
  BY FreshMemory DEF EndDataReady, EndPoll, DrainEnds
<1>2. \/ UNCHANGED <<slot, worker>>
      \/ \E S \in SUBSET Enabled : Refresh(slot, S, "Automatic")
  BY DEF EndDataReady, EndPoll, RefreshForFlyout
<1>3. CASE UNCHANGED <<slot, worker>>
  <2>1. TypeOK'
    BY <1>1, <1>3 DEF IndInv, TypeOK
  <2> QED BY <1>1, <1>3, <2>1, KeepSlots
<1>4. CASE \E S \in SUBSET Enabled : Refresh(slot, S, "Automatic")
  BY <1>1, <1>4, PlainRefreshInd, BeforeRefresh
<1> QED BY <1>2, <1>3, <1>4

-----------------------------------------------------------------------------
(* The theorems.                                                           *)

LEMMA NextInd ==
  ASSUME IndInv, [Next]_vars
  PROVE  IndInv'
<1>1. CASE \E p \in Provider, o \in Operation : WorkerStep(p, o)
  BY <1>1, WorkerStepInd
<1>2. CASE WakeUp \/ PollTimer
  BY <1>2, TakeEventsInd
<1>3. CASE DrainStep
  BY <1>3, HandlePreparedInd, SendReplyInd, HandlePreparationFailedInd,
     HandleCompletedInd, EndDrainInd DEF DrainStep
<1>4. CASE UserStep
  BY <1>4, RefreshAllInd, OpenFlyoutInd, FinishLoginInd, SwitchOffInd,
     SwitchOnInd, SwitchSourceInd DEF UserStep
<1>5. CASE TimePasses
  BY <1>5, TimePassesInd
<1>6. CASE Restart
  BY <1>6, RestartInd
<1>7. CASE UNCHANGED vars
  BY <1>7, StutterInd
<1> QED BY <1>1, <1>2, <1>3, <1>4, <1>5, <1>6, <1>7 DEF Next

\* The inductive invariant holds in every state of the pipeline.
THEOREM Inductive == Spec => []IndInv
<1>1. Init => IndInv
  BY InitInd
<1>2. IndInv /\ [Next]_vars => IndInv'
  BY NextInd
<1> QED BY <1>1, <1>2, PTL DEF Spec

\* Every variable keeps its shape: in particular no reply, completion or cache
\* entry is ever without the ticket or the account it needs.
THEOREM TypeCorrect == Spec => []TypeOK
<1>1. IndInv => TypeOK
  BY DEF IndInv
<1> QED BY <1>1, Inductive, PTL

\* Usage and errors on display belong to the account the slot is bound to.
THEOREM Isolation == Spec => []NoForeignData
<1>1. IndInv => NoForeignData
  BY DEF IndInv
<1> QED BY <1>1, Inductive, PTL

\* A slot waits for one thing at a time, of its current generation.
THEOREM OneThingAtATime == Spec => []OneActivityEach
<1>1. IndInv => OneActivityEach
  BY DEF IndInv
<1> QED BY <1>1, Inductive, PTL

\* alerts.rs is told of every switch of account.
THEOREM ReceiptsFollow == Spec => []AlertsFollowAccount
<1>1. IndInv => AlertsFollowAccount
  BY DEF IndInv
<1> QED BY <1>1, Inductive, PTL

\* A provider that is switched off shows, fetches and prepares nothing.
THEOREM OffIsOff == Spec => []OffHoldsNothing
<1>1. IndInv => OffHoldsNothing
  BY DEF IndInv
<1> QED BY <1>1, Inductive, PTL

-----------------------------------------------------------------------------
(***************************************************************************)
(* The pipeline implements module ProviderSession for every provider: each *)
(* step is, seen through the refinement mapping of module PollPipeline, a  *)
(* step of the provider's session or no step at all.  The invariant        *)
(* supplies what the mapping needs of the state before a step.             *)
(***************************************************************************)

\* Two slots a user could not tell apart, but for what is under way.
SameShown(s, t) == t.account = s.account /\ ShownAccount(t) = ShownAccount(s)

\* The step from slot s to slot t, as one of the actions of ProviderSession.
SessionStays(s, t) == SameShown(s, t) /\ ActivityOf(t) = ActivityOf(s)

SessionAsks(s, t) ==
  SameShown(s, t) /\ ActivityOf(s) = "idle" /\ ActivityOf(t) = "preparing"

SessionAdopts(s, t) ==
  /\ ActivityOf(s) = "preparing"
  /\ t.account \in Account
  /\ ShownAccount(t) \in {None, t.account}
  /\ ActivityOf(t) \in {"idle", "fetching"}

SessionGivesUp(s, t) ==
  SameShown(s, t) /\ ActivityOf(s) = "preparing" /\ ActivityOf(t) = "idle"

SessionAnswers(s, t) ==
  /\ ActivityOf(s) = "fetching"
  /\ ActivityOf(t) = "idle"
  /\ ShownAccount(t) \in {ShownAccount(s), s.account}
  /\ t.account = s.account

SessionLeaves(t) ==
  /\ t.account = None
  /\ ShownAccount(t) = None
  /\ ActivityOf(t) \in {"idle", "preparing"}

SessionStep(s, t) ==
  \/ SessionStays(s, t)
  \/ SessionAsks(s, t)
  \/ SessionAdopts(s, t)
  \/ SessionGivesUp(s, t)
  \/ SessionAnswers(s, t)
  \/ SessionLeaves(t)

LEMMA SessionStepIsStep ==
  ASSUME NEW p \in Provider, SessionStep(slot[p], slot'[p])
  PROVE  [Session(p)!Next]_(Session(p)!vars)
<1>1. CASE SessionStays(slot[p], slot'[p])
  BY <1>1 DEF SessionStays, SameShown, Session!vars
<1>2. CASE SessionAsks(slot[p], slot'[p])
  BY <1>2 DEF SessionAsks, SameShown, Session!Next, Session!Ask
<1>3. CASE SessionAdopts(slot[p], slot'[p])
  BY <1>3 DEF SessionAdopts, Session!Next, Session!Adopt
<1>4. CASE SessionGivesUp(slot[p], slot'[p])
  BY <1>4 DEF SessionGivesUp, SameShown, Session!Next, Session!GiveUp
<1>5. CASE SessionAnswers(slot[p], slot'[p])
  BY <1>5 DEF SessionAnswers, Session!Next, Session!Answer
<1>6. CASE SessionLeaves(slot'[p])
  BY <1>6 DEF SessionLeaves, Session!Next, Session!Leave
<1> QED BY <1>1, <1>2, <1>3, <1>4, <1>5, <1>6 DEF SessionStep

-----------------------------------------------------------------------------
(* What a refresh and an invalidation look like.                           *)

\* A refresh asks, or is not noticed.
LEMMA RefreshAsks ==
  ASSUME NEW slots \in [Provider -> Slot],
         \A p \in Provider : Sound(slots[p]), now \in Nat,
         NEW S \in SUBSET Provider, NEW trigger \in Trigger,
         Refresh(slots, S, trigger),
         NEW p \in Provider
  PROVE  SessionStays(slots[p], slot'[p]) \/ SessionAsks(slots[p], slot'[p])
<1> DEFINE s == slots[p]
           on == Enable(s, TRUE)
           t == Reserve(on, trigger)
<1>1. \/ slot'[p] = t /\ CanReserve(on, trigger, now)
      \/ slot'[p] = on
      \/ slot'[p] = s
  BY DEF Refresh
<1>2. /\ Sound(on)
      /\ on.account = s.account /\ on.snapshot = s.snapshot
      /\ on.pending = s.pending
      /\ on.phase = "Fetching" <=> s.phase = "Fetching"
  BY EnableSound
<1>3. CASE slot'[p] = t /\ CanReserve(on, trigger, now)
  <2> HIDE DEF on
  <2>1. /\ NextPreparation(on, trigger) \in Preparation
        /\ t.account = on.account /\ t.snapshot = on.snapshot
        /\ on.pending = None /\ on.phase # "Fetching"
    BY <1>2, <1>3, ReserveSound
  <2>2. t.pending = NextPreparation(on, trigger)
    BY <1>2 DEF Reserve, Sound, Slot
  <2>3. NextPreparation(on, trigger) # None
    BY ProviderSlotAssumption, <2>1
  <2> HIDE DEF t
  <2> QED BY <1>2, <1>3, <2>1, <2>2, <2>3
          DEF SessionAsks, SameShown, ShownAccount, ActivityOf
<1>4. CASE slot'[p] = on
  <2> HIDE DEF on
  <2> QED BY <1>2, <1>4 DEF SessionStays, SameShown, ShownAccount, ActivityOf
<1>5. CASE slot'[p] = s
  BY <1>5 DEF SessionStays, SameShown
<1> QED BY <1>1, <1>3, <1>4, <1>5

\* An invalidated slot has left, whether or not it is asked again at once.
LEMMA EmptyLeaves ==
  ASSUME NEW s, NEW t, HoldsNothing(s), SessionStays(s, t) \/ SessionAsks(s, t)
  PROVE  SessionLeaves(t)
<1>1. /\ s.account = None /\ ShownAccount(s) = None
      /\ ActivityOf(s) = "idle"
  BY DEF HoldsNothing, ShownAccount, ActivityOf
<1> QED BY <1>1 DEF SessionStays, SessionAsks, SameShown, SessionLeaves

LEMMA SameSlotStays == \A s : SessionStays(s, s)
BY DEF SessionStays, SameShown

\* A step that replaces the slot of one provider.
LEMMA OneSlotStep ==
  ASSUME slot \in [Provider -> Slot], NEW p \in Provider, NEW s,
         slot' = [slot EXCEPT ![p] = s], SessionStep(slot[p], s)
  PROVE  \A q \in Provider : SessionStep(slot[q], slot'[q])
BY SameSlotStays DEF SessionStep

\* A step that leaves the slots alone.
LEMMA NoSlotStep ==
  ASSUME UNCHANGED slot
  PROVE  \A q \in Provider : SessionStep(slot[q], slot'[q])
BY SameSlotStays DEF SessionStep

\* A refresh of the slots as they are.
LEMMA RefreshStep ==
  ASSUME IndInv, NEW S \in SUBSET Provider, NEW trigger \in Trigger,
         Refresh(slot, S, trigger)
  PROVE  \A q \in Provider : SessionStep(slot[q], slot'[q])
<1>1. now \in Nat
  BY DEF IndInv, TypeOK
<1> QED BY <1>1, BeforeRefresh, RefreshAsks DEF SessionStep

\* A refresh of the slots after one of them was invalidated.
LEMMA InvalidateStep ==
  ASSUME IndInv, NEW p \in Provider, NEW disabled \in BOOLEAN,
         NEW S \in SUBSET Provider, NEW trigger \in Trigger,
         \/ Refresh(Invalidated(p, disabled), S, trigger)
         \/ slot' = Invalidated(p, disabled)
  PROVE  \A q \in Provider : SessionStep(slot[q], slot'[q])
<1> DEFINE slots == Invalidated(p, disabled)
<1>1. /\ slots \in [Provider -> Slot]
      /\ \A q \in Provider : Sound(slots[q])
      /\ HoldsNothing(slots[p])
      /\ \A q \in Provider \ {p} : slots[q] = slot[q]
  BY InvalidatedSound
<1>2. now \in Nat
  BY DEF IndInv, TypeOK
<1> HIDE DEF slots
<1>3. ASSUME NEW q \in Provider
      PROVE  SessionStays(slots[q], slot'[q]) \/ SessionAsks(slots[q], slot'[q])
  <2>1. CASE slot' = slots
    BY <2>1, SameSlotStays
  <2>2. CASE Refresh(slots, S, trigger)
    BY <1>1, <1>2, <2>2, RefreshAsks
  <2> QED BY <2>1, <2>2 DEF slots
<1>4. ASSUME NEW q \in Provider
      PROVE  SessionStep(slot[q], slot'[q])
  <2>1. CASE q = p
    BY <1>1, <1>3, <2>1, EmptyLeaves DEF SessionStep
  <2>2. CASE q # p
    BY <1>1, <1>3, <2>2 DEF SessionStep
  <2> QED BY <2>1, <2>2
<1> QED BY <1>4

-----------------------------------------------------------------------------
(* The actions, seen as steps of the sessions.                             *)

LEMMA UserStepIsStep ==
  ASSUME IndInv, UserStep
  PROVE  \A q \in Provider : SessionStep(slot[q], slot'[q])
<1>1. CASE RefreshAll
  BY <1>1, BeforeRefresh, RefreshStep DEF RefreshAll
<1>2. CASE OpenFlyout
  BY <1>2, BeforeRefresh, RefreshStep DEF OpenFlyout, RefreshForFlyout
<1>3. ASSUME NEW p \in Provider, FinishLogin(p)
      PROVE  \A q \in Provider : SessionStep(slot[q], slot'[q])
  <2>1. PICK S \in {{}, {p}} : Refresh(Invalidated(p, FALSE), S, "Automatic")
    BY <1>3 DEF FinishLogin
  <2> QED BY <2>1, BeforeRefresh, InvalidateStep
<1>4. ASSUME NEW p \in Provider, SwitchOff(p)
      PROVE  \A q \in Provider : SessionStep(slot[q], slot'[q])
  BY <1>4, BeforeRefresh, InvalidateStep DEF SwitchOff
<1>5. ASSUME NEW p \in Provider, SwitchOn(p)
      PROVE  \A q \in Provider : SessionStep(slot[q], slot'[q])
  BY <1>5, BeforeRefresh, RefreshStep DEF SwitchOn
<1>6. ASSUME NEW p \in Provider, SwitchSource(p)
      PROVE  \A q \in Provider : SessionStep(slot[q], slot'[q])
  <2>1. \/ Refresh(Invalidated(p, FALSE), {p}, "Manual")
        \/ slot' = Invalidated(p, TRUE)
    BY <1>6 DEF SwitchSource
  <2> QED BY <2>1, BeforeRefresh, InvalidateStep
<1> QED BY <1>1, <1>2, <1>3, <1>4, <1>5, <1>6 DEF UserStep

LEMMA RestartIsStep ==
  ASSUME Restart
  PROVE  \A q \in Provider : SessionStep(slot[q], slot'[q])
<1>1. \A q \in Provider : HoldsNothing(slot'[q])
  BY FreshMemory DEF Restart
<1> QED BY <1>1, SameSlotStays, EmptyLeaves DEF SessionStep

LEMMA HandlePreparedIsStep ==
  ASSUME IndInv, HandlePrepared
  PROVE  \A q \in Provider : SessionStep(slot[q], slot'[q])
<1> DEFINE e == Head(batch)
           p == e.provider
<1>1. TypeOK /\ now \in Nat
  BY DEF IndInv, TypeOK
<1>2. e \in AppEvent /\ e.kind = "Prepared"
  BY <1>1, HandlingType DEF HandlePrepared
<1>3. /\ p \in Provider /\ e.prep \in Preparation /\ e.account \in Account
      /\ e.source \in Source
  BY <1>2 DEF AppEvent, PreparedEvent, PreparationFailedEvent, CompletedEvent
<1> DEFINE r(fresh) == Prepared(slot[p], e.prep, e.account, e.source,
                                RestoredFor(p, e.account, e.source, fresh), now)
<1>4. PICK fresh \in BOOLEAN :
        slot' = [slot EXCEPT ![p] = (IF Matches(slot[p], e.prep) THEN r(fresh)
                                     ELSE [slot |-> slot[p],
                                           ticket |-> None]).slot]
  BY DEF HandlePrepared
<1>5. CASE ~Matches(slot[p], e.prep)
  <2>1. slot' = slot
    BY <1>3, <1>4, <1>5, BeforeRefresh
  <2> QED BY <2>1, NoSlotStep
<1>6. CASE Matches(slot[p], e.prep)
  <2> DEFINE t == r(fresh).slot
  <2>1. slot' = [slot EXCEPT ![p] = t] /\ slot[p].pending # None
    BY <1>4, <1>6 DEF Matches
  <2>2. RestoredFor(p, e.account, e.source, fresh) \in Restored
    BY <1>1, <1>3, RestoredForType
  <2> HIDE DEF e, p
  <2>3. Sound(t) /\ t.account = e.account /\ t.pending = None
    BY <1>1, <1>3, <2>1, <2>2, BeforeRefresh, PreparedSound
  <2> HIDE DEF r, t
  <2>4. SessionAdopts(slot[p], t)
    BY <1>3, <2>1, <2>3
       DEF SessionAdopts, Sound, OwnData, ShownAccount, ActivityOf
  <2> QED BY <1>3, <2>1, <2>4, BeforeRefresh, OneSlotStep DEF SessionStep
<1> QED BY <1>5, <1>6

LEMMA HandlePreparationFailedIsStep ==
  ASSUME IndInv, HandlePreparationFailed
  PROVE  \A q \in Provider : SessionStep(slot[q], slot'[q])
<1> DEFINE e == Head(batch)
           p == e.provider
           t == PreparationFailed(slot[p], e.invalidates, now)
<1>1. TypeOK /\ now \in Nat
  BY DEF IndInv, TypeOK
<1>2. e \in AppEvent /\ e.kind = "PreparationFailed"
  BY <1>1, HandlingType DEF HandlePreparationFailed
<1>3. p \in Provider /\ e.invalidates \in BOOLEAN
  BY <1>2 DEF AppEvent, PreparedEvent, PreparationFailedEvent, CompletedEvent
<1>4. CASE ~Matches(slot[p], e.prep)
  BY <1>4, NoSlotStep DEF HandlePreparationFailed
<1>5. CASE Matches(slot[p], e.prep)
  <2>1. slot' = [slot EXCEPT ![p] = t] /\ slot[p].pending # None
    BY <1>5 DEF HandlePreparationFailed, Matches
  <2> HIDE DEF e, p
  <2>2. /\ t.account = IF e.invalidates THEN None ELSE slot[p].account
        /\ t.snapshot = IF e.invalidates THEN None ELSE slot[p].snapshot
        /\ t.pending = None /\ t.phase # "Fetching"
    BY <1>1, <1>3, <2>1, BeforeRefresh, PreparationFailedSound
  <2> HIDE DEF t
  <2>3. SessionGivesUp(slot[p], t) \/ SessionLeaves(t)
    BY <2>1, <2>2
       DEF SessionGivesUp, SessionLeaves, SameShown, ShownAccount, ActivityOf
  <2> QED BY <1>3, <2>1, <2>3, BeforeRefresh, OneSlotStep DEF SessionStep
<1> QED BY <1>4, <1>5

\* A completion answers or is ignored, also the one a lost reply stands for.
LEMMA CompletedIsStep ==
  ASSUME IndInv, NEW p \in Provider, NEW ticket \in Ticket,
         NEW result \in Result
  PROVE  SessionStep(slot[p], Completed(slot[p], ticket, result, now))
<1> DEFINE s == slot[p]
           t == Completed(s, ticket, result, now)
<1>1. now \in Nat /\ Sound(s)
  BY BeforeRefresh DEF IndInv, TypeOK
<1>2. CASE ~Accepts(s, ticket, result)
  <2>1. t = s
    BY <1>1, <1>2, CompletedSound
  <2> HIDE DEF s, t
  <2> QED BY <2>1, SameSlotStays DEF SessionStep, s, t
<1>3. CASE Accepts(s, ticket, result)
  <2> HIDE DEF s
  <2>1. /\ s.phase = "Fetching" /\ s.pending = None
        /\ t.phase # "Fetching" /\ t.pending = None
        /\ \/ t.account = None /\ t.snapshot = None
           \/ /\ t.account = s.account
              /\ \/ t.snapshot = s.snapshot
                 \/ /\ t.snapshot \in Snapshot
                    /\ t.snapshot.account = s.account
    BY <1>1, <1>3, CompletedSound
  <2> HIDE DEF t
  <2>2. t.snapshot \in Snapshot => t.snapshot # None
    BY ProviderStateAssumption DEF Snapshot
  <2>3. SessionAnswers(s, t) \/ SessionLeaves(t)
    BY <2>1, <2>2 DEF SessionAnswers, SessionLeaves, ShownAccount, ActivityOf
  <2> QED BY <2>3 DEF SessionStep, s, t
<1> QED BY <1>2, <1>3

LEMMA HandleCompletedIsStep ==
  ASSUME IndInv, HandleCompleted
  PROVE  \A q \in Provider : SessionStep(slot[q], slot'[q])
<1> DEFINE e == Head(batch)
           p == e.provider
           t == Completed(slot[p], e.ticket, e.result, now)
<1>1. e \in AppEvent /\ e.kind = "Completed"
  BY HandlingType DEF HandleCompleted, IndInv
<1>2. p \in Provider /\ e.ticket \in Ticket /\ e.result \in Result
  BY <1>1 DEF AppEvent, PreparedEvent, PreparationFailedEvent, CompletedEvent
<1>3. slot' = [slot EXCEPT ![p] = t] \/ UNCHANGED slot
  BY DEF HandleCompleted
<1> HIDE DEF e, p
<1>4. SessionStep(slot[p], t)
  BY <1>2, CompletedIsStep
<1> HIDE DEF t
<1> QED BY <1>2, <1>3, <1>4, BeforeRefresh, NoSlotStep, OneSlotStep

LEMMA SendReplyIsStep ==
  ASSUME IndInv, SendReply
  PROVE  \A q \in Provider : SessionStep(slot[q], slot'[q])
<1> DEFINE p == ui.reply.provider
           ticket == ui.reply.ticket
           t == Completed(slot[p], ticket, Abandoned, now)
<1>1. p \in Provider /\ ticket \in Ticket \cup {None}
  BY DEF IndInv, SendReply, TypeOK, Ui, Reply
<1>2. \/ UNCHANGED slot
      \/ ticket # None /\ slot' = [slot EXCEPT ![p] = t]
  BY DEF SendReply, Unanswered
<1>3. Abandoned \in Result
  BY DEF Abandoned, Result, Failure
<1> HIDE DEF p, ticket
<1>4. ticket # None => SessionStep(slot[p], t)
  BY <1>1, <1>3, CompletedIsStep
<1> HIDE DEF t
<1> QED BY <1>1, <1>2, <1>4, BeforeRefresh, NoSlotStep, OneSlotStep

LEMMA EndDrainIsStep ==
  ASSUME IndInv, EndDataReady \/ EndPoll
  PROVE  \A q \in Provider : SessionStep(slot[q], slot'[q])
<1>1. \/ UNCHANGED slot
      \/ \E S \in SUBSET Provider : Refresh(slot, S, "Automatic")
  BY BeforeRefresh DEF EndDataReady, EndPoll, RefreshForFlyout
<1> QED BY <1>1, BeforeRefresh, RefreshStep, NoSlotStep

LEMMA NextIsStep ==
  ASSUME IndInv, [Next]_vars
  PROVE  \A q \in Provider : SessionStep(slot[q], slot'[q])
<1>1. CASE UserStep
  BY <1>1, UserStepIsStep
<1>2. CASE DrainStep
  BY <1>2, HandlePreparedIsStep, HandlePreparationFailedIsStep,
     HandleCompletedIsStep, SendReplyIsStep, EndDrainIsStep DEF DrainStep
<1>3. CASE Restart
  BY <1>3, RestartIsStep
<1>4. CASE \E p \in Provider, o \in Operation : WorkerStep(p, o)
  BY <1>4, NoSlotStep
     DEF WorkerStep, WorkerPrepares, WorkerFailsToPrepare, WorkerReceives,
         WorkerTimesOut, WorkerHangsUp, WorkerCompletes
<1>5. CASE WakeUp \/ PollTimer \/ TimePasses \/ UNCHANGED vars
  BY <1>5, NoSlotStep DEF WakeUp, PollTimer, TimePasses, vars
<1> QED BY <1>1, <1>2, <1>3, <1>4, <1>5 DEF Next

-----------------------------------------------------------------------------

\* However its workers, events and restarts interleave, every provider goes
\* through sessions only.
THEOREM Implements == Spec => Sessions
<1>1. Init => \A p \in Provider : Session(p)!Init
  <2> SUFFICES ASSUME Init, NEW p \in Provider PROVE Session(p)!Init
    OBVIOUS
  <2>1. slot[p] = NewSlot(DefaultSource[p])
    BY DEF Init, NewSlots
  <2>2. slot[p].account = None /\ slot[p].snapshot = None
        /\ slot[p].pending = None /\ slot[p].phase = "Unavailable"
    BY <2>1 DEF NewSlot
  <2> QED BY <2>2 DEF Session!Init, ShownAccount, ActivityOf
<1>2. IndInv /\ [Next]_vars
        => \A p \in Provider : [Session(p)!Next]_(Session(p)!vars)
  BY NextIsStep, SessionStepIsStep
<1> QED BY <1>1, <1>2, Inductive, PTL DEF Spec, Sessions
==============================================================================
