----------------------------- MODULE PollPipeline -----------------------------
(***************************************************************************)
(* The polling pipeline of Claudometer: the UI thread that owns one slot   *)
(* per provider (app.rs), the short-lived workers that read credentials    *)
(* and perform requests (poller.rs), the queue of events between them and  *)
(* its lossy window-message wake-up, the window procedure and the settings *)
(* that drive it (main.rs), the runtime cache on disk (runtime_state.rs)   *)
(* and the account the alert receipts are selected for (alerts.rs).        *)
(*                                                                         *)
(* A worker is identified by the operation number its slot reserved.  The  *)
(* UI thread is single-threaded: a handler's step excludes every other     *)
(* handler, but workers run between the steps of a handler that drains     *)
(* the queue, in particular between a preparation's acceptance (which      *)
(* saves state.json) and the reply to its worker.                          *)
(***************************************************************************)
EXTENDS ProviderSlot, FiniteSets

CONSTANTS
  Provider,       \* provider ids
  Optional,       \* providers with a settings toggle (Codex)
  DefaultSource,  \* the source a slot starts with, per provider
  Sources,        \* the sources a preparation may select, per provider
  Persistent,     \* accounts whose key is stable across restarts
  RetryAfter,     \* Retry-After values a 429 may carry
  LateReply,      \* TRUE: a reply may fall between timeout and hang-up
  MaxOperations,  \* bound: preparations per provider and process
  MaxGeneration,  \* bound: generation at which user invalidations stop
  MaxTime         \* bound: last tick of the clock

ASSUME PollPipelineAssumption ==
  /\ Optional \subseteq Provider
  /\ Sources \in [Provider -> SUBSET Source]
  /\ DefaultSource \in [Provider -> Source]
  /\ \A p \in Provider : DefaultSource[p] \in Sources[p]
  /\ Persistent \subseteq Account
  /\ RetryAfter \subseteq Nat \cup {None}
  /\ LateReply \in BOOLEAN
  /\ MaxOperations \in Nat
  /\ MaxGeneration \in Nat
  /\ MaxTime \in Nat

VARIABLES
  slot,     \* [Provider -> Slot], owned by the UI thread
  worker,   \* [Provider -> [Operation -> Worker]], the worker threads
  queue,    \* EVENTS: published and not yet taken
  batch,    \* events the current drain has taken and not yet handled
  ui,       \* what the UI thread is doing
  enabled,  \* the durable setting of each optional provider
  cache,    \* provider_cache in state.json
  alerts,   \* the account alerts.rs holds receipts for
  now       \* the clock

vars == <<slot, worker, queue, batch, ui, enabled, cache, alerts, now>>

Operation == 1..MaxOperations

\* waiting: blocked on an empty reply channel; granted and refused: the reply
\* is in the channel; expired: timed out, the channel not yet closed.
Stage == {"none", "preparing", "waiting", "granted", "refused", "expired",
          "executing"}

Worker ==
  [stage: Stage, prep: Preparation \cup {None}, account: Account \cup {None},
   source: Source \cup {None}, ticket: Ticket \cup {None}]

NoWorker ==
  [stage |-> "none", prep |-> None, account |-> None, source |-> None,
   ticket |-> None]

\* What a worker holds in each stage.
Equipped(w) ==
  /\ w.stage = "preparing" => w.prep \in Preparation
  /\ w.stage \notin {"none", "preparing"} => /\ w.account \in Account
                                            /\ w.source \in Source
  /\ w.stage \in {"granted", "executing"} => w.ticket \in Ticket

PreparedEvent ==
  [kind: {"Prepared"}, provider: Provider, prep: Preparation,
   account: Account, source: Source]

PreparationFailedEvent ==
  [kind: {"PreparationFailed"}, provider: Provider, prep: Preparation,
   invalidates: BOOLEAN]

CompletedEvent ==
  [kind: {"Completed"}, provider: Provider, ticket: Ticket, result: Result]

AppEvent == PreparedEvent \cup PreparationFailedEvent \cup CompletedEvent

\* The send that follows the handling of a Prepared event.
Reply == [provider: Provider, operation: Nat, ticket: Ticket \cup {None}]

ASSUME PollReplyAssumption == None \notin Reply

\* mode: the window message being handled; changed: drain_events' result.
Ui == [mode: {"idle", "data", "poll"}, changed: BOOLEAN,
       reply: Reply \cup {None}]

IdleUi == [mode |-> "idle", changed |-> FALSE, reply |-> None]

\* CachedProvider: at most one entry per provider is kept.
CacheEntry == [account: Account, source: Source, snapshot: Snapshot \cup {None},
               retryAt: Nat \cup {None}]

-----------------------------------------------------------------------------
(* A process starts with empty memory; its first poll is a RefreshAll.      *)

NewSlots == [p \in Provider |-> NewSlot(DefaultSource[p])]

NoWorkers == [p \in Provider |-> [o \in Operation |-> NoWorker]]

Init ==
  /\ slot = NewSlots
  /\ worker = NoWorkers
  /\ queue = <<>>
  /\ batch = <<>>
  /\ ui = IdleUi
  /\ enabled \in [Provider -> BOOLEAN]
  /\ \A p \in Provider \ Optional : enabled[p]
  /\ cache = [p \in Provider |-> None]
  /\ alerts = [p \in Provider |-> None]
  /\ now = 0

-----------------------------------------------------------------------------
(* Publishing an event, and the runtime cache.                             *)

\* post: the event is retained even when the wake-up cannot be queued; see
\* WakeUp for the message itself.
Post(event) == queue' = Append(queue, event)

\* save_cache refuses an entry valid_cache rejects, and may fail to write.
ValidEntry(entry) ==
  entry # None /\ entry.snapshot # None =>
    /\ entry.snapshot.account = entry.account
    /\ entry.snapshot.source = entry.source

SaveCache(p, entry) ==
  \/ ValidEntry(entry) /\ cache' = [cache EXCEPT ![p] = entry]
  \/ UNCHANGED cache

\* Mutant: fingerprinted accounts are saved like stable ones.
EntryOfAnyAccount(s) ==
  [account |-> s.account, source |-> s.source, snapshot |-> s.snapshot,
   retryAt |-> IF Cooling(s, now) THEN s.until ELSE None]

\* persist_provider_cache: a memory-only account replaces the entry by none.
EntryOf(s) ==
  IF s.account \in Persistent
  THEN [account |-> s.account, source |-> s.source, snapshot |-> s.snapshot,
        retryAt |-> IF Cooling(s, now) THEN s.until ELSE None]
  ELSE None

\* matching_cache: the snapshot is kept unless it has aged out (fresh), the
\* deadline when it lies in a plausible future.
RestoredFor(p, account, source, fresh) ==
  LET entry == cache[p]
      matches == /\ entry # None
                 /\ account \in Persistent
                 /\ entry.account = account
                 /\ entry.source = source
  IN  [snapshot |-> IF matches /\ fresh THEN entry.snapshot ELSE None,
       retryAt |-> IF /\ matches
                      /\ entry.retryAt # None
                      /\ entry.retryAt > now
                      /\ entry.retryAt - now <= MaxRetryAfter
                   THEN entry.retryAt ELSE None]

-----------------------------------------------------------------------------
(* Worker threads (poller.rs).                                             *)

SetWorker(p, o, w) == worker' = [worker EXCEPT ![p][o] = w]

\* prepare succeeds: publish the identity and wait for a ticket.  The provider
\* CLIs may replace the credentials at any time, so a worker may find those
\* of any account.
WorkerPrepares(p, o) ==
  /\ worker[p][o].stage = "preparing"
  /\ \E account \in Account, source \in Sources[p] :
       /\ Post([kind |-> "Prepared", provider |-> p,
                prep |-> worker[p][o].prep, account |-> account,
                source |-> source])
       /\ SetWorker(p, o, [NoWorker EXCEPT !.stage = "waiting",
                                           !.account = account,
                                           !.source = source])
  /\ UNCHANGED <<slot, batch, ui, enabled, cache, alerts, now>>

\* prepare fails, or the thread could not be started.
WorkerFailsToPrepare(p, o) ==
  /\ worker[p][o].stage = "preparing"
  /\ \E invalidates \in BOOLEAN :
       Post([kind |-> "PreparationFailed", provider |-> p,
             prep |-> worker[p][o].prep, invalidates |-> invalidates])
  /\ SetWorker(p, o, NoWorker)
  /\ UNCHANGED <<slot, batch, ui, enabled, cache, alerts, now>>

\* Mutant: a refused worker runs its request all the same.
WorkerRunsAnyway(p, o) ==
  /\ worker[p][o].stage \in {"granted", "refused"}
  /\ SetWorker(p, o, [worker[p][o] EXCEPT !.stage = "executing"])
  /\ UNCHANGED <<slot, queue, batch, ui, enabled, cache, alerts, now>>

\* recv_timeout finds a reply: run the request, or return.
WorkerReceives(p, o) ==
  /\ \/ /\ worker[p][o].stage = "granted"
        /\ SetWorker(p, o, [worker[p][o] EXCEPT !.stage = "executing"])
     \/ worker[p][o].stage = "refused" /\ SetWorker(p, o, NoWorker)
  /\ UNCHANGED <<slot, queue, batch, ui, enabled, cache, alerts, now>>

\* recv_timeout gives up after ten seconds without a reply.  The channel is
\* closed only when the receiver is dropped, a moment later.
WorkerTimesOut(p, o) ==
  /\ worker[p][o].stage = "waiting"
  /\ SetWorker(p, o, IF LateReply
                     THEN [worker[p][o] EXCEPT !.stage = "expired"]
                     ELSE NoWorker)
  /\ UNCHANGED <<slot, queue, batch, ui, enabled, cache, alerts, now>>

WorkerHangsUp(p, o) ==
  /\ worker[p][o].stage = "expired"
  /\ SetWorker(p, o, NoWorker)
  /\ UNCHANGED <<slot, queue, batch, ui, enabled, cache, alerts, now>>

\* What execute may return for the worker's credentials.
Outcomes(w) ==
  [kind: {"Success"}, retryAfter: {None},
   snapshot: {[account |-> w.account, source |-> w.source]}]
  \cup [kind: {"RateLimited"}, retryAfter: RetryAfter, snapshot: {None}]
  \cup [kind: {"Authentication", "Transient"}, retryAfter: {None},
        snapshot: {None}]

WorkerCompletes(p, o) ==
  /\ worker[p][o].stage = "executing"
  /\ \E result \in Outcomes(worker[p][o]) :
       Post([kind |-> "Completed", provider |-> p,
             ticket |-> worker[p][o].ticket, result |-> result])
  /\ SetWorker(p, o, NoWorker)
  /\ UNCHANGED <<slot, batch, ui, enabled, cache, alerts, now>>

-----------------------------------------------------------------------------
(* Starting preparations (app::refresh and its callers).                   *)

\* Mutant: a refresh of everything ignores the settings.
EnabledOrNot == Provider

Enabled == {p \in Provider : enabled[p]}

\* refresh of each provider of S on the slots given: re-enable, reserve and
\* spawn a worker.
Refresh(slots, S, trigger) ==
  LET on(p) == Enable(slots[p], TRUE)
      spawns == {p \in S : /\ CanReserve(on(p), trigger, now)
                           /\ slots[p].nextOperation <= MaxOperations}
  IN  /\ slot' = [p \in Provider |->
                    IF p \in spawns THEN Reserve(on(p), trigger)
                    ELSE IF p \in S THEN on(p) ELSE slots[p]]
      /\ worker' = [p \in Provider |->
                    IF p \in spawns
                    THEN [worker[p] EXCEPT ![slots[p].nextOperation] =
                            [NoWorker EXCEPT
                               !.stage = "preparing",
                               !.prep = NextPreparation(on(p), trigger)]]
                    ELSE worker[p]]

\* An opened or re-rendered flyout skips an optional provider without a
\* credentials file.
RefreshForFlyout(slots) ==
  \E S \in SUBSET Enabled :
    Enabled \ Optional \subseteq S /\ Refresh(slots, S, "Automatic")

RefreshAll ==
  /\ ui.mode = "idle"
  /\ \E trigger \in {"Automatic", "Manual"} : Refresh(slot, Enabled, trigger)
  /\ UNCHANGED <<queue, batch, ui, enabled, cache, alerts, now>>

OpenFlyout ==
  /\ ui.mode = "idle"
  /\ RefreshForFlyout(slot)
  /\ UNCHANGED <<queue, batch, ui, enabled, cache, alerts, now>>

-----------------------------------------------------------------------------
(* Invalidation (app::invalidate and its callers).                         *)

MayInvalidate(p) ==
  ui.mode = "idle" /\ slot[p].generation < MaxGeneration

Invalidated(p, disabled) ==
  [slot EXCEPT ![p] = Invalidate(@, disabled)]

\* WM_AUTH_READY after an interactive sign-in; the new state is fetched only
\* when the CLI reports a connected account.
FinishLogin(p) ==
  /\ MayInvalidate(p)
  /\ p \notin Optional
  /\ alerts' = [alerts EXCEPT ![p] = None]
  /\ SaveCache(p, None)
  /\ \E S \in {{}, {p}} : Refresh(Invalidated(p, FALSE), S, "Automatic")
  /\ UNCHANGED <<queue, batch, ui, enabled, now>>

SwitchOff(p) ==
  /\ MayInvalidate(p)
  /\ p \in Optional
  /\ enabled[p]
  /\ enabled' = [enabled EXCEPT ![p] = FALSE]
  /\ slot' = Invalidated(p, TRUE)
  /\ alerts' = [alerts EXCEPT ![p] = None]
  /\ UNCHANGED <<worker, queue, batch, ui, cache, now>>

SwitchOn(p) ==
  /\ MayInvalidate(p)
  /\ p \in Optional
  /\ ~enabled[p]
  /\ enabled' = [enabled EXCEPT ![p] = TRUE]
  /\ Refresh(slot, {p}, "Manual")
  /\ UNCHANGED <<queue, batch, ui, cache, alerts, now>>

\* The documented-source toggle invalidates whatever source was in use.
SwitchSource(p) ==
  /\ MayInvalidate(p)
  /\ p \in Optional
  /\ alerts' = [alerts EXCEPT ![p] = None]
  /\ IF enabled[p]
     THEN SaveCache(p, None) /\ Refresh(Invalidated(p, FALSE), {p}, "Manual")
     ELSE slot' = Invalidated(p, TRUE) /\ UNCHANGED <<worker, cache>>
  /\ UNCHANGED <<queue, batch, ui, enabled, now>>

-----------------------------------------------------------------------------
(* Draining the queue (app::drain_events and the two messages that call it)*)

\* WM_DATA_READY takes every event published so far.  A message is sent with
\* each event and may be lost, so it arrives or does not arrive while events
\* are queued; one that finds the queue empty changes nothing.
WakeUp ==
  /\ ui.mode = "idle"
  /\ queue # <<>>
  /\ ui' = [ui EXCEPT !.mode = "data"]
  /\ batch' = queue
  /\ queue' = <<>>
  /\ UNCHANGED <<slot, worker, enabled, cache, alerts, now>>

\* Mutant: only wake-ups drain the queue.
PollTimerSkipsQueue ==
  /\ ui.mode = "idle"
  /\ ui' = [ui EXCEPT !.mode = "poll"]
  /\ UNCHANGED <<slot, worker, queue, batch, enabled, cache, alerts, now>>

\* The poll timer drains the same queue, which recovers lost wake-ups.
PollTimer ==
  /\ ui.mode = "idle"
  /\ ui' = [ui EXCEPT !.mode = "poll"]
  /\ batch' = queue
  /\ queue' = <<>>
  /\ UNCHANGED <<slot, worker, enabled, cache, alerts, now>>

Handling(kind) ==
  /\ ui.mode # "idle"
  /\ ui.reply = None
  /\ batch # <<>>
  /\ Head(batch).kind = kind
  /\ batch' = Tail(batch)

\* The decision on a worker's preparation; its reply is sent afterwards.
HandlePrepared ==
  /\ Handling("Prepared")
  /\ LET e == Head(batch)
         p == e.provider
     IN  \E fresh \in BOOLEAN :
           LET restored == RestoredFor(p, e.account, e.source, fresh)
               next == IF Matches(slot[p], e.prep)
                       THEN Prepared(slot[p], e.prep, e.account, e.source,
                                     restored, now)
                       ELSE [slot |-> slot[p], ticket |-> None]
               switched == next.slot.generation # slot[p].generation
           IN  /\ slot' = [slot EXCEPT ![p] = next.slot]
               /\ alerts' = IF switched
                            THEN [alerts EXCEPT ![p] = e.account]
                            ELSE alerts
               /\ ui' = [ui EXCEPT
                           !.changed = @ \/ switched \/ next.ticket # None,
                           !.reply = [provider |-> p,
                                      operation |-> e.prep.operation,
                                      ticket |-> next.ticket]]
  /\ UNCHANGED <<worker, queue, enabled, cache, now>>

Abandoned == [kind |-> "Transient", retryAfter |-> None, snapshot |-> None]

\* Mutant: a ticket nobody waits for is forgotten.
UnansweredForgotten(p, ticket) == slot

\* A ticket nobody waits for is failed with a timeout on the spot.
Unanswered(p, ticket) ==
  IF ticket = None THEN slot
  ELSE [slot EXCEPT ![p] = Completed(@, ticket, Abandoned, now)]

\* The reply reaches a worker that still waits, and is lost without an error
\* on one that has timed out but not hung up.  Once the channel is closed the
\* send fails.
SendReply ==
  /\ ui.reply # None
  /\ LET p == ui.reply.provider
         o == ui.reply.operation
         t == ui.reply.ticket
     IN  CASE worker[p][o].stage = "waiting" ->
                /\ SetWorker(p, o, [worker[p][o] EXCEPT
                     !.stage = IF t = None THEN "refused" ELSE "granted",
                     !.ticket = t])
                /\ UNCHANGED slot
           [] worker[p][o].stage = "expired" -> UNCHANGED <<slot, worker>>
           [] OTHER ->
                /\ slot' = Unanswered(p, t)
                /\ UNCHANGED worker
  /\ ui' = [ui EXCEPT !.reply = None]
  /\ UNCHANGED <<queue, batch, enabled, cache, alerts, now>>

HandlePreparationFailed ==
  /\ Handling("PreparationFailed")
  /\ LET e == Head(batch)
         p == e.provider
     IN  IF Matches(slot[p], e.prep)
         THEN /\ slot' = [slot EXCEPT
                            ![p] = PreparationFailed(@, e.invalidates, now)]
              /\ ui' = [ui EXCEPT !.changed = TRUE]
              /\ IF e.invalidates
                 THEN alerts' = [alerts EXCEPT ![p] = None] /\ SaveCache(p, None)
                 ELSE UNCHANGED <<alerts, cache>>
         ELSE UNCHANGED <<slot, ui, alerts, cache>>
  /\ UNCHANGED <<worker, queue, enabled, now>>

\* An accepted completion is persisted; one that ended the session clears
\* the cache and the receipts instead.  alerts::check, which an accepted
\* success calls with the slot's account, is module AlertReceipts' matter.
HandleCompleted ==
  /\ Handling("Completed")
  /\ LET e == Head(batch)
         p == e.provider
         s == Completed(slot[p], e.ticket, e.result, now)
     IN  IF Accepts(slot[p], e.ticket, e.result)
         THEN /\ slot' = [slot EXCEPT ![p] = s]
              /\ ui' = [ui EXCEPT !.changed = TRUE]
              /\ IF s.account # None
                 THEN SaveCache(p, EntryOf(s)) /\ UNCHANGED alerts
                 ELSE SaveCache(p, None) /\ alerts' = [alerts EXCEPT ![p] = None]
         ELSE UNCHANGED <<slot, ui, cache, alerts>>
  /\ UNCHANGED <<worker, queue, enabled, now>>

DrainEnds(mode) ==
  /\ ui.mode = mode
  /\ ui.reply = None
  /\ batch = <<>>
  /\ ui' = IdleUi

\* A drain that changed something re-renders a visible flyout, which asks
\* for fresh values in turn.
EndDataReady ==
  /\ DrainEnds("data")
  /\ \/ ui.changed /\ RefreshForFlyout(slot)
     \/ UNCHANGED <<slot, worker>>
  /\ UNCHANGED <<queue, batch, enabled, cache, alerts, now>>

\* The poll timer goes on to refresh every enabled provider.
EndPoll ==
  /\ DrainEnds("poll")
  /\ Refresh(slot, Enabled, "Automatic")
  /\ UNCHANGED <<queue, batch, enabled, cache, alerts, now>>

-----------------------------------------------------------------------------
(* The environment: time passes, the process may be killed and started     *)
(* again.                                                                  *)

TimePasses ==
  /\ now < MaxTime
  /\ now' = now + 1
  /\ UNCHANGED <<slot, worker, queue, batch, ui, enabled, cache, alerts>>

\* Files survive; threads, queues and slots do not.
Restart ==
  /\ slot' = NewSlots
  /\ worker' = NoWorkers
  /\ queue' = <<>>
  /\ batch' = <<>>
  /\ ui' = IdleUi
  /\ alerts' = [p \in Provider |-> None]
  /\ UNCHANGED <<enabled, cache, now>>

-----------------------------------------------------------------------------

WorkerStep(p, o) ==
  \/ WorkerPrepares(p, o)
  \/ WorkerFailsToPrepare(p, o)
  \/ WorkerReceives(p, o)
  \/ WorkerTimesOut(p, o)
  \/ WorkerHangsUp(p, o)
  \/ WorkerCompletes(p, o)

DrainStep ==
  \/ HandlePrepared
  \/ SendReply
  \/ HandlePreparationFailed
  \/ HandleCompleted
  \/ EndDataReady
  \/ EndPoll

UserStep ==
  \/ RefreshAll
  \/ OpenFlyout
  \/ \E p \in Provider :
       FinishLogin(p) \/ SwitchOff(p) \/ SwitchOn(p) \/ SwitchSource(p)

Next ==
  \/ \E p \in Provider, o \in Operation : WorkerStep(p, o)
  \/ WakeUp
  \/ PollTimer
  \/ DrainStep
  \/ UserStep
  \/ TimePasses
  \/ Restart

Spec == Init /\ [][Next]_vars

\* Threads run, requests and credential reads have time-outs, the UI thread
\* finishes the handler it is in, and the poll timer keeps firing.  Nothing
\* is assumed of wake-ups, of the user and of the provider CLIs.
Fairness ==
  /\ \A p \in Provider, o \in Operation : WF_vars(WorkerStep(p, o))
  /\ WF_vars(DrainStep)
  /\ WF_vars(PollTimer)

FairSpec == Spec /\ Fairness

-----------------------------------------------------------------------------
(* Invariants.                                                             *)

\* Every variable keeps its shape.
TypeOK ==
  /\ slot \in [Provider -> Slot]
  /\ worker \in [Provider -> [Operation -> Worker]]
  /\ \A p \in Provider, o \in Operation : Equipped(worker[p][o])
  /\ queue \in Seq(AppEvent)
  /\ batch \in Seq(AppEvent)
  /\ ui \in Ui
  /\ enabled \in [Provider -> BOOLEAN]
  /\ \A p \in Provider \ Optional : enabled[p]
  /\ cache \in [Provider -> CacheEntry \cup {None}]
  /\ alerts \in [Provider -> Account \cup {None}]
  /\ now \in Nat

\* Usage and errors on display belong to the account the slot is bound to,
\* across account switches, late completions and restarts (ARCHITECTURE.md,
\* "Every provider has a current opaque account").
NoForeignData == \A p \in Provider : OwnData(slot[p])

\* Usage on display, and usage saved in the runtime cache, was read from the
\* source it is attributed to, even when the source flips between a
\* preparation and its completion; save_cache would refuse it otherwise.
TrueProvenance ==
  \A p \in Provider :
    /\ slot[p].snapshot # None => slot[p].snapshot.source = slot[p].source
    /\ ValidEntry(cache[p])

\* The alert receipts are always those of the account the slot is bound to:
\* drain_events and invalidate never forget to tell alerts.rs of a switch.
AlertsFollowAccount == \A p \in Provider : alerts[p] = slot[p].account

\* A slot never waits for a worker and for a result at the same time, and
\* what it waits for is bound to its current generation.
OneActivityEach == \A p \in Provider : OneActivity(slot[p])

\* A provider that is switched off in the settings shows, fetches, prepares
\* and alerts nothing, whatever its workers still do.
OffHoldsNothing == \A p \in Provider : ~enabled[p] => HoldsNothing(slot[p])

\* An account known by a process-only fingerprint never reaches the disk.
MemoryOnlyStaysInMemory ==
  \A p \in Provider : cache[p] # None => cache[p].account \in Persistent

Events == batch \o queue

\* Whoever will still deliver a completion the slot accepts: the reply about
\* to be sent, a worker with a ticket, a Completed event not yet handled.
LiveWorkers(p) ==
  {o \in Operation : /\ worker[p][o].stage \in {"granted", "executing"}
                     /\ Live(slot[p], worker[p][o].ticket)}

LiveEvents(p) ==
  {i \in DOMAIN Events : /\ Events[i].kind = "Completed"
                         /\ Events[i].provider = p
                         /\ Live(slot[p], Events[i].ticket)}

LiveReply(p) ==
  /\ ui.reply # None
  /\ ui.reply.provider = p
  /\ ui.reply.ticket # None
  /\ Live(slot[p], ui.reply.ticket)

Carriers(p) ==
  Cardinality(LiveWorkers(p)) + Cardinality(LiveEvents(p))
    + (IF LiveReply(p) THEN 1 ELSE 0)

\* At most one completion the slot would accept is on its way: no request is
\* ever answered twice and no two requests of one generation overlap.
SingleFlight == \A p \in Provider : Carriers(p) <= 1

\* A fetching slot has a completion on its way: "completed workers cannot
\* leave a provider stuck in Fetching" (docs/verification/app-01.md).
NeverStuckFetching ==
  \A p \in Provider : slot[p].phase = "Fetching" => Carriers(p) >= 1

\* A reserved preparation is answered: its worker is still preparing or its
\* event is queued.  Without this the provider would never be polled again,
\* since nothing times out a pending preparation.
PendingIsCarried ==
  \A p \in Provider : slot[p].pending # None =>
    \/ \E o \in Operation : /\ worker[p][o].stage = "preparing"
                            /\ Matches(slot[p], worker[p][o].prep)
    \/ \E i \in DOMAIN Events :
         /\ Events[i].kind \in {"Prepared", "PreparationFailed"}
         /\ Events[i].provider = p
         /\ Matches(slot[p], Events[i].prep)

-----------------------------------------------------------------------------
(* What no step may do.                                                    *)

HeldTickets(p) ==
  {worker[p][o].ticket : o \in {x \in Operation : worker[p][x].ticket # None}}
  \cup {Events[i].ticket : i \in {j \in DOMAIN Events :
          Events[j].kind = "Completed" /\ Events[j].provider = p}}

HeldPreparations(p) ==
  {worker[p][o].prep : o \in {x \in Operation :
                                worker[p][x].stage = "preparing"}}
  \cup {Events[i].prep : i \in {j \in DOMAIN Events :
          Events[j].kind # "Completed" /\ Events[j].provider = p}}

\* Work that an invalidation, an account switch or a newer request has made
\* obsolete stays obsolete for as long as anybody holds its envelope.
ObsoleteStaysObsolete ==
  [][\A p \in Provider :
       /\ \A t \in HeldTickets(p) \cap HeldTickets(p)' :
            Live(slot'[p], t) => Live(slot[p], t)
       /\ \A q \in HeldPreparations(p) \cap HeldPreparations(p)' :
            Matches(slot'[p], q) => Matches(slot[p], q)]_vars

Starts(p) == slot[p].phase # "Fetching" /\ slot'[p].phase = "Fetching"

\* No request starts while state.json still holds an unexpired 429 deadline
\* for its account and source: a cool-down survives restarts, failed writes,
\* sign-outs and toggles ("there is no fast retry", ARCHITECTURE.md).
DurableCooldown ==
  [][\A p \in Provider : Starts(p) =>
       ~ /\ cache[p] # None
         /\ cache[p].account = slot'[p].account
         /\ cache[p].source = slot'[p].source
         /\ cache[p].retryAt # None
         /\ cache[p].retryAt > now]_vars

-----------------------------------------------------------------------------
(* The promise of module ProviderSession.                                  *)

ShownAccount(s) == IF s.snapshot = None THEN None ELSE s.snapshot.account

ActivityOf(s) == IF s.pending # None THEN "preparing"
                 ELSE IF s.phase = "Fetching" THEN "fetching" ELSE "idle"

Session(p) == INSTANCE ProviderSession
  WITH owner <- slot[p].account, shown <- ShownAccount(slot[p]),
       activity <- ActivityOf(slot[p])

\* However its workers, events and restarts interleave, every provider goes
\* through sessions only: usage appears with the adoption of its account or
\* with the answer to the request of that account, and leaves with it.
Sessions ==
  /\ \A p \in Provider : Session(p)!Init
  /\ [][\A p \in Provider : [Session(p)!Next]_(Session(p)!vars)]_vars

-----------------------------------------------------------------------------
(* What must happen eventually.                                            *)

\* A preparation is answered although its wake-up may be lost.
PreparationEnds ==
  \A p \in Provider : slot[p].pending # None ~> slot[p].pending = None

\* A request ends: its completion, the abandoned reply's timeout or an
\* invalidation takes the slot out of Fetching.
FetchEnds ==
  \A p \in Provider : slot[p].phase = "Fetching" ~> slot[p].phase # "Fetching"
=============================================================================
