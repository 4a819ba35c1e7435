---------------------------- MODULE AlertReceipts ----------------------------
(***************************************************************************)
(* One toast per window of a limit: the receipts of alerts.rs, their copy  *)
(* in runtime_state.rs, state.json itself and the legacy map that older    *)
(* versions read from settings.json.  A snapshot has a sequence of rows,   *)
(* one per limit; two rows may carry one limit id.  The instant at which a *)
(* window resets drifts between polls and may be missing.  check and       *)
(* account_changed run on the UI thread, so each is one step; a save may   *)
(* fail and leave the old or the new document.                             *)
(***************************************************************************)
EXTENDS Integers, Sequences

CONSTANTS Provider, Account, Persistent,
          None,
          Rows,       \* the limit id of each row of a snapshot
          Windows,    \* bound: the windows of a limit are 1..Windows
          Gap,        \* the distance of two windows, more than Drift + Slop
          Drift,      \* how far the reported instant of one window moves, at most Slop
          Slop        \* EPOCH_SLOP

VARIABLES receipts,     \* ALERTED: the receipts alerts.rs decides with
          loaded,       \* whether ALERTED has been filled
          persistence,  \* AlertState.persistence: whose receipts may be saved
          salt,         \* whether state.json could be opened and has a salt
          held,         \* RuntimeState: what this process takes state.json for
          stored,       \* state.json
          legacy,       \* settings.json "alerted", per provider
          bound,        \* the account each provider's slot is bound to
          window,       \* the window each provider's limit is in
          warned,       \* history: who saw a toast for the present window
          again,        \* history: whom the last step showed another one for it
          owed,         \* history: who reached the threshold without a toast
          excused,      \* history: who was told, and the code does not keep the receipt
          inherited,    \* history: whose receipt an older version may have left
          unsaved       \* history: the providers whose receipts a failed save may have
                        \* left out of state.json

ledger == <<warned, again, owed, excused, inherited>>
vars == <<receipts, loaded, persistence, salt, held, stored, legacy, bound, window, ledger, unsaved>>

Row == DOMAIN Rows

Instant == 0..(Windows * Gap + Drift)

Receipt == [provider : Provider, account : Account, limit : {Rows[i] : i \in Row},
            reset : Instant \cup {None}, below : BOOLEAN]

Document == [receipts : SUBSET Receipt, migrated : SUBSET Provider]

NewDocument == [receipts |-> {}, migrated |-> {}]

Key == Provider \X Account \X Row

\* The instants that may be reported for a window.
ReportedAs(w) == (w * Gap)..(w * Gap + Drift)

\* The value 0 of the legacy map stands for a missing instant.
Undated == 0

Abs(n) == IF n < 0 THEN -n ELSE n

Init == /\ receipts = {}
        /\ loaded = FALSE
        /\ persistence = [p \in Provider |-> None]
        /\ salt = TRUE
        /\ held = NewDocument
        /\ stored = NewDocument
        /\ legacy \in [Provider \X Row -> {None, Undated} \cup ReportedAs(1)]
        /\ bound = [p \in Provider |-> None]
        /\ window = [k \in Provider \X Row |-> 1]
        /\ warned = {}
        /\ again = {}
        /\ owed = {}
        /\ excused = {}
        /\ inherited = {}
        /\ unsaved = {}

-----------------------------------------------------------------------------
\* AlertState::load: what state.json holds was saved for a stable identity.
Loaded(doc) == IF loaded THEN receipts ELSE doc.receipts

LoadedPersistence(doc) ==
    IF loaded THEN persistence
    ELSE [p \in Provider |-> IF \E r \in doc.receipts : r.provider = p THEN "stable" ELSE None]

Level(a) == IF a \in Persistent THEN "stable" ELSE "process"

\* A save of state.json: on success memory and disk hold the new document, on
\* failure memory keeps the old one and the disk either.
SaveDocument(doc, ok) == /\ held' = IF ok THEN doc ELSE held
                         /\ stored' \in IF ok THEN {doc} ELSE {stored, doc}

-----------------------------------------------------------------------------
\* select_account: which receipts and migration markers an account keeps.
MigratedReceipts(p, a) ==
    {[provider |-> p, account |-> a, limit |-> Rows[i],
      reset |-> IF legacy[<<p, i>>] = Undated THEN None ELSE legacy[<<p, i>>], below |-> FALSE] :
        i \in {j \in Row : legacy[<<p, j>>] # None}}

NextAccountState(p, a) ==
    LET mine == {r \in held.receipts : r.provider # p \/ (a \in Persistent /\ r.account = a)}
    IN  IF a \in Persistent /\ p \notin held.migrated
        THEN [receipts |-> mine \cup MigratedReceipts(p, a), migrated |-> held.migrated \cup {p}]
        ELSE [held EXCEPT !.receipts = mine]

\* What select_account returns: nothing without a salt, and after a failed
\* save what it would have saved for this account.
Selected(p, a, next, ok) ==
    IF next = held THEN held.receipts
    ELSE IF ~salt THEN {}
    ELSE IF ok THEN next.receipts
    ELSE {r \in next.receipts : r.account = a}

\* Whether an older version may have announced the present window.
Inherits(k, next) == \E r \in next.receipts \ held.receipts :
                         r.limit = Rows[k[3]] /\ r.reset \in ReportedAs(window[<<k[1], k[3]>>])

AccountChanged(p, a, ok) ==
    LET next == NextAccountState(p, a)
        after == IF next # held /\ salt /\ ok THEN next ELSE held
    IN  /\ IF next # held /\ salt
           THEN /\ SaveDocument(next, ok)
                /\ unsaved' = IF ok THEN unsaved \ {p} ELSE unsaved \cup {p}
           ELSE UNCHANGED <<held, stored, unsaved>>
        /\ receipts' = {r \in Loaded(after) : r.provider # p}
                         \cup {r \in Selected(p, a, next, ok) : r.provider = p}
        /\ loaded' = TRUE
        /\ persistence' = [LoadedPersistence(after) EXCEPT ![p] = IF a = None THEN None ELSE Level(a)]
        /\ bound' = [bound EXCEPT ![p] = a]
        /\ excused' = excused \cup {k \in warned : k[1] = p /\ k[2] # a}
        /\ inherited' = inherited \cup {k \in Key : k[1] = p /\ k[2] = a /\ Inherits(k, next)}
        /\ again' = {}
        /\ UNCHANGED <<salt, legacy, window, warned, owed>>

\* app.rs tells alerts.rs of every account a slot adopts or gives up; an
\* identity derived with the salt is stable, any other lasts for the process.
ChangeAccount(p) ==
    \E a \in Account \cup {None}, ok \in BOOLEAN :
        /\ a # bound[p]
        /\ a \in Persistent => salt
        /\ AccountChanged(p, a, ok)

-----------------------------------------------------------------------------
SameLimit(r, p, a, id) == r.provider = p /\ r.account = a /\ r.limit = id

\* Mutant of SameWindow: only the same instant is the same window.
SameInstant(previous, current) == previous = current

SameWindow(previous, current) ==
    \/ previous # None /\ current # None /\ Abs(current - previous) <= Slop
    \/ previous = None /\ current = None

\* apply_observation: the receipts after one row, and whether it fires.
Observe(rs, p, a, id, high, reset) ==
    LET same == {r \in rs : SameLimit(r, p, a, id)}
        match == {r \in same : SameWindow(r.reset, reset)}
        rearmed == {r \in match : reset = None /\ r.below}
        new == [provider |-> p, account |-> a, limit |-> id, reset |-> reset, below |-> FALSE]
    IN  IF ~high
        THEN [fire |-> FALSE,
              receipts |-> IF reset # None THEN rs
                           ELSE (rs \ match) \cup {[r EXCEPT !.below = TRUE] : r \in match}]
        ELSE IF match = {}
        THEN [fire |-> TRUE, receipts |-> (rs \ same) \cup {new}]
        ELSE [fire |-> rearmed # {},
              receipts |-> (rs \ rearmed) \cup {[r EXCEPT !.below = FALSE] : r \in rearmed}]

\* persist_alert_receipts replaces the receipts of the document by those of
\* the providers whose identity is stable.
Persistable(rs) == {r \in rs : persistence[r.provider] = "stable"}

\* The rows of a fresh snapshot are observed one after the other.
Observed(p, a, seen) ==
    LET After[i \in 0..Len(Rows)] ==
            IF i = 0 THEN [receipts |-> receipts, fired |-> {}]
            ELSE IF seen[i] = None THEN After[i - 1]
            ELSE LET one == Observe(After[i - 1].receipts, p, a, Rows[i], seen[i].high, seen[i].reset)
                 IN  [receipts |-> one.receipts,
                      fired |-> After[i - 1].fired \cup (IF one.fire THEN {i} ELSE {})]
    IN  After[Len(Rows)]

\* check with a fresh snapshot of the account the slot is bound to; with alerts
\* switched off it returns before it does anything.
Check(p, seen) ==
    LET a == bound[p]
        all == Observed(p, a, seen)
        Keys(is) == {<<p, a, i>> : i \in is}
        unnamed == {i \in Row : seen[i] # None /\ seen[i].reset = None}
        high == {i \in Row : seen[i] # None /\ seen[i].high} \ unnamed
    IN  /\ a # None
        /\ receipts' = all.receipts
        /\ IF all.receipts # receipts /\ salt
           THEN \E ok \in BOOLEAN :
                    /\ SaveDocument([held EXCEPT !.receipts = Persistable(all.receipts)], ok)
                    /\ unsaved' = IF ok THEN {} ELSE unsaved \cup {p}
           ELSE UNCHANGED <<held, stored, unsaved>>
        /\ legacy' \in {legacy, [k \in DOMAIN legacy |->
                                   IF k[1] # p \/ k[2] \notin all.fired THEN legacy[k]
                                   ELSE IF seen[k[2]].reset = None THEN Undated ELSE seen[k[2]].reset]}
        /\ warned' = warned \cup Keys(all.fired)
        /\ again' = Keys(all.fired) \cap warned
        /\ owed' = (owed \cup (Keys(high) \ warned)) \ Keys(all.fired)
        /\ excused' = excused \cup (Keys(unnamed) \cap warned')
        /\ UNCHANGED <<loaded, persistence, salt, bound, window, inherited>>

\* What the provider reports of row i, or nothing.
Report(p, i) == {None} \cup [high : BOOLEAN, reset : ReportedAs(window[<<p, i>>]) \cup {None}]

Observation(p) ==
    \E seen \in [Row -> UNION {Report(p, i) : i \in Row}] :
        /\ \A i \in Row : seen[i] \in Report(p, i)
        /\ Check(p, seen)

-----------------------------------------------------------------------------
\* The program starts again; state.json is read, or cannot be
\* read, or is made anew, which may fail as well.
Restart ==
    /\ loaded' = FALSE
    /\ receipts' = {}
    /\ persistence' = [p \in Provider |-> None]
    /\ bound' = [p \in Provider |-> None]
    /\ \/ /\ held' = stored
          /\ salt' = TRUE
          /\ UNCHANGED stored
          /\ excused' = excused \cup {k \in warned : k[1] \in unsaved \/ ~salt \/ k[2] \notin Persistent}
       \/ /\ held' = NewDocument
          /\ salt' \in BOOLEAN
          /\ stored' \in IF salt' THEN {NewDocument} ELSE {stored, NewDocument}
          /\ excused' = warned
    /\ unsaved' = {}
    /\ again' = {}
    /\ UNCHANGED <<legacy, window, warned, owed, inherited>>

\* The limit resets: nobody has been told of the next window.
NextWindow(p, i) ==
    LET Others(ks) == {k \in ks : k[1] # p \/ k[3] # i}
    IN  /\ window[<<p, i>>] < Windows
        /\ window' = [window EXCEPT ![<<p, i>>] = @ + 1]
        /\ warned' = Others(warned)
        /\ again' = {}
        /\ owed' = Others(owed)
        /\ excused' = Others(excused)
        /\ inherited' = Others(inherited)
        /\ UNCHANGED <<receipts, loaded, persistence, salt, held, stored, legacy, bound, unsaved>>

Next == \/ \E p \in Provider : ChangeAccount(p) \/ Observation(p) \/ \E i \in Row : NextWindow(p, i)
        \/ Restart

Spec == Init /\ [][Next]_vars

-----------------------------------------------------------------------------
TypeOK == /\ receipts \subseteq Receipt
          /\ loaded \in BOOLEAN
          /\ persistence \in [Provider -> {None, "stable", "process"}]
          /\ salt \in BOOLEAN
          /\ held \in Document
          /\ stored \in Document
          /\ legacy \in [Provider \X Row -> Instant \cup {None}]
          /\ bound \in [Provider -> Account \cup {None}]
          /\ window \in [Provider \X Row -> 1..Windows]
          /\ {warned, again, owed, excused, inherited} \subseteq SUBSET Key
          /\ unsaved \subseteq Provider

\* Percent climbing inside one window fires once, neither polling nor a restart
\* repeats an alert (ARCHITECTURE.md, lines 179 and 182): an account that has been
\* told of its window is not told again.
\* The code keeps this however often an account is polled and however the
\* reported instant drifts, and breaks it in three cases: the instant by which a
\* receipt knows its window is missing from a report, the account is given up (a
\* 401 is enough) and comes back, or the program ends without a receipt in
\* state.json that its next start can read and use.
OnceWhileKept == again \subseteq excused

\* A window that reaches the threshold at a known instant is announced: no
\* receipt of an earlier window, another account or another provider silences it.
NeverSilenced == owed \subseteq inherited

\* Only receipts of stable identities, and of one account per provider, are saved.
SavedReceiptsAreOwn ==
    /\ \A r \in stored.receipts : r.account \in Persistent
    /\ \A r, s \in stored.receipts : r.provider = s.provider => r.account = s.account
==============================================================================
