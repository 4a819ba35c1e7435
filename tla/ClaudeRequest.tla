---------------------------- MODULE ClaudeRequest ----------------------------
(***************************************************************************)
(* How a worker of api.rs prepares and runs a Claude usage request while   *)
(* Claude Code signs in and out.  The token is in .credentials.json, the   *)
(* identity of the account in .claude.json: two files, read and written    *)
(* one after the other.  The plan shown with the usage comes from a cache  *)
(* that all workers share, from the profile endpoint (asked with the       *)
(* token), or from .claude.json.  Usage, plan and identity are named by    *)
(* the account they belong to.                                             *)
(***************************************************************************)
EXTENDS Naturals

CONSTANTS Account, None, Worker,
          MaxSignIns    \* bound: how often Claude Code changes its files

VARIABLES credentials,  \* .credentials.json
          identity,     \* .claude.json: the account and the plan it caches
          signing,      \* what Claude Code has left to write
          signIns,
          worker,       \* the workers
          cache,        \* PLAN_CACHE
          answer,       \* what the last worker returned
          crossed       \* history: the reads of some worker crossed a sign-in

files == <<credentials, identity, signing, signIns>>
vars == <<files, worker, cache, answer, crossed>>

NoToken == "empty"

Unreadable == {"missing", "torn", "locked"}

CredentialsFile == [state : Unreadable \cup {"written"}, token : Account \cup {NoToken}, scope : BOOLEAN]

\* Whatever is in a file that cannot be read.
Damaged(how) == [state |-> how, token |-> NoToken, scope |-> FALSE]

Identity == [account : Account, plan : Account \cup {None}]

\* An account key is derived from the stable identifier or from the token.
AccountKey == [by : {"identifier", "token"}, of : Account]

PreparationFailureKind == {"Missing", "TemporarilyUnreadable", "Malformed", "UsageScope",
                           "IdentityUnavailable"}

Outcome == [kind : PreparationFailureKind \cup {"Ok", "Failure"}, key : AccountKey \cup {None},
            usage : Account \cup {None}, plan : Account \cup {None}]

Failed(kind) == [kind |-> kind, key |-> None, usage |-> None, plan |-> None]

Request == [at : {"idle", "credentials", "identity", "usage", "lookup", "profile", "store", "kept"},
            tries : 0..2, seen : BOOLEAN, malformed : BOOLEAN, moved : BOOLEAN,
            token : Account \cup {None}, key : AccountKey \cup {None},
            local : Account \cup {None}, plan : Account \cup {None}]

Idle == [at |-> "idle", tries |-> 0, seen |-> FALSE, malformed |-> FALSE, moved |-> FALSE,
         token |-> None, key |-> None, local |-> None, plan |-> None]

Init == /\ credentials = Damaged("missing")
        /\ identity = None
        /\ signing = None
        /\ signIns = 0
        /\ worker = [w \in Worker |-> Idle]
        /\ cache = None
        /\ answer = Failed("Missing")
        /\ crossed = FALSE

-----------------------------------------------------------------------------
\* Claude Code: a sign-in rewrites both files, in either order, and a rewritten
\* file is torn or locked for a while; a refreshed token is a sign-in to the
\* same account.  A worker between its two reads takes note.
Moves(w) == IF worker[w].at = "identity" THEN [worker[w] EXCEPT !.moved = TRUE] ELSE worker[w]

Disturb == /\ worker' = [w \in Worker |-> Moves(w)]
           /\ UNCHANGED <<cache, answer, crossed>>

SignIn(a) ==
    /\ signing = None /\ signIns < MaxSignIns
    /\ signing' = [to |-> a, files |-> {"credentials", "identity"}]
    /\ signIns' = signIns + 1
    /\ UNCHANGED <<credentials, identity>>
    /\ Disturb

SignOut ==
    /\ signing = None /\ signIns < MaxSignIns /\ credentials.state # "missing"
    /\ credentials' = Damaged("missing")
    /\ identity' = None
    /\ signIns' = signIns + 1
    /\ UNCHANGED signing
    /\ Disturb

Written(file) == IF signing.files = {file} THEN None ELSE [signing EXCEPT !.files = @ \ {file}]

WriteCredentials ==
    /\ signing # None /\ "credentials" \in signing.files
    /\ \/ /\ credentials.state \notin {"torn", "locked"}
          /\ credentials' \in {Damaged("torn"), Damaged("locked")}
          /\ UNCHANGED signing
       \/ /\ \E scope \in BOOLEAN, t \in {signing.to, NoToken} :
                credentials' = [state |-> "written", token |-> t, scope |-> scope]
          /\ signing' = Written("credentials")
    /\ UNCHANGED <<identity, signIns>>
    /\ Disturb

WriteIdentity ==
    /\ signing # None /\ "identity" \in signing.files
    /\ \/ /\ identity # None
          /\ identity' = None
          /\ UNCHANGED signing
       \/ /\ \E plan \in {signing.to, None} : identity' = [account |-> signing.to, plan |-> plan]
          /\ signing' = Written("identity")
    /\ UNCHANGED <<credentials, signIns>>
    /\ Disturb

-----------------------------------------------------------------------------
\* prepare
Step(w, to) == worker' = [worker EXCEPT ![w] = to]

PreparationFails(w, kind) == /\ Step(w, Idle)
                             /\ answer' = Failed(kind)
                             /\ UNCHANGED <<files, cache, crossed>>

Begin(w) == /\ worker[w].at = "idle"
            /\ Step(w, [Idle EXCEPT !.at = "credentials"])
            /\ UNCHANGED <<files, cache, answer, crossed>>

\* read_json_with_retry: the kind of failure after three attempts.
Failure(seen, malformed) == IF malformed THEN "Malformed"
                            ELSE IF seen THEN "TemporarilyUnreadable"
                            ELSE "Missing"

\* A failed attempt to open or to parse the file.
RetryCredentials(w) ==
    LET r == worker[w]
        seen == r.seen \/ credentials.state # "missing"
        malformed == r.malformed \/ credentials.state = "torn"
    IN  /\ r.at = "credentials" /\ credentials.state \in Unreadable
        /\ IF r.tries = 2 THEN PreparationFails(w, Failure(seen, malformed))
           ELSE /\ Step(w, [r EXCEPT !.tries = @ + 1, !.seen = seen, !.malformed = malformed])
                /\ UNCHANGED <<files, cache, answer, crossed>>

ReadCredentials(w) ==
    /\ worker[w].at = "credentials" /\ credentials.state = "written"
    /\ IF ~credentials.scope THEN PreparationFails(w, "UsageScope")
       ELSE IF credentials.token = NoToken THEN PreparationFails(w, "Malformed")
       ELSE /\ Step(w, [Idle EXCEPT !.at = "identity", !.token = credentials.token])
            /\ UNCHANGED <<files, cache, answer, crossed>>

\* derive_account_context: no salt and no random numbers make it fail.
Key(token) == IF identity # None THEN [by |-> "identifier", of |-> identity.account]
              ELSE [by |-> "token", of |-> token]

ReadIdentity(w) ==
    LET r == worker[w] IN
    /\ r.at = "identity"
    /\ \/ PreparationFails(w, "IdentityUnavailable")
       \/ /\ Step(w, [r EXCEPT !.at = "usage", !.key = Key(r.token), !.moved = FALSE,
                               !.local = IF identity # None THEN identity.plan ELSE None])
          /\ crossed' = (crossed \/ r.moved \/ signing # None)
          /\ UNCHANGED <<files, cache, answer>>

-----------------------------------------------------------------------------
\* fetch_inner, resolve_plan
Return(w, plan) == /\ Step(w, Idle)
                   /\ answer' = [kind |-> "Ok", key |-> worker[w].key, usage |-> worker[w].token, plan |-> plan]
                   /\ UNCHANGED <<files, crossed>>

FetchUsage(w) ==
    /\ worker[w].at = "usage"
    /\ \/ Step(w, [worker[w] EXCEPT !.at = "lookup"]) /\ UNCHANGED answer
       \/ Step(w, Idle) /\ answer' = Failed("Failure")
    /\ UNCHANGED <<files, cache, crossed>>

\* Mutant of Cached: the cache does not ask whose plan it holds.
CachedForAnyone(w, key) == cache # None /\ (cache.fresh \/ w \in cache.late)

\* cached_plan; "late" are the workers whose clock was read before the entry expired.
Cached(w, key) == cache # None /\ cache.key = key /\ (cache.fresh \/ w \in cache.late)

LookUpPlan(w) ==
    /\ worker[w].at = "lookup"
    /\ IF cache # None /\ cache.fresh /\ Cached(w, worker[w].key)
       THEN Return(w, cache.plan) /\ UNCHANGED cache
       ELSE /\ Step(w, [worker[w] EXCEPT !.at = "profile"])
            /\ cache' = IF cache = None THEN None ELSE [cache EXCEPT !.late = @ \ {w}]
            /\ UNCHANGED <<files, answer, crossed>>

\* The profile endpoint answers for the token, with or without a plan, or not at all.
FetchPlan(w) ==
    LET r == worker[w] IN
    /\ r.at = "profile"
    /\ \E plan \in {r.token, r.local} :
          Step(w, IF plan = None THEN [r EXCEPT !.at = "kept"]
                  ELSE [r EXCEPT !.at = "store", !.plan = plan])
    /\ UNCHANGED <<files, cache, answer, crossed>>

StorePlan(w) ==
    /\ worker[w].at = "store"
    /\ cache' = [key |-> worker[w].key, plan |-> worker[w].plan, fresh |-> TRUE, late |-> {}]
    /\ Return(w, worker[w].plan)

KeepPlan(w) ==
    /\ worker[w].at = "kept"
    /\ Return(w, IF Cached(w, worker[w].key) THEN cache.plan ELSE None)
    /\ UNCHANGED cache

\* An hour after it was observed.
ExpirePlan ==
    /\ cache # None /\ cache.fresh
    /\ cache' = [cache EXCEPT !.fresh = FALSE,
                              !.late = {w \in Worker : worker[w].at \in {"profile", "store", "kept"}}]
    /\ UNCHANGED <<files, worker, answer, crossed>>

-----------------------------------------------------------------------------
ClaudeCode == (\E a \in Account : SignIn(a)) \/ SignOut \/ WriteCredentials \/ WriteIdentity

Work(w) == \/ Begin(w) \/ RetryCredentials(w) \/ ReadCredentials(w) \/ ReadIdentity(w)
           \/ FetchUsage(w) \/ LookUpPlan(w) \/ FetchPlan(w) \/ StorePlan(w) \/ KeepPlan(w)

Next == ClaudeCode \/ ExpirePlan \/ \E w \in Worker : Work(w)

Spec == Init /\ [][Next]_vars

-----------------------------------------------------------------------------
TypeOK == /\ credentials \in CredentialsFile
          /\ identity \in Identity \cup {None}
          /\ worker \in [Worker -> Request]
          /\ cache # None => /\ cache.key \in AccountKey
                             /\ cache.plan \in Account
          /\ answer \in Outcome
          /\ signIns \in 0..MaxSignIns

\* A concurrent account switch cannot attach another account's plan to a
\* snapshot (ARCHITECTURE.md, line 128).
PlanIsOwn == answer.kind = "Ok" => answer.plan \in {None, answer.key.of}

\* As long as no worker's two reads cross a sign-in, usage and plan belong to
\* the account they are reported for, although workers of several accounts
\* share the cache and a sign-in may fall between any other two steps.
AnswersAreOwn == ~crossed /\ answer.kind = "Ok" => /\ answer.usage = answer.key.of
                                                   /\ PlanIsOwn
==============================================================================
