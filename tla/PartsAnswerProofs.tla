-------------------------- MODULE PartsAnswerProofs --------------------------
(*****************************************************************************)
(* Proofs about the parts that work with what somebody else answers: the     *)
(* Claude sign-in and the cards that cancel it, the workers that ask         *)
(* Anthropic while Claude Code signs in, the Codex clients that share one    *)
(* profile directory, the update checks that share one flag, and the rows    *)
(* of limits that every adapter makes of an answer, with their pace.         *)
(*****************************************************************************)
EXTENDS PartsFileProofs

\* A flag that no sign-in has seen yet stands for a cancel that has ended none.
AuthInv == /\ Auth!TypeOK
           /\ card = "cancel" => asked < clicks
           /\ authWorker.pc # "none" => authBusy
           /\ cancelled <= asked
           /\ cancel /\ authWorker.pc \notin {"finish", "clear"} => cancelled < asked

\* Counters of a sign-in thread.
SignInPc == {"start", "cancel", "wait", "stamp", "finish", "clear", "free"}

\* A sign-in thread that moves on.
LEMMA SignInGoes ==
  ASSUME NEW r \in Auth!Thread, NEW pc \in SignInPc
  PROVE  [r EXCEPT !.pc = pc] \in Auth!Thread /\ [r EXCEPT !.pc = pc].pc = pc
BY DEF Auth!Thread, SignInPc

\* A sign-in thread that notes what it has read.
LEMMA WorkerTakes ==
  ASSUME NEW r \in Auth!Thread
  PROVE  /\ \A n \in 0..MaxStamp :
              /\ [r EXCEPT !.pc = "stamp", !.before = n] \in Auth!Thread
              /\ [r EXCEPT !.pc = "stamp", !.before = n].pc = "stamp"
         /\ \A x \in Auth!Connection :
              /\ [r EXCEPT !.pc = "finish", !.result = x] \in Auth!Thread
              /\ [r EXCEPT !.pc = "finish", !.result = x].pc = "finish"
         /\ \A login \in BOOLEAN :
              /\ [r EXCEPT !.pc = "start", !.login = login] \in Auth!Thread
              /\ [r EXCEPT !.pc = "start", !.login = login].pc = "start"
<1>1. ASSUME NEW n \in 0..MaxStamp
      PROVE  /\ [r EXCEPT !.pc = "stamp", !.before = n] \in Auth!Thread
             /\ [r EXCEPT !.pc = "stamp", !.before = n].pc = "stamp"
  BY DEF Auth!Thread
<1>2. ASSUME NEW x \in Auth!Connection
      PROVE  /\ [r EXCEPT !.pc = "finish", !.result = x] \in Auth!Thread
             /\ [r EXCEPT !.pc = "finish", !.result = x].pc = "finish"
  BY DEF Auth!Thread
<1>3. ASSUME NEW login \in BOOLEAN
      PROVE  /\ [r EXCEPT !.pc = "start", !.login = login] \in Auth!Thread
             /\ [r EXCEPT !.pc = "start", !.login = login].pc = "start"
  BY DEF Auth!Thread
<1> QED BY <1>1, <1>2, <1>3

\* No sign-in thread.
LEMMA NoWorkerTyped == Auth!NoWorker \in Auth!Thread /\ Auth!NoWorker.pc = "none"
BY SignInAssumption DEF Auth!Thread, Auth!NoWorker

\* What the CLI and the credentials file answer.
LEMMA StatusTyped ==
  ASSUME Auth!TypeOK
  PROVE  Auth!QueryStatus \in Auth!Connection /\ Auth!CredentialsStamp \in 0..MaxStamp
BY SignInAssumption DEF Auth!TypeOK, Auth!QueryStatus, Auth!CredentialsStamp, Auth!Connection

\* The invariant holds at the start.
LEMMA AuthInit == ASSUME Auth!Init PROVE AuthInv
<1>1. authWorker \in Auth!Thread /\ messages \in Seq(BOOLEAN)
  BY NoWorkerTyped DEF Auth!Init
<1>2. stamp \in 0..MaxStamp /\ clicks \in 0..MaxClicks /\ asked \in 0..clicks
      /\ cancelled \in Nat /\ cancelled <= asked /\ ~ cancel /\ card # "cancel"
      /\ authWorker.pc = "none"
  BY NoWorkerTyped, SignInAssumption DEF Auth!Init
<1>3. Auth!TypeOK
  BY <1>1, <1>2 DEF Auth!Init, Auth!TypeOK
<1> QED
  BY <1>2, <1>3 DEF AuthInv

\* A thread that has been spawned.
LEMMA SpawnedWorker ==
  ASSUME NEW login \in BOOLEAN, Auth!Spawn(login)
  PROVE  authWorker' \in Auth!Thread /\ authWorker'.pc = "start" /\ authBusy' = TRUE /\ called' = FALSE
BY WorkerTakes, NoWorkerTyped DEF Auth!Spawn

\* What the window thread does.
LEMMA CardStep ==
  ASSUME AuthInv,
         Auth!OpenSettings \/ Auth!ClickCard \/ Auth!CancelInteractive \/ Auth!AuthReady
  PROVE  AuthInv'
<1> USE DEF AuthInv
<1>1. CASE Auth!OpenSettings
  <2>1. authWorker' \in Auth!Thread /\ authWorker'.pc = "start" /\ authBusy' = TRUE
        /\ called' = FALSE
    BY <1>1, SpawnedWorker DEF Auth!OpenSettings
  <2>2. clicks' \in 0..MaxClicks /\ asked' \in 0..clicks'
    BY <1>1, SignInAssumption DEF Auth!TypeOK, Auth!OpenSettings
  <2>3. Auth!TypeOK'
    BY <1>1, <2>1, <2>2 DEF Auth!TypeOK, Auth!OpenSettings
  <2> QED BY <1>1, <2>1, <2>3 DEF Auth!TypeOK, Auth!OpenSettings, Auth!Spawn
<1>2. CASE Auth!ClickCard /\ authBusy
  <2>1. clicks' \in 0..MaxClicks /\ asked' \in 0..clicks' /\ asked' < clicks'
    BY <1>2, SignInAssumption DEF Auth!TypeOK, Auth!ClickCard
  <2>2. Auth!TypeOK'
    BY <1>2, <2>1 DEF Auth!TypeOK, Auth!ClickCard
  <2> QED BY <1>2, <2>1, <2>2 DEF Auth!TypeOK, Auth!ClickCard
<1>3. CASE Auth!ClickCard /\ ~ authBusy
  <2>0. \E login \in BOOLEAN : Auth!Spawn(login)
    BY <1>3 DEF Auth!ClickCard
  <2>1. authWorker' \in Auth!Thread /\ authWorker'.pc = "start" /\ authBusy' = TRUE
        /\ called' = FALSE
    BY <2>0, SpawnedWorker
  <2>2. clicks' \in 0..MaxClicks /\ asked' \in 0..clicks' /\ card' = card /\ card = "idle"
    BY <1>3, SignInAssumption DEF Auth!TypeOK, Auth!ClickCard
  <2>3. Auth!TypeOK'
    BY <1>3, <2>1, <2>2 DEF Auth!TypeOK, Auth!ClickCard
  <2> QED BY <1>3, <2>1, <2>2, <2>3 DEF Auth!TypeOK, Auth!ClickCard
<1>4. CASE Auth!CancelInteractive
  <2>1. clicks' \in 0..MaxClicks /\ asked' \in 0..clicks' /\ cancelled' < asked'
    BY <1>4 DEF Auth!TypeOK, Auth!CancelInteractive
  <2>2. Auth!TypeOK'
    BY <1>4, <2>1 DEF Auth!TypeOK, Auth!CancelInteractive
  <2> QED BY <1>4, <2>1, <2>2 DEF Auth!TypeOK, Auth!CancelInteractive
<1>5. CASE Auth!AuthReady
  <2>1. messages' \in Seq(BOOLEAN)
    BY <1>5, HeadTailProperties DEF Auth!TypeOK, Auth!AuthReady
  <2>2. Auth!TypeOK'
    BY <1>5, <2>1 DEF Auth!TypeOK, Auth!AuthReady
  <2> QED BY <1>5, <2>2 DEF Auth!TypeOK, Auth!AuthReady
<1> QED BY <1>1, <1>2, <1>3, <1>4, <1>5

\* A step of the thread that counts no cancel.
LEMMA ThreadStep ==
  ASSUME AuthInv, authWorker' \in Auth!Thread,
         authWorker.pc # "none", authWorker'.pc # "none",
         UNCHANGED <<authBusy, card, stamp, signed, messages, clicks, asked, cancelled, called>>,
         connection' \in Auth!Connection \cup {None},
         cli' \in {"none", "runs", "done", "failed"},
         \/ cancel' = FALSE
         \/ cancel' = cancel /\ (authWorker.pc \in {"finish", "clear"}
                                   => authWorker'.pc \in {"finish", "clear"})
  PROVE  AuthInv'
<1> USE DEF AuthInv
<1>1. cancel' \in BOOLEAN
  BY DEF Auth!TypeOK
<1>2. Auth!TypeOK'
  BY <1>1 DEF Auth!TypeOK
<1> QED BY <1>2 DEF Auth!TypeOK

\* The steps of the thread.
LEMMA BrokerStep ==
  ASSUME AuthInv,
         \/ Auth!Begin \/ Auth!LookAtStamp \/ Auth!LookAtCancel \/ Auth!LookAtCli
         \/ Auth!StoreConnection \/ Auth!ClearCancel \/ Auth!FreeBroker
  PROVE  AuthInv'
<1>0. /\ authWorker \in Auth!Thread /\ connection \in Auth!Connection \cup {None}
      /\ cli \in {"none", "runs", "done", "failed"}
      /\ Auth!QueryStatus \in Auth!Connection /\ Auth!CredentialsStamp \in 0..MaxStamp
  BY StatusTyped DEF AuthInv, Auth!TypeOK
<1>a. ASSUME NEW pc \in SignInPc, Auth!Goto(pc)
      PROVE  authWorker' \in Auth!Thread /\ authWorker'.pc = pc
  BY <1>0, <1>a, SignInGoes DEF Auth!Goto
<1>b. ASSUME NEW x \in Auth!Connection, Auth!Ends(x)
      PROVE  authWorker' \in Auth!Thread /\ authWorker'.pc = "finish"
  BY <1>0, <1>b, WorkerTakes DEF Auth!Ends
<1>d. ASSUME NEW n \in 0..MaxStamp, authWorker' = [authWorker EXCEPT !.pc = "stamp", !.before = n]
      PROVE  authWorker' \in Auth!Thread /\ authWorker'.pc = "stamp"
  BY <1>0, <1>d, WorkerTakes
<1>c. {"Connected", "CliUnavailable", "Problem"} \subseteq Auth!Connection
      /\ {"stamp", "cancel", "wait", "clear", "free"} \subseteq SignInPc
  BY DEF Auth!Connection, SignInPc
<1>1. CASE Auth!Begin
  <2>1. Auth!Ends(Auth!QueryStatus) \/ Auth!Ends("CliUnavailable")
          => authWorker' \in Auth!Thread /\ authWorker'.pc = "finish"
    BY <1>0, <1>b, <1>c
  <2>2. authWorker' = [authWorker EXCEPT !.pc = "stamp", !.before = Auth!CredentialsStamp]
          => authWorker' \in Auth!Thread /\ authWorker'.pc = "stamp"
    BY <1>0, <1>d
  <2>3. /\ \/ Auth!Ends(Auth!QueryStatus) \/ Auth!Ends("CliUnavailable")
           \/ authWorker' = [authWorker EXCEPT !.pc = "stamp", !.before = Auth!CredentialsStamp]
        /\ cli' \in {cli, "runs"}
    BY <1>1 DEF Auth!Begin
  <2>4. authWorker' \in Auth!Thread /\ authWorker'.pc \in {"finish", "stamp"}
        /\ cli' \in {"none", "runs", "done", "failed"}
    BY <1>0, <2>1, <2>2, <2>3
  <2> QED BY <1>0, <1>1, <2>4, ThreadStep DEF Auth!Begin
<1>2. CASE Auth!LookAtStamp
  <2>1. authWorker' \in Auth!Thread /\ authWorker'.pc \in {"finish", "cancel"}
    BY <1>a, <1>b, <1>c, <1>2 DEF Auth!LookAtStamp
  <2> QED BY <1>0, <1>2, <2>1, ThreadStep DEF Auth!LookAtStamp
<1>3. CASE Auth!LookAtCancel /\ cancel
  <2>1. authWorker' \in Auth!Thread /\ authWorker'.pc = "finish"
    BY <1>0, <1>b, <1>3 DEF Auth!LookAtCancel
  <2>2. cancelled' \in Nat /\ cancelled' <= asked'
    BY <1>3 DEF Auth!LookAtCancel, AuthInv, Auth!TypeOK
  <2>3. Auth!TypeOK'
    BY <1>3, <2>1, <2>2 DEF Auth!LookAtCancel, AuthInv, Auth!TypeOK
  <2> QED BY <1>3, <2>1, <2>2, <2>3 DEF Auth!LookAtCancel, AuthInv, Auth!TypeOK
<1>4. CASE Auth!LookAtCancel /\ ~ cancel
  <2>1. authWorker' \in Auth!Thread /\ authWorker'.pc = "wait"
    BY <1>a, <1>c, <1>4 DEF Auth!LookAtCancel
  <2> QED BY <1>0, <1>4, <2>1, ThreadStep DEF Auth!LookAtCancel
<1>5. CASE Auth!LookAtCli
  <2>1. \/ \E x \in Auth!Connection : Auth!Ends(x) /\ cli' \in {cli, "none"}
        \/ Auth!Goto("stamp") /\ UNCHANGED cli
    BY <1>0, <1>c, <1>5 DEF Auth!LookAtCli
  <2>2. authWorker' \in Auth!Thread /\ authWorker'.pc \in {"finish", "stamp"}
        /\ cli' \in {"none", "runs", "done", "failed"}
    BY <1>0, <1>a, <1>b, <1>c, <2>1
  <2> QED BY <1>0, <1>5, <2>2, ThreadStep DEF Auth!LookAtCli
<1>6. CASE Auth!StoreConnection
  <2>1. authWorker' \in Auth!Thread /\ authWorker'.pc = "clear"
    BY <1>a, <1>c, <1>6 DEF Auth!StoreConnection
  <2>2. connection' \in Auth!Connection \cup {None}
    BY <1>0, <1>6 DEF Auth!StoreConnection, Auth!Thread
  <2> QED BY <1>0, <1>6, <2>1, <2>2, ThreadStep DEF Auth!StoreConnection
<1>7. CASE Auth!ClearCancel
  <2>1. authWorker' \in Auth!Thread /\ authWorker'.pc = "free"
    BY <1>a, <1>c, <1>7 DEF Auth!ClearCancel
  <2> QED BY <1>0, <1>7, <2>1, ThreadStep DEF Auth!ClearCancel
<1>8. CASE Auth!FreeBroker
  <2>1. authWorker' \in Auth!Thread /\ authWorker'.pc = "none" /\ authBusy' = FALSE
    BY <1>8, NoWorkerTyped DEF Auth!FreeBroker
  <2>2. messages' \in Seq(BOOLEAN)
    BY <1>0, <1>8, AppendProperties DEF Auth!FreeBroker, AuthInv, Auth!TypeOK, Auth!Thread
  <2>3. Auth!TypeOK'
    BY <1>8, <2>1, <2>2 DEF Auth!FreeBroker, AuthInv, Auth!TypeOK
  <2> QED BY <1>8, <2>1, <2>3 DEF Auth!FreeBroker, AuthInv, Auth!TypeOK
<1> QED BY <1>1, <1>2, <1>3, <1>4, <1>5, <1>6, <1>7, <1>8

\* The CLI and the user work the credentials file.
LEMMA CliStep ==
  ASSUME AuthInv, Auth!Cli
  PROVE  AuthInv'
<1>1. stamp' \in 0..MaxStamp /\ signed' \in BOOLEAN
      /\ cli' \in {"none", "runs", "done", "failed"}
  <2>0. stamp \in 0..MaxStamp /\ signed \in BOOLEAN /\ cli \in {"none", "runs", "done", "failed"}
    BY DEF AuthInv, Auth!TypeOK
  <2>1. CASE stamp < MaxStamp /\ stamp' = stamp + 1 /\ signed' = TRUE /\ UNCHANGED cli
    <3>1. stamp' \in 0..MaxStamp
      BY <2>0, <2>1, SignInAssumption
    <3> QED BY <2>0, <2>1, <3>1
  <2>2. CASE signed' = FALSE /\ UNCHANGED <<stamp, cli>>
    BY <2>0, <2>2
  <2>3. CASE cli' \in {"done", "failed"} /\ UNCHANGED <<stamp, signed>>
    BY <2>0, <2>3
  <2> QED BY <2>1, <2>2, <2>3 DEF Auth!Cli
<1>2. Auth!TypeOK'
  BY <1>1 DEF AuthInv, Auth!TypeOK, Auth!Cli
<1> QED BY <1>2 DEF AuthInv, Auth!TypeOK, Auth!Cli

\* auth.rs: whatever the order in which the user's cancels, the thread's looks at the flag and
\* the ends of the CLI fall, no cancel ends more than one sign-in.
THEOREM CancelsOnce == Spec => []OneCancelEach
<1>1. Init => AuthInv
  BY AuthInit DEF Init
<1>2. ASSUME AuthInv, [Next]_vars PROVE AuthInv'
  <2>1. CASE AuthStep
    BY <1>2, <2>1, CardStep, BrokerStep, CliStep DEF AuthStep
  <2>2. CASE (Next /\ ~ AuthStep) \/ UNCHANGED vars
    <3>1. UNCHANGED sign_inVars
      BY <2>2 DEF Next, vars, StoreStep, AlertsStep, ConfigStep, CodexStep, RequestStep, LogStep,
                  CheckStep, UsageStep, VerdictStep, InStore, InAlerts, InConfig, InCodex,
                  InRequest, InLog, InCheck, InUsage, InVerdict
    <3> QED BY <1>2, <3>1 DEF AuthInv, Auth!TypeOK, sign_inVars
  <2> QED BY <1>2, <2>1, <2>2
<1>3. AuthInv => OneCancelEach
  BY DEF AuthInv, OneCancelEach, Auth!OneCancelEach
<1> QED BY <1>1, <1>2, <1>3, PTL DEF Spec

-----------------------------------------------------------------------------
\* What Claude Code has left to write.
Signing == [to : Account, files : SUBSET {"credentials", "identity"}]

\* The two files belong together, except while Claude Code writes them.
FilesInv ==
    /\ signing \in Signing \cup {None}
    /\ identity # None => identity.plan \in {None, identity.account}
    /\ signing = None /\ credentials.state = "written" /\ credentials.token # Request!NoToken
         /\ identity # None => identity.account = credentials.token
    /\ signing # None =>
         /\ "credentials" \notin signing.files => credentials.token \in {signing.to, Request!NoToken}
         /\ "identity" \notin signing.files /\ identity # None => identity.account = signing.to

\* Past its two reads a worker holds one account, as long as none crossed a sign-in.
Asks(r, met, left, named) ==
    /\ r.at = "identity" =>
         /\ r.token \in Account
         /\ ~ r.moved /\ left = None /\ named # None => named.account = r.token
    /\ r.at \in {"usage", "lookup", "profile", "store", "kept"} =>
         /\ r.token \in Account /\ r.key \in Request!AccountKey
         /\ ~ met => r.key.of = r.token /\ r.local \in {None, r.token}
    /\ r.at = "store" => r.plan \in Account /\ (~ met => r.plan = r.token)

\* The same before and after a step.
AsksNow(r) == Asks(r, crossed, signing, identity)
AsksNext(r) == Asks(r, crossed', signing', identity')

\* A cached plan belongs to its key, or was fetched across a sign-in.
CacheInv == cache # None => /\ cache.key \in Request!AccountKey /\ cache.plan \in Account
                            /\ ~ crossed => cache.plan = cache.key.of

\* What is stated, of a well-typed answer.
AnswerInv == /\ answer \in Request!Outcome
             /\ Request!AnswersAreOwn

\* The inductive invariant.
ClaudeInv == /\ credentials \in Request!CredentialsFile
             /\ identity \in Request!Identity \cup {None}
             /\ worker \in [Worker -> Request!Request]
             /\ signIns \in 0..MaxSignIns
             /\ FilesInv /\ CacheInv /\ AnswerInv
             /\ \A w \in Worker : AsksNow(worker[w])

-----------------------------------------------------------------------------

\* Credentials that cannot be used name nobody.
LEMMA DamagedTyped ==
  ASSUME NEW how \in Request!Unreadable
  PROVE  Request!Damaged(how) \in Request!CredentialsFile /\ Request!Damaged(how).state # "written"
         /\ Request!Damaged(how).token = Request!NoToken
BY DEF Request!Damaged, Request!CredentialsFile, Request!Unreadable

\* Claude Code's steps: of the workers, those between their reads take note.
LEMMA Disturbed ==
  ASSUME ClaudeInv, Request!Disturb
  PROVE  /\ worker' \in [Worker -> Request!Request]
         /\ \A w \in Worker : AsksNext(worker'[w])
         /\ UNCHANGED <<cache, answer, crossed>>
<1>1. ASSUME NEW w \in Worker
      PROVE  Request!Moves(w) \in Request!Request /\ AsksNext(worker'[w])
  <2>1. worker[w] \in Request!Request /\ AsksNow(worker[w]) /\ worker'[w] = Request!Moves(w)
        /\ crossed' = crossed
    BY DEF ClaudeInv, Request!Disturb
  <2>2. CASE worker[w].at = "identity"
    <3>1. Request!Moves(w) = [worker[w] EXCEPT !.moved = TRUE]
      BY <2>2 DEF Request!Moves
    <3>2. /\ Request!Moves(w) \in Request!Request /\ Request!Moves(w).at = "identity"
          /\ Request!Moves(w).moved /\ Request!Moves(w).token = worker[w].token
      BY <2>1, <2>2, <3>1 DEF Request!Request
    <3> QED BY <2>1, <2>2, <3>2 DEF Asks, AsksNow, AsksNext
  <2>3. CASE worker[w].at # "identity"
    BY <2>1, <2>3 DEF Asks, AsksNow, AsksNext, Request!Moves
  <2> QED BY <2>2, <2>3
<1> QED BY <1>1 DEF Request!Disturb

\* One file less to write.
LEMMA WrittenFile ==
  ASSUME signing \in Signing, NEW file \in {"credentials", "identity"}, file \in signing.files
  PROVE  /\ Request!Written(file) \in Signing \cup {None}
         /\ Request!Written(file) # None =>
              /\ Request!Written(file).to = signing.to
              /\ Request!Written(file).files = signing.files \ {file}
         /\ Request!Written(file) = None => signing.files = {file}
BY ClaudeAssumption DEF Request!Written, Signing

\* The steps of Claude Code.
LEMMA ClaudeCodeStep ==
  ASSUME ClaudeInv,
         \/ \E a \in Account : Request!SignIn(a)
         \/ Request!SignOut \/ Request!WriteCredentials \/ Request!WriteIdentity
  PROVE  ClaudeInv'
<1>0. /\ worker' \in [Worker -> Request!Request]
      /\ \A w \in Worker : AsksNext(worker'[w])
      /\ UNCHANGED <<cache, answer, crossed>>
  BY Disturbed DEF Request!SignIn, Request!SignOut, Request!WriteCredentials, Request!WriteIdentity
<1>1. CacheInv' /\ AnswerInv'
  BY <1>0 DEF ClaudeInv, CacheInv, AnswerInv, Request!AnswersAreOwn, Request!PlanIsOwn
<1>2. SUFFICES /\ credentials' \in Request!CredentialsFile
               /\ identity' \in Request!Identity \cup {None}
               /\ signIns' \in 0..MaxSignIns
               /\ FilesInv'
  BY <1>0, <1>1 DEF AsksNow, AsksNext, ClaudeInv
<1>3. /\ credentials \in Request!CredentialsFile /\ identity \in Request!Identity \cup {None}
      /\ signIns \in 0..MaxSignIns /\ FilesInv
  BY DEF ClaudeInv
<1>4. CASE \E a \in Account : Request!SignIn(a)
  <2>1. PICK a \in Account : Request!SignIn(a)
    BY <1>4
  <2>2. signing' \in Signing /\ signing'.files = {"credentials", "identity"} /\ signing = None
        /\ signIns' \in 0..MaxSignIns /\ signing' # None
    BY <1>3, <2>1, ClaudeAssumption DEF Request!SignIn, Signing
  <2>3. FilesInv'
    BY <1>3, <2>1, <2>2 DEF FilesInv, Request!SignIn
  <2> QED BY <1>3, <2>1, <2>2, <2>3 DEF Request!SignIn
<1>5. CASE Request!SignOut
  <2>1. credentials' \in Request!CredentialsFile /\ credentials'.state # "written" /\ identity' = None
        /\ signing' = None /\ signing = None
    BY <1>5, DamagedTyped DEF Request!SignOut, Request!Unreadable
  <2>2. signIns' \in 0..MaxSignIns
    BY <1>3, <1>5, ClaudeAssumption DEF Request!SignOut
  <2> QED BY <2>1, <2>2 DEF FilesInv
<1>6. CASE Request!WriteCredentials
  <2>0. signing \in Signing /\ "credentials" \in signing.files /\ signing # None /\ signIns' = signIns /\ identity' = identity
    BY <1>3, <1>6 DEF Request!WriteCredentials, FilesInv
  <2>1. CASE credentials' \in {Request!Damaged("torn"), Request!Damaged("locked")} /\ UNCHANGED signing
    <3>1. credentials' \in Request!CredentialsFile
      BY <2>1, DamagedTyped DEF Request!Unreadable
    <3> QED BY <1>3, <2>0, <2>1, <3>1 DEF FilesInv
  <2>2. CASE /\ \E scope \in BOOLEAN, t \in {signing.to, Request!NoToken} :
                credentials' = [state |-> "written", token |-> t, scope |-> scope]
             /\ signing' = Request!Written("credentials")
    <3>1. PICK scope \in BOOLEAN, t \in {signing.to, Request!NoToken} :
                credentials' = [state |-> "written", token |-> t, scope |-> scope]
      BY <2>2
    <3>2. t \in Account \cup {Request!NoToken}
      BY <2>0 DEF Signing
    <3>3. credentials' \in Request!CredentialsFile /\ credentials'.token \in {signing.to, Request!NoToken}
      BY <3>1, <3>2 DEF Request!CredentialsFile
    <3>4. FilesInv'
      BY <1>3, <2>0, <2>2, <3>3, WrittenFile DEF FilesInv
    <3> QED BY <1>3, <2>0, <3>3, <3>4
  <2> QED BY <1>6, <2>1, <2>2 DEF Request!WriteCredentials
<1>7. CASE Request!WriteIdentity
  <2>0. signing \in Signing /\ "identity" \in signing.files /\ signing # None /\ signIns' = signIns /\ credentials' = credentials
    BY <1>3, <1>7 DEF Request!WriteIdentity, FilesInv
  <2>1. CASE identity' = None /\ UNCHANGED signing
    BY <1>3, <2>0, <2>1 DEF FilesInv
  <2>2. CASE /\ \E plan \in {signing.to, None} : identity' = [account |-> signing.to, plan |-> plan]
             /\ signing' = Request!Written("identity")
    <3>1. PICK plan \in {signing.to, None} : identity' = [account |-> signing.to, plan |-> plan]
      BY <2>2
    <3>2. plan \in Account \cup {None} /\ signing.to \in Account
      BY <2>0 DEF Signing
    <3>3. identity' \in Request!Identity /\ identity'.account = signing.to /\ identity'.plan \in {None, signing.to}
      BY <3>1, <3>2 DEF Request!Identity
    <3>4. FilesInv'
      BY <1>3, <2>0, <2>2, <3>3, WrittenFile DEF FilesInv
    <3> QED BY <1>3, <2>0, <3>3, <3>4
  <2> QED BY <1>7, <2>1, <2>2 DEF Request!WriteIdentity
<1> QED BY <1>4, <1>5, <1>6, <1>7

\* A step of one worker leaves the files; from here an account change may be noted.
LEMMA WorkerStep ==
  ASSUME ClaudeInv, NEW w \in Worker, NEW s \in Request!Request,
         UNCHANGED <<credentials, identity, signing, signIns>>,
         crossed => crossed',
         worker' = [worker EXCEPT ![w] = s], AsksNext(s),
         CacheInv', AnswerInv'
  PROVE  ClaudeInv'
<1>1. worker' \in [Worker -> Request!Request] /\ worker'[w] = s
      /\ \A x \in Worker : x # w => worker'[x] = worker[x]
  BY DEF ClaudeInv
<1>2. FilesInv'
  BY DEF ClaudeInv, FilesInv
<1>3. ASSUME NEW x \in Worker, x # w PROVE AsksNext(worker'[x])
  <2>1. AsksNow(worker[x]) /\ worker'[x] = worker[x]
    BY <1>1, <1>3 DEF ClaudeInv
  <2> QED BY <2>1 DEF Asks, AsksNow, AsksNext
<1>4. AsksNext(worker'[w])
  BY <1>1 DEF Asks, AsksNow, AsksNext
<1> QED BY <1>1, <1>2, <1>3, <1>4 DEF AsksNow, AsksNext, ClaudeInv

\* A worker at rest.
LEMMA IdleTyped == Request!Idle \in Request!Request /\ Request!Idle.at = "idle"
BY DEF Request!Idle, Request!Request

\* An answer that reports a failure.
LEMMA FailedTyped ==
  ASSUME NEW kind \in Request!PreparationFailureKind \cup {"Failure"}
  PROVE  Request!Failed(kind) \in Request!Outcome /\ Request!Failed(kind).kind # "Ok"
BY DEF Request!Failed, Request!Outcome, Request!PreparationFailureKind

\* A step that leaves the cached plan alone.
LEMMA CacheStays == ASSUME CacheInv, UNCHANGED cache, crossed => crossed' PROVE CacheInv'
BY DEF CacheInv

\* A step that leaves the answer alone.
LEMMA AnswerStays == ASSUME AnswerInv, UNCHANGED answer, crossed => crossed' PROVE AnswerInv'
BY DEF AnswerInv, Request!AnswersAreOwn, Request!PlanIsOwn

\* A worker ends without an answer to its request.
LEMMA WorkerFails ==
  ASSUME ClaudeInv, NEW w \in Worker, NEW kind \in Request!PreparationFailureKind \cup {"Failure"},
         Request!Step(w, Request!Idle), answer' = Request!Failed(kind),
         UNCHANGED <<credentials, identity, signing, signIns, cache, crossed>>
  PROVE  ClaudeInv'
<1>1. CacheInv'
  BY CacheStays DEF ClaudeInv
<1>2. AnswerInv'
  BY FailedTyped DEF AnswerInv, Request!AnswersAreOwn
<1>3. AsksNext(Request!Idle)
  BY IdleTyped DEF Asks, AsksNow, AsksNext, Request!Idle
<1> QED BY <1>1, <1>2, <1>3, IdleTyped, WorkerStep DEF Request!Step

\* What leaves the cache and the answer.
LEMMA RequestGoes ==
  ASSUME ClaudeInv, NEW w \in Worker, NEW s \in Request!Request,
         Request!Step(w, s), AsksNext(s), crossed => crossed',
         UNCHANGED <<credentials, identity, signing, signIns, cache, answer>>
  PROVE  ClaudeInv'
<1>1. CacheInv' /\ AnswerInv'
  BY CacheStays, AnswerStays DEF ClaudeInv
<1> QED BY <1>1, WorkerStep DEF Request!Step

\* The steps of a worker up to its two reads.
LEMMA PrepareStep ==
  ASSUME ClaudeInv, NEW w \in Worker,
         \/ Request!Begin(w) \/ Request!RetryCredentials(w) \/ Request!ReadCredentials(w)
         \/ Request!ReadIdentity(w)
  PROVE  ClaudeInv'
<1> DEFINE r == worker[w]
<1>0. r \in Request!Request /\ AsksNow(r) /\ FilesInv /\ credentials \in Request!CredentialsFile
      /\ identity \in Request!Identity \cup {None}
  BY DEF ClaudeInv
<1>f. ASSUME NEW kind \in Request!PreparationFailureKind, Request!PreparationFails(w, kind)
      PROVE  ClaudeInv'
  BY <1>f, WorkerFails DEF Request!PreparationFails, Request!files
<1>1. CASE Request!Begin(w)
  <2> DEFINE s == [Request!Idle EXCEPT !.at = "credentials"]
  <2>1. s \in Request!Request /\ s.at = "credentials"
    BY IdleTyped DEF Request!Request
  <2> HIDE DEF s
  <2>2. AsksNext(s)
    BY <2>1 DEF Asks, AsksNow, AsksNext
  <2> QED BY <1>1, <2>1, <2>2, RequestGoes DEF Request!Begin, Request!files, s
<1>2. CASE Request!RetryCredentials(w)
  <2> DEFINE seen == r.seen \/ credentials.state # "missing"
             malformed == r.malformed \/ credentials.state = "torn"
             s == [r EXCEPT !.tries = @ + 1, !.seen = seen, !.malformed = malformed]
  <2>1. r.at = "credentials"
    BY <1>2 DEF Request!RetryCredentials
  <2>2. Request!Failure(seen, malformed) \in Request!PreparationFailureKind
    BY DEF Request!Failure, Request!PreparationFailureKind
  <2>3. CASE r.tries = 2
    BY <1>2, <1>f, <2>2, <2>3 DEF Request!RetryCredentials
  <2>4. CASE r.tries # 2
    <3>1. r.tries + 1 \in 0..2
      BY <1>0, <2>4 DEF Request!Request
    <3>2. seen \in BOOLEAN /\ malformed \in BOOLEAN
      BY <1>0 DEF Request!Request
    <3>3. \A n \in 0..2, a \in BOOLEAN, b \in BOOLEAN :
             LET q == [r EXCEPT !.tries = n, !.seen = a, !.malformed = b] IN
             q \in Request!Request /\ q.at = r.at
      BY <1>0 DEF Request!Request
    <3>4. s \in Request!Request /\ s.at = "credentials"
      <4> HIDE DEF seen, malformed
      <4> QED BY <2>1, <3>1, <3>2, <3>3
    <3>5. Request!Step(w, s) /\ UNCHANGED <<Request!files, cache, answer, crossed>>
      BY <1>2, <2>4 DEF Request!RetryCredentials
    <3> HIDE DEF s
    <3>6. AsksNext(s)
      BY <3>4 DEF Asks, AsksNow, AsksNext
    <3> QED BY <3>4, <3>5, <3>6, RequestGoes DEF Request!files
  <2> QED BY <2>3, <2>4
<1>3. CASE Request!ReadCredentials(w)
  <2>1. CASE ~ credentials.scope \/ credentials.token = Request!NoToken
    BY <1>3, <1>f, <2>1 DEF Request!ReadCredentials, Request!PreparationFailureKind
  <2>2. CASE credentials.scope /\ credentials.token # Request!NoToken
    <3> DEFINE s == [Request!Idle EXCEPT !.at = "identity", !.token = credentials.token]
    <3>1. credentials.token \in Account /\ credentials.state = "written"
      BY <1>0, <1>3, <2>2 DEF Request!CredentialsFile, Request!ReadCredentials
    <3>2. s \in Request!Request /\ s.at = "identity" /\ s.token = credentials.token
      BY <3>1, IdleTyped DEF Request!Request
    <3>3. Request!Step(w, s) /\ UNCHANGED <<Request!files, cache, answer, crossed>>
      BY <1>3, <2>2 DEF Request!ReadCredentials
    <3> HIDE DEF s
    <3>4. AsksNext(s)
      BY <1>0, <2>2, <3>1, <3>2, <3>3 DEF Asks, AsksNow, AsksNext, FilesInv, Request!files
    <3> QED BY <3>2, <3>3, <3>4, RequestGoes DEF Request!files
  <2> QED BY <2>1, <2>2
<1>4. CASE Request!ReadIdentity(w)
  <2>1. CASE Request!PreparationFails(w, "IdentityUnavailable")
    BY <1>f, <2>1 DEF Request!PreparationFailureKind
  <2>2. CASE /\ Request!Step(w, [r EXCEPT !.at = "usage", !.key = Request!Key(r.token), !.moved = FALSE,
                               !.local = IF identity # None THEN identity.plan ELSE None])
             /\ crossed' = (crossed \/ r.moved \/ signing # None)
             /\ UNCHANGED <<Request!files, cache, answer>>
    <3> DEFINE k == Request!Key(r.token)
               l == IF identity # None THEN identity.plan ELSE None
               s == [r EXCEPT !.at = "usage", !.key = k, !.moved = FALSE, !.local = l]
    <3>1. r.at = "identity" /\ r.token \in Account
      BY <1>0, <1>4 DEF Request!ReadIdentity, Asks, AsksNow, AsksNext
    <3>2. k \in Request!AccountKey /\ k.of = IF identity # None THEN identity.account ELSE r.token
      BY <1>0, <3>1 DEF Request!Key, Request!AccountKey, Request!Identity
    <3>3. l \in Account \cup {None} /\ (identity # None => l \in {None, identity.account}) /\ (identity = None => l = None)
      BY <1>0 DEF FilesInv, Request!Identity
    <3>4. s \in Request!Request /\ s.at = "usage" /\ s.token = r.token /\ s.key = k /\ s.local = l
      <4> HIDE DEF k, l
      <4> QED BY <1>0, <3>2, <3>3 DEF Request!Request
    <3>5. Request!Step(w, s)
      BY <2>2
    <3> HIDE DEF s, k, l
    <3>6. ~ crossed' => k.of = r.token /\ l \in {None, r.token}
      BY <1>0, <2>2, <3>1, <3>2, <3>3 DEF Asks, AsksNow, AsksNext
    <3>7. AsksNext(s)
      BY <3>1, <3>2, <3>4, <3>6 DEF Asks, AsksNow, AsksNext
    <3> QED BY <2>2, <3>4, <3>5, <3>7, RequestGoes DEF Request!files
  <2> QED BY <1>4, <2>1, <2>2 DEF Request!ReadIdentity
<1> QED BY <1>1, <1>2, <1>3, <1>4

\* A worker returns an answer for its account.
LEMMA WorkerReturns ==
  ASSUME ClaudeInv, NEW w \in Worker, NEW plan \in Account \cup {None}, Request!Return(w, plan),
         worker[w].at \in {"lookup", "store", "kept"},
         ~ crossed => plan \in {None, worker[w].key.of}, CacheInv'
  PROVE  ClaudeInv'
<1>1. /\ worker[w].token \in Account /\ worker[w].key \in Request!AccountKey
      /\ ~ crossed => worker[w].key.of = worker[w].token
  BY DEF ClaudeInv, Asks, AsksNow, AsksNext
<1>2. answer' \in Request!Outcome /\ answer'.usage = worker[w].token /\ answer'.plan = plan
      /\ answer'.key = worker[w].key
  BY <1>1 DEF Request!Return, Request!Outcome
<1>3. AnswerInv'
  BY <1>1, <1>2 DEF AnswerInv, Request!AnswersAreOwn, Request!PlanIsOwn, Request!Return
<1>4. AsksNext(Request!Idle)
  BY IdleTyped DEF Asks, AsksNow, AsksNext, Request!Idle
<1> QED BY <1>3, <1>4, IdleTyped, WorkerStep DEF Request!Return, Request!Step, Request!files

\* The steps of a worker past its two reads.
LEMMA FetchStep ==
  ASSUME ClaudeInv, NEW w \in Worker,
         \/ Request!FetchUsage(w) \/ Request!LookUpPlan(w) \/ Request!FetchPlan(w)
         \/ Request!StorePlan(w) \/ Request!KeepPlan(w)
  PROVE  ClaudeInv'
<1> DEFINE r == worker[w]
<1>0. r \in Request!Request /\ AsksNow(r) /\ CacheInv /\ AnswerInv
  BY DEF ClaudeInv
<1>a. ASSUME NEW a \in {"lookup", "profile", "kept"}, r.at \in {"usage", "lookup", "profile"}, UNCHANGED crossed
      PROVE  [r EXCEPT !.at = a] \in Request!Request /\ AsksNext([r EXCEPT !.at = a])
  <2> DEFINE s == [r EXCEPT !.at = a]
  <2>1. s \in Request!Request /\ s.at = a /\ s.token = r.token /\ s.key = r.key /\ s.local = r.local
    BY <1>0 DEF Request!Request
  <2> HIDE DEF s
  <2>2. AsksNext(s)
    BY <1>0, <1>a, <2>1 DEF Asks, AsksNow, AsksNext
  <2> QED BY <2>1, <2>2 DEF s
<1>1. CASE Request!FetchUsage(w)
  <2>1. CASE Request!Step(w, Request!Idle) /\ answer' = Request!Failed("Failure")
    BY <1>1, <2>1, WorkerFails DEF Request!FetchUsage, Request!files
  <2>2. CASE Request!Step(w, [r EXCEPT !.at = "lookup"]) /\ UNCHANGED answer
    <3>1. r.at = "usage" /\ UNCHANGED <<Request!files, cache, crossed>>
      BY <1>1 DEF Request!FetchUsage
    <3> DEFINE s == [r EXCEPT !.at = "lookup"]
    <3>2. s \in Request!Request /\ AsksNext(s)
      BY <1>a, <3>1
    <3>3. Request!Step(w, s)
      BY <2>2
    <3> HIDE DEF s
    <3> QED BY <2>2, <3>1, <3>2, <3>3, RequestGoes DEF Request!files
  <2> QED BY <1>1, <2>1, <2>2 DEF Request!FetchUsage
<1>2. CASE Request!LookUpPlan(w)
  <2>0. r.at = "lookup"
    BY <1>2 DEF Request!LookUpPlan
  <2>1. CASE cache # None /\ cache.fresh /\ Request!Cached(w, r.key)
    <3>1. Request!Return(w, cache.plan) /\ UNCHANGED cache
      BY <1>2, <2>1 DEF Request!LookUpPlan
    <3>2. cache.plan \in Account \cup {None} /\ (~ crossed => cache.plan = r.key.of)
      BY <1>0, <2>1 DEF CacheInv, Request!Cached
    <3>3. CacheInv'
      BY <1>0, <3>1, CacheStays DEF Request!Return
    <3> QED BY <2>0, <3>1, <3>2, <3>3, WorkerReturns
  <2>2. CASE ~ (cache # None /\ cache.fresh /\ Request!Cached(w, r.key))
    <3> DEFINE s == [r EXCEPT !.at = "profile"]
    <3>1. /\ Request!Step(w, s)
          /\ cache' = IF cache = None THEN None ELSE [cache EXCEPT !.late = @ \ {w}]
          /\ UNCHANGED <<Request!files, answer, crossed>>
      BY <1>2, <2>2 DEF Request!LookUpPlan
    <3>2. s \in Request!Request /\ AsksNext(s)
      BY <1>a, <2>0, <3>1
    <3>3. CacheInv'
      BY <1>0, <3>1 DEF CacheInv
    <3>4. AnswerInv'
      BY <1>0, <3>1, AnswerStays
    <3> HIDE DEF s
    <3> QED BY <3>1, <3>2, <3>3, <3>4, WorkerStep DEF Request!Step, Request!files
  <2> QED BY <2>1, <2>2
<1>3. CASE Request!FetchPlan(w)
  <2>0. r.at = "profile" /\ UNCHANGED <<Request!files, cache, answer, crossed>> /\ r.token \in Account
    BY <1>0, <1>3 DEF Request!FetchPlan, Asks, AsksNow, AsksNext
  <2>1. PICK plan \in {r.token, r.local} :
          Request!Step(w, IF plan = None THEN [r EXCEPT !.at = "kept"]
                          ELSE [r EXCEPT !.at = "store", !.plan = plan])
    BY <1>3 DEF Request!FetchPlan
  <2>2. CASE plan = None
    <3> DEFINE s == [r EXCEPT !.at = "kept"]
    <3>1. s \in Request!Request /\ AsksNext(s)
      BY <1>a, <2>0
    <3>2. Request!Step(w, s)
      BY <2>1, <2>2
    <3> HIDE DEF s
    <3> QED BY <2>0, <3>1, <3>2, RequestGoes DEF Request!files
  <2>3. CASE plan # None
    <3> DEFINE s == [r EXCEPT !.at = "store", !.plan = plan]
    <3>1. plan \in Account /\ (~ crossed => plan = r.token)
      BY <1>0, <2>0, <2>3 DEF Asks, AsksNow, AsksNext, Request!Request
    <3>2. s \in Request!Request /\ s.at = "store" /\ s.token = r.token /\ s.key = r.key /\ s.local = r.local
          /\ s.plan = plan
      BY <1>0, <3>1 DEF Request!Request
    <3>3. Request!Step(w, s)
      BY <2>1, <2>3
    <3> HIDE DEF s
    <3>4. AsksNext(s)
      BY <1>0, <2>0, <3>1, <3>2 DEF Asks, AsksNow, AsksNext
    <3> QED BY <2>0, <3>2, <3>3, <3>4, RequestGoes DEF Request!files
  <2> QED BY <2>2, <2>3
<1>4. CASE Request!StorePlan(w)
  <2>1. r.at = "store" /\ Request!Return(w, r.plan)
        /\ cache' = [key |-> r.key, plan |-> r.plan, fresh |-> TRUE, late |-> {}]
    BY <1>4 DEF Request!StorePlan
  <2>2. r.plan \in Account /\ r.key \in Request!AccountKey /\ (~ crossed => r.plan = r.key.of)
    BY <1>0, <2>1 DEF Asks, AsksNow, AsksNext
  <2>3. crossed' = crossed
    BY <2>1 DEF Request!Return
  <2>4. CacheInv'
    BY <2>1, <2>2, <2>3 DEF CacheInv
  <2> QED BY <2>1, <2>2, <2>4, WorkerReturns
<1>5. CASE Request!KeepPlan(w)
  <2> DEFINE plan == IF Request!Cached(w, r.key) THEN cache.plan ELSE None
  <2>1. r.at = "kept" /\ Request!Return(w, plan) /\ UNCHANGED cache
    BY <1>5 DEF Request!KeepPlan
  <2>2. plan \in Account \cup {None} /\ (~ crossed => plan \in {None, r.key.of})
    BY <1>0 DEF CacheInv, Request!Cached
  <2>3. CacheInv'
    BY <1>0, <2>1, CacheStays DEF Request!Return
  <2> HIDE DEF plan
  <2> QED BY <2>1, <2>2, <2>3, WorkerReturns
<1> QED BY <1>1, <1>2, <1>3, <1>4, <1>5

\* A cached plan that has expired.
LEMMA ExpireStep ==
  ASSUME ClaudeInv, Request!ExpirePlan
  PROVE  ClaudeInv'
<1>1. CacheInv'
  BY DEF ClaudeInv, CacheInv, Request!ExpirePlan
<1>2. AnswerInv'
  BY AnswerStays DEF ClaudeInv, Request!ExpirePlan
<1>3. FilesInv' /\ \A w \in Worker : AsksNext(worker'[w])
  BY DEF ClaudeInv, FilesInv, Asks, AsksNow, AsksNext, Request!ExpirePlan, Request!files
<1> QED BY <1>1, <1>2, <1>3 DEF AsksNow, AsksNext, ClaudeInv, Request!ExpirePlan, Request!files

\* api.rs: whoever signs in and out meanwhile and however workers share the plan cache, the usage
\* and the plan of an answer belong to its account, unless the two reads crossed a sign-in.
THEOREM AnswersBelong == Spec => []AnswersAreOwn
<1>1. Init => ClaudeInv
  <2> SUFFICES ASSUME Init PROVE ClaudeInv
    OBVIOUS
  <2>1. credentials = Request!Damaged("missing") /\ credentials \in Request!CredentialsFile
        /\ credentials.state # "written"
    BY DamagedTyped DEF Init, Request!Init, Request!Unreadable
  <2>2. FilesInv /\ CacheInv
    BY <2>1 DEF Init, Request!Init, FilesInv, CacheInv
  <2>3. AnswerInv
    BY FailedTyped DEF Init, Request!Init, AnswerInv, Request!AnswersAreOwn,
                       Request!PreparationFailureKind
  <2>4. \A w \in Worker : AsksNow(worker[w]) /\ worker[w] \in Request!Request
    BY IdleTyped DEF Init, Request!Init, Asks, AsksNow, AsksNext
  <2>5. worker \in [Worker -> Request!Request] /\ signIns \in 0..MaxSignIns
    BY IdleTyped, ClaudeAssumption DEF Init, Request!Init
  <2> QED BY <2>1, <2>2, <2>3, <2>4, <2>5 DEF ClaudeInv, Init, Request!Init
<1>2. ASSUME ClaudeInv, [Next]_vars PROVE ClaudeInv'
  <2>1. CASE RequestStep
    BY <1>2, <2>1, ClaudeCodeStep, ExpireStep, PrepareStep, FetchStep DEF RequestStep
  <2>2. CASE (Next /\ ~ RequestStep) \/ UNCHANGED vars
    <3>1. UNCHANGED claudeVars
      BY <2>2 DEF Next, vars, StoreStep, AlertsStep, ConfigStep, AuthStep, CodexStep, LogStep,
                  CheckStep, UsageStep, VerdictStep, InStore, InAlerts, InConfig, InAuth,
                  InCodex, InLog, InCheck, InUsage, InVerdict
    <3> QED BY <1>2, <3>1 DEF ClaudeInv, FilesInv, CacheInv, AnswerInv, Asks, AsksNow, AsksNext,
                             Request!AnswersAreOwn, Request!PlanIsOwn, claudeVars
  <2> QED BY <1>2, <2>1, <2>2
<1>3. ClaudeInv => AnswersAreOwn
  BY DEF ClaudeInv, AnswersAreOwn, Request!TypeOK, CacheInv, AnswerInv
<1> QED BY <1>1, <1>2, <1>3, PTL DEF Spec

-----------------------------------------------------------------------------
\* What a client keeps of its reading.
Reading == [pc : Codex!Pc, run : 0..MaxRuns, todo : SUBSET Codex!Dir,
            target : Codex!Dir \cup {<<>>}, entries : SUBSET Codex!Entry,
            call : Codex!Calls, frames : 0..MaxFrames, late : BOOLEAN,
            running : BOOLEAN, result : {"none", "Ok"} \cup Codex!Failure]

Outcome == {"none", "Ok"} \cup Codex!Failure

\* A client has the lock file of its profile open.
Locked == {"catalogue", "spawn", "send", "receive", "stop", "release"}

\* What nobody can delete of such a profile.
Lock == {"dir", "lock", "open"}

\* What is so of one reading and its profile.
ReadingIsKept(x) ==
    /\ session[x].pc # "idle" => session[x].run \in 1..MaxRuns
    /\ session[x].pc \in Locked => Lock \subseteq profiles[Codex!Own(x)]
    /\ session[x].pc = "lock" => \/ profiles[Codex!Own(x)] = {}
                                 \/ "dir" \in profiles[Codex!Own(x)]
    /\ session[x].pc \in {"create", "lock"} \cup Locked => session[x].target = <<>>
    /\ session[x].running => session[x].pc \in {"send", "receive", "stop"}
    /\ session[x].result = "Ok" => /\ session[x].pc \in {"stop", "release", "list", "clear", "idle"}
                                   /\ session[x].run \in 1..MaxRuns
                                   /\ session[x].pc # "idle" => session[x].target = <<>>
    /\ session[x].result = "Ok" /\ session[x].pc = "idle" => profiles[Codex!Own(x)] = {}

\* The inductive invariant.
CodexInv == Codex!TypeOK /\ \A x \in Client : ReadingIsKept(x)

\* Whatever a step does to a profile, one whose lock is open keeps it, none comes
\* back, and the directory goes last.
Spares(d) == /\ Lock \subseteq profiles[d] => Lock \subseteq profiles'[d]
             /\ profiles[d] = {} => profiles'[d] = {}
             /\ "dir" \in profiles[d] => profiles'[d] = {} \/ "dir" \in profiles'[d]

\* A step of one client: of another one's profile it takes what nobody has open.
LEMMA ClientStep ==
  ASSUME CodexInv, NEW c \in Client,
         session' \in [Client -> Reading], profiles' \in [Codex!Dir -> SUBSET Codex!Content],
         \A x \in Client : x # c => session'[x] = session[x],
         \A x \in Client, n \in 1..MaxRuns : x # c => Spares(<<x, n>>),
         ReadingIsKept(c)'
  PROVE  CodexInv'
<1>1. Codex!TypeOK'
  BY DEF Codex!TypeOK, Reading
<1>2. ASSUME NEW x \in Client, x # c PROVE ReadingIsKept(x)'
  <2>1. session'[x] = session[x] /\ Codex!Own(x)' = Codex!Own(x)
        /\ Codex!Own(x) = <<x, session[x].run>>
    BY <1>2 DEF Codex!Own
  <2>2. ReadingIsKept(x)
    BY DEF CodexInv
  <2>3. session[x].run \in 1..MaxRuns => Spares(Codex!Own(x))
    BY <1>2, <2>1
  <2>4. session'[x].pc \in Locked => Lock \subseteq profiles'[Codex!Own(x)']
    <3>1. CASE session[x].pc \in Locked
      BY <2>1, <2>2, <2>3, <3>1 DEF ReadingIsKept, Locked, Spares
    <3> QED BY <2>1, <3>1
  <2>5. session'[x].pc = "lock" => \/ profiles'[Codex!Own(x)'] = {}
                                  \/ "dir" \in profiles'[Codex!Own(x)']
    BY <2>1, <2>2, <2>3 DEF ReadingIsKept, Spares
  <2>6. session'[x].result = "Ok" /\ session'[x].pc = "idle" => profiles'[Codex!Own(x)'] = {}
    BY <2>1, <2>2, <2>3 DEF ReadingIsKept, Spares
  <2> QED BY <2>1, <2>2, <2>4, <2>5, <2>6 DEF ReadingIsKept
<1> QED BY <1>1, <1>2 DEF CodexInv

\* What changes the session alone.
LEMMA SessionStep ==
  ASSUME CodexInv, NEW c \in Client,
         session' \in [Client -> Reading], UNCHANGED profiles,
         \A x \in Client : x # c => session'[x] = session[x],
         ReadingIsKept(c)'
  PROVE  CodexInv'
BY ClientStep DEF CodexInv, Codex!TypeOK, Spares

\* What becomes of one profile is nothing to the others.
LEMMA OneProfile ==
  ASSUME CodexInv, NEW d \in Codex!Dir, NEW v \in SUBSET Codex!Content,
         profiles' = [profiles EXCEPT ![d] = v]
  PROVE  /\ profiles' \in [Codex!Dir -> SUBSET Codex!Content] /\ profiles'[d] = v
         /\ \A e \in Codex!Dir : e # d => profiles'[e] = profiles[e]
BY DEF CodexInv, Codex!TypeOK

\* A client's own profile is nobody else's.
LEMMA OwnProfile ==
  ASSUME CodexInv, NEW c \in Client, session[c].run \in 1..MaxRuns,
         NEW v \in SUBSET Codex!Content, profiles' = [profiles EXCEPT ![Codex!Own(c)] = v]
  PROVE  /\ profiles' \in [Codex!Dir -> SUBSET Codex!Content]
         /\ profiles'[Codex!Own(c)] = v
         /\ \A x \in Client, n \in 1..MaxRuns : x # c => Spares(<<x, n>>)
<1>1. Codex!Own(c) = <<c, session[c].run>> /\ Codex!Own(c) \in Codex!Dir
  BY DEF Codex!Own, Codex!Dir
<1>2. \A x \in Client, n \in 1..MaxRuns : x # c => /\ <<x, n>> \in Codex!Dir
                                                   /\ <<x, n>> # Codex!Own(c)
  BY <1>1 DEF Codex!Dir
<1>3. /\ profiles' \in [Codex!Dir -> SUBSET Codex!Content] /\ profiles'[Codex!Own(c)] = v
      /\ \A e \in Codex!Dir : e # Codex!Own(c) => profiles'[e] = profiles[e]
  BY <1>1, OneProfile
<1> QED BY <1>2, <1>3 DEF Spares

\* A step of one client leaves the others where they are.
LEMMA Took ==
  ASSUME NEW c \in Client, session \in [Client -> Reading], NEW s \in Reading,
         session' = [session EXCEPT ![c] = s]
  PROVE  /\ session' \in [Client -> Reading] /\ session'[c] = s
         /\ \A x \in Client : x # c => session'[x] = session[x]
OBVIOUS

\* Where a step takes a reading, with which result, and what it leaves.
Moves(c, pc, result) ==
    /\ session' \in [Client -> Reading]
    /\ \A x \in Client : x # c => session'[x] = session[x]
    /\ session'[c].run = session[c].run /\ session'[c].pc = pc /\ session'[c].result = result

\* ... and that it leaves the process and whose profile is removed as well.
GoesTo(c, pc, result) == /\ Moves(c, pc, result)
                       /\ session'[c].running = session[c].running
                       /\ session'[c].target = session[c].target

\* It ends a phase with a result.
Sets(c, pc, x) == session' = [session EXCEPT ![c].pc = pc, ![c].result = x]

\* Where a client goes.
LEMMA CodexMoves ==
  ASSUME NEW c \in Client, session \in [Client -> Reading]
  PROVE  /\ \A pc \in Codex!Pc : Codex!Goto(c, pc) => GoesTo(c, pc, session[c].result)
         /\ \A pc \in Codex!Pc, x \in Outcome : Sets(c, pc, x) => GoesTo(c, pc, x)
         /\ \A x \in Outcome : Codex!Ends(c, x) => GoesTo(c, "stop", x)
<1>0. session[c] \in Reading
  OBVIOUS
<1>1. ASSUME NEW pc \in Codex!Pc, Codex!Goto(c, pc)
      PROVE  GoesTo(c, pc, session[c].result)
  <2> DEFINE s == [session[c] EXCEPT !.pc = pc]
  <2>1. s \in Reading /\ s.pc = pc /\ s.run = session[c].run /\ s.result = session[c].result
        /\ s.running = session[c].running /\ s.target = session[c].target
    BY <1>0 DEF Reading
  <2>2. session' = [session EXCEPT ![c] = s]
    BY <1>1 DEF Codex!Goto
  <2> HIDE DEF s
  <2> QED BY <2>1, <2>2, Took DEF GoesTo, Moves
<1>2. ASSUME NEW pc \in Codex!Pc, NEW x \in Outcome, Sets(c, pc, x)
      PROVE  GoesTo(c, pc, x)
  <2> DEFINE s == [session[c] EXCEPT !.pc = pc, !.result = x]
  <2>1. s \in Reading /\ s.pc = pc /\ s.run = session[c].run /\ s.result = x
        /\ s.running = session[c].running /\ s.target = session[c].target
    BY <1>0 DEF Reading, Outcome
  <2>2. session' = [session EXCEPT ![c] = s]
    BY <1>2 DEF Sets
  <2> HIDE DEF s
  <2> QED BY <2>1, <2>2, Took DEF GoesTo, Moves
<1>3. ASSUME NEW x \in Outcome, Codex!Ends(c, x)
      PROVE  GoesTo(c, "stop", x)
  <2> DEFINE s == [session[c] EXCEPT !.pc = "stop", !.call = 1, !.frames = 0, !.late = FALSE, !.result = x]
  <2>1. "stop" \in Codex!Pc /\ 1 \in Codex!Calls /\ 0 \in 0..MaxFrames
    BY CodexAssumption DEF Codex!Pc, Codex!Calls
  <2>2. s \in Reading /\ s.pc = "stop" /\ s.run = session[c].run /\ s.result = x
        /\ s.running = session[c].running /\ s.target = session[c].target
    BY <1>0, <2>1 DEF Reading, Outcome
  <2>3. session' = [session EXCEPT ![c] = s]
    BY <1>3 DEF Codex!Ends
  <2> HIDE DEF s
  <2> QED BY <2>2, <2>3, Took DEF GoesTo, Moves
<1> QED BY <1>1, <1>2, <1>3

\* An error ends a reading with something other than success.
LEMMA CodexFails ==
  ASSUME NEW c \in Client, session \in [Client -> Reading],
         Codex!FailsEarly(c) \/ Codex!NotRemoved(c)
  PROVE  /\ \E x \in {"none"} \cup Codex!Failure : Moves(c, "idle", x)
         /\ session'[c].running = session[c].running
<1>0. session[c] \in Reading /\ "idle" \in Codex!Pc /\ "Transient" \in Codex!Failure
      /\ "Ok" \notin Codex!Failure
  BY DEF Codex!Pc, Codex!Failure
<1>1. CASE Codex!FailsEarly(c)
  <2> DEFINE s == [session[c] EXCEPT !.pc = "idle", !.todo = {}, !.target = <<>>, !.entries = {},
                                     !.result = "Transient"]
  <2>1. s \in Reading /\ s.pc = "idle" /\ s.run = session[c].run /\ s.result = "Transient"
        /\ s.running = session[c].running
    BY <1>0 DEF Reading
  <2>2. session' = [session EXCEPT ![c] = s]
    BY <1>1 DEF Codex!FailsEarly
  <2> HIDE DEF s
  <2> QED BY <1>0, <2>1, <2>2, Took DEF Moves
<1>2. CASE ~ Codex!FailsEarly(c)
  <2> DEFINE x == IF session[c].result = "Ok" THEN "Transient" ELSE session[c].result
             s == [session[c] EXCEPT !.pc = "idle", !.entries = {}, !.result = x]
  <2>1. x \in {"none"} \cup Codex!Failure
    BY <1>0 DEF Reading
  <2>2. session' = [session EXCEPT ![c] = s]
    BY <1>2 DEF Codex!NotRemoved
  <2>3. s \in Reading /\ s.pc = "idle" /\ s.run = session[c].run /\ s.result = x
        /\ s.running = session[c].running
    <3> HIDE DEF x
    <3> QED BY <1>0, <2>1 DEF Reading
  <2> HIDE DEF s, x
  <2> QED BY <1>0, <2>1, <2>2, <2>3, Took DEF Moves
<1> QED BY <1>1, <1>2

\* What is known of a reading that takes a step.
LEMMA ReadingTyped ==
  ASSUME CodexInv, NEW c \in Client
  PROVE  /\ session \in [Client -> Reading] /\ session[c] \in Reading /\ ReadingIsKept(c)
         /\ profiles \in [Codex!Dir -> SUBSET Codex!Content]
         /\ Codex!Own(c) = <<c, session[c].run>>
         /\ session[c].result \in Outcome
BY DEF CodexInv, Codex!TypeOK, Reading, Codex!Own, Outcome

\* An error does not touch what it leaves behind.
LEMMA FailStep ==
  ASSUME CodexInv, NEW c \in Client, UNCHANGED profiles, ~ session[c].running,
         session[c].pc # "idle", Codex!FailsEarly(c) \/ Codex!NotRemoved(c)
  PROVE  CodexInv'
<1>1. PICK x \in {"none"} \cup Codex!Failure : Moves(c, "idle", x)
  BY ReadingTyped, CodexFails
<1>2. ~ session'[c].running
  BY ReadingTyped, CodexFails
<1>3. ReadingIsKept(c)'
  BY <1>1, <1>2 DEF ReadingIsKept, Locked, Moves, Codex!Failure
<1> QED BY <1>1, <1>3, SessionStep DEF Moves

\* The start of a reading, and the sweep.
LEMMA EarlyStep ==
  ASSUME CodexInv, NEW c \in Client,
         \/ Codex!Fetch(c) \/ Codex!Sweep(c)
  PROVE  CodexInv'
<1>0. session \in [Client -> Reading] /\ ReadingIsKept(c) /\ session[c] \in Reading
  BY ReadingTyped
<1>1. CASE Codex!Fetch(c)
  <2> DEFINE D == {d \in Codex!Dir : profiles[d] # {}}
             s == [session[c] EXCEPT !.pc = "sweep", !.run = @ + 1, !.result = "none",
                                  !.todo = D]
  <2>1. session[c].run + 1 \in 1..MaxRuns /\ session[c].run + 1 \in 0..MaxRuns /\ "sweep" \in Codex!Pc
    BY <1>0, <1>1, CodexAssumption DEF Codex!Fetch, Reading, Codex!Pc
  <2>2. D \in SUBSET Codex!Dir
    OBVIOUS
  <2>3. session' = [session EXCEPT ![c] = s]
    BY <1>1 DEF Codex!Fetch
  <2>4. s \in Reading /\ s.pc = "sweep" /\ s.result = "none" /\ s.running = session[c].running
        /\ s.run \in 1..MaxRuns
    <3> DEFINE n == session[c].run + 1
    <3>1. s = [session[c] EXCEPT !.pc = "sweep", !.run = n, !.result = "none", !.todo = D]
      OBVIOUS
    <3>2. n \in 0..MaxRuns /\ n \in 1..MaxRuns
      BY <2>1
    <3> HIDE DEF D, s, n
    <3> QED BY <1>0, <2>1, <2>2, <3>1, <3>2 DEF Reading
  <2>5. session' \in [Client -> Reading] /\ session'[c] = s
        /\ \A x \in Client : x # c => session'[x] = session[x]
    <3> HIDE DEF s
    <3> QED BY <1>0, <2>3, <2>4, Took
  <2> HIDE DEF s
  <2>6. ReadingIsKept(c)'
    BY <1>0, <1>1, <2>4, <2>5 DEF ReadingIsKept, Locked, Codex!Fetch
  <2> QED BY <1>1, <2>5, <2>6, SessionStep DEF Codex!Fetch
<1>2. CASE Codex!Sweep(c)
  <2>0. session[c].pc = "sweep" /\ UNCHANGED profiles /\ session[c].result # "Ok" /\ ~ session[c].running
        /\ session[c].todo \subseteq Codex!Dir /\ session[c].run \in 1..MaxRuns
    BY <1>0, <1>2 DEF Codex!Sweep, ReadingIsKept, Reading
  <2>1. ASSUME session' = [session EXCEPT ![c].pc = "create", ![c].target = <<>>]
        PROVE  CodexInv'
    <3> DEFINE s == [session[c] EXCEPT !.pc = "create", !.target = <<>>]
    <3>1. s \in Reading /\ s.pc = "create" /\ s.run = session[c].run /\ s.result = session[c].result
          /\ s.running = session[c].running /\ s.target = <<>>
      BY <1>0 DEF Reading, Codex!Pc
    <3>2. session' = [session EXCEPT ![c] = s]
      BY <2>1
    <3> HIDE DEF s
    <3>3. Moves(c, "create", session[c].result) /\ session'[c].target = <<>> /\ ~ session'[c].running
      BY <1>0, <2>0, <3>1, <3>2, Took DEF Moves
    <3>4. ReadingIsKept(c)'
      BY <2>0, <3>3 DEF ReadingIsKept, Moves, Locked
    <3> QED BY <2>0, <3>3, <3>4, SessionStep DEF Moves
  <2>2. ASSUME NEW d \in Codex!Dir, session' = [session EXCEPT ![c].todo = @ \ {d}]
        PROVE  CodexInv'
    <3> DEFINE s == [session[c] EXCEPT !.todo = @ \ {d}]
    <3>1. s \in Reading /\ s.pc = session[c].pc /\ s.run = session[c].run /\ s.result = session[c].result
          /\ s.running = session[c].running
      BY <1>0 DEF Reading
    <3>2. session' = [session EXCEPT ![c] = s]
      BY <2>2
    <3> HIDE DEF s
    <3>3. Moves(c, "sweep", session[c].result) /\ ~ session'[c].running
      BY <1>0, <2>0, <3>1, <3>2, Took DEF Moves
    <3>4. ReadingIsKept(c)'
      BY <2>0, <3>3 DEF ReadingIsKept, Moves, Locked
    <3> QED BY <2>0, <3>3, <3>4, SessionStep DEF Moves
  <2>3. ASSUME NEW d \in Codex!Dir, session' = [session EXCEPT ![c].pc = "list", ![c].todo = @ \ {d},
                                                               ![c].target = d]
        PROVE  CodexInv'
    <3> DEFINE s == [session[c] EXCEPT !.pc = "list", !.todo = @ \ {d}, !.target = d]
    <3>1. s \in Reading /\ s.pc = "list" /\ s.run = session[c].run /\ s.result = session[c].result
          /\ s.running = session[c].running
      BY <1>0 DEF Reading, Codex!Pc
    <3>2. session' = [session EXCEPT ![c] = s]
      BY <2>3
    <3> HIDE DEF s
    <3>3. Moves(c, "list", session[c].result) /\ ~ session'[c].running
      BY <1>0, <2>0, <3>1, <3>2, Took DEF Moves
    <3>4. ReadingIsKept(c)'
      BY <2>0, <3>3 DEF ReadingIsKept, Moves, Locked
    <3> QED BY <2>0, <3>3, <3>4, SessionStep DEF Moves
  <2>4. CASE Codex!FailsEarly(c)
    BY <2>0, <2>4, FailStep
  <2> QED BY <1>2, <2>0, <2>1, <2>2, <2>3, <2>4 DEF Codex!Sweep
<1> QED BY <1>1, <1>2

\* The profile that is removed is a profile.
LEMMA TargetIsDir ==
  ASSUME CodexInv, NEW c \in Client, session[c].run \in 1..MaxRuns
  PROVE  /\ Codex!Target(c) \in Codex!Dir
         /\ session[c].target = <<>> => Codex!Target(c) = Codex!Own(c)
BY ReadingTyped DEF Reading, Codex!Target, Codex!Own, Codex!Dir

\* A profile is gone: the client's own, or one of those that are swept.
LEMMA RemovedStep ==
  ASSUME CodexInv, NEW c \in Client, session[c].pc \in {"list", "clear"}, Codex!Removed(c),
         profiles' \in [Codex!Dir -> SUBSET Codex!Content],
         \A e \in Codex!Dir : Spares(e),
         profiles'[Codex!Target(c)] = {}
  PROVE  CodexInv'
<1>0. session \in [Client -> Reading] /\ ReadingIsKept(c) /\ session[c].run \in 1..MaxRuns
      /\ session[c].result \in Outcome /\ ~ session[c].running
  BY ReadingTyped DEF ReadingIsKept
<1>1. /\ \/ GoesTo(c, "idle", session[c].result) /\ session[c].target = <<>>
         \/ GoesTo(c, "sweep", session[c].result) /\ session[c].target # <<>>
  <2>1. "idle" \in Codex!Pc /\ "sweep" \in Codex!Pc
    BY DEF Codex!Pc
  <2> QED BY <1>0, <2>1, CodexMoves DEF Codex!Removed
<1>2. Codex!Own(c)' = Codex!Own(c) /\ (session[c].target = <<>> => Codex!Target(c) = Codex!Own(c))
  BY <1>0, <1>1, TargetIsDir DEF Codex!Own, GoesTo, Moves
<1>3. ReadingIsKept(c)'
  BY <1>0, <1>1, <1>2 DEF ReadingIsKept, Locked, GoesTo, Moves
<1>4. \A x \in Client, n \in 1..MaxRuns : x # c => Spares(<<x, n>>)
  BY DEF Codex!Dir
<1> QED BY <1>1, <1>3, <1>4, ClientStep DEF GoesTo, Moves

\* Profiles are removed entry by entry, and none whose lock is open.
LEMMA RemoveStep ==
  ASSUME CodexInv, NEW c \in Client,
         Codex!ListOwned(c) \/ Codex!RemoveEntry(c) \/ Codex!RemoveEmpty(c)
  PROVE  CodexInv'
<1> DEFINE d == Codex!Target(c)
<1>0. /\ session \in [Client -> Reading] /\ ReadingIsKept(c) /\ session[c] \in Reading
      /\ session[c].pc \in {"list", "clear"} /\ session[c].run \in 1..MaxRuns /\ ~ session[c].running
      /\ d \in Codex!Dir
      /\ profiles \in [Codex!Dir -> SUBSET Codex!Content]
  <2>1. session[c].pc \in {"list", "clear"}
    BY DEF Codex!ListOwned, Codex!RemoveEntry, Codex!RemoveEmpty
  <2> QED BY <2>1, ReadingTyped, TargetIsDir DEF ReadingIsKept
<1>1. CASE UNCHANGED profiles /\ Codex!NotRemoved(c)
  BY <1>0, <1>1, FailStep
<1>2. CASE Codex!ListOwned(c) /\ ~ Codex!NotRemoved(c)
  <2>1. CASE profiles[d] = {} /\ Codex!Removed(c)
    BY <1>0, <1>2, <2>1, RemovedStep DEF Codex!ListOwned, Spares
  <2>2. CASE session' = [session EXCEPT ![c].pc = "clear", ![c].entries = profiles[d] \cap Codex!Entry]
    <3> DEFINE E == profiles[d] \cap Codex!Entry
               s == [session[c] EXCEPT !.pc = "clear", !.entries = E]
    <3>1. E \in SUBSET Codex!Entry
      OBVIOUS
    <3>2. session' = [session EXCEPT ![c] = s]
      BY <2>2
    <3>3. s \in Reading /\ s.pc = "clear" /\ s.run = session[c].run /\ s.result = session[c].result
          /\ s.running = session[c].running /\ s.target = session[c].target
      <4> HIDE DEF E
      <4> QED BY <1>0, <3>1 DEF Reading, Codex!Pc
    <3> HIDE DEF s
    <3>4. GoesTo(c, "clear", session[c].result)
      BY <1>0, <3>2, <3>3, Took DEF GoesTo, Moves
    <3>5. ReadingIsKept(c)'
      BY <1>0, <1>2, <3>4 DEF ReadingIsKept, Locked, GoesTo, Moves
    <3> QED BY <1>2, <3>4, <3>5, SessionStep DEF GoesTo, Moves, Codex!ListOwned
  <2> QED BY <1>2, <2>1, <2>2 DEF Codex!ListOwned
<1>3. CASE Codex!RemoveEntry(c) /\ ~ (UNCHANGED profiles /\ Codex!NotRemoved(c))
  <2>1. PICK e \in session[c].entries :
          /\ e = "lock" => "open" \notin profiles[d]
          /\ profiles' = [profiles EXCEPT ![d] = @ \ {e}]
          /\ session' = [session EXCEPT ![c].entries = @ \ {e}]
    BY <1>3 DEF Codex!RemoveEntry
  <2>2. e \in Codex!Entry
    BY <1>0 DEF Reading
  <2> DEFINE v == profiles[d] \ {e}
             s == [session[c] EXCEPT !.entries = @ \ {e}]
  <2>3. /\ profiles' \in [Codex!Dir -> SUBSET Codex!Content] /\ profiles'[d] = v
        /\ \A f \in Codex!Dir : f # d => profiles'[f] = profiles[f]
    <3>1. v \in SUBSET Codex!Content /\ profiles' = [profiles EXCEPT ![d] = v]
      BY <1>0, <2>1
    <3> HIDE DEF v, d
    <3> QED BY <1>0, <3>1, OneProfile
  <2>4. \A f \in Codex!Dir : Spares(f)
    BY <1>0, <2>1, <2>2, <2>3 DEF Spares, Lock, Codex!Entry
  <2>5. session' = [session EXCEPT ![c] = s]
    BY <2>1
  <2>6. s \in Reading /\ s.pc = session[c].pc /\ s.run = session[c].run /\ s.result = session[c].result
        /\ s.running = session[c].running /\ s.target = session[c].target
    BY <1>0 DEF Reading
  <2> HIDE DEF s, v
  <2>7. GoesTo(c, "clear", session[c].result)
    BY <1>0, <1>3, <2>5, <2>6, Took DEF GoesTo, Moves, Codex!RemoveEntry
  <2>8. ReadingIsKept(c)'
    BY <1>0, <2>7 DEF ReadingIsKept, Locked, GoesTo, Moves
  <2>9. \A x \in Client, n \in 1..MaxRuns : x # c => Spares(<<x, n>>)
    BY <2>4 DEF Codex!Dir
  <2> QED BY <2>3, <2>7, <2>8, <2>9, ClientStep DEF GoesTo, Moves
<1>4. CASE Codex!RemoveEmpty(c) /\ ~ (UNCHANGED profiles /\ Codex!NotRemoved(c))
  <2>1. profiles[d] = {"dir"} /\ profiles' = [profiles EXCEPT ![d] = {}] /\ Codex!Removed(c)
    BY <1>4 DEF Codex!RemoveEmpty
  <2>2. /\ profiles' \in [Codex!Dir -> SUBSET Codex!Content] /\ profiles'[d] = {}
        /\ \A f \in Codex!Dir : f # d => profiles'[f] = profiles[f]
    <3> HIDE DEF d
    <3> QED BY <1>0, <2>1, OneProfile
  <2>3. \A f \in Codex!Dir : Spares(f)
    BY <1>0, <2>1, <2>2 DEF Spares, Lock
  <2> QED BY <1>0, <2>1, <2>2, <2>3, RemovedStep
<1> QED BY <1>1, <1>2, <1>3, <1>4 DEF Codex!ListOwned

\* The profile is made, and a server started in it.
LEMMA CreateStep ==
  ASSUME CodexInv, NEW c \in Client,
         Codex!CreateDir(c) \/ Codex!CreateLock(c) \/ Codex!WriteCatalogue(c) \/ Codex!Spawn(c)
  PROVE  CodexInv'
<1>0. /\ session \in [Client -> Reading] /\ ReadingIsKept(c) /\ session[c] \in Reading
      /\ session[c].pc \in {"create", "lock", "catalogue", "spawn"}
      /\ session[c].run \in 1..MaxRuns /\ ~ session[c].running /\ session[c].result # "Ok"
      /\ session[c].target = <<>> /\ session[c].result \in Outcome
      /\ profiles \in [Codex!Dir -> SUBSET Codex!Content] /\ Codex!Own(c) \in Codex!Dir
  <2>1. session[c].pc \in {"create", "lock", "catalogue", "spawn"}
    BY DEF Codex!CreateDir, Codex!CreateLock, Codex!WriteCatalogue, Codex!Spawn
  <2>2. session[c].run \in 1..MaxRuns
    BY <2>1, ReadingTyped DEF ReadingIsKept
  <2>3. Codex!Own(c) \in Codex!Dir
    BY <2>2 DEF Codex!Own, Codex!Dir
  <2> QED BY <2>1, <2>2, <2>3, ReadingTyped DEF ReadingIsKept, Locked
<1>1. {"list", "lock", "catalogue", "release", "spawn", "send"} \subseteq Codex!Pc
      /\ "Transient" \in Outcome
  BY DEF Codex!Pc, Codex!Failure, Outcome
<1>2. CASE Codex!CreateDir(c)
  <2>1. CASE Codex!FailsEarly(c) /\ UNCHANGED profiles
    BY <1>0, <2>1, FailStep
  <2>2. CASE ~ (Codex!FailsEarly(c) /\ UNCHANGED profiles)
    <3>1. profiles' = [profiles EXCEPT ![Codex!Own(c)] = {"dir"}] /\ Codex!Goto(c, "lock")
      BY <1>2, <2>2 DEF Codex!CreateDir
    <3>2. /\ profiles' \in [Codex!Dir -> SUBSET Codex!Content] /\ profiles'[Codex!Own(c)] = {"dir"}
          /\ \A x \in Client, n \in 1..MaxRuns : x # c => Spares(<<x, n>>)
      <4>1. {"dir"} \in SUBSET Codex!Content
        BY DEF Codex!Content
      <4> QED BY <1>0, <3>1, <4>1, OwnProfile
    <3>3. GoesTo(c, "lock", session[c].result)
      BY <1>0, <1>1, <3>1, CodexMoves
    <3>4. ReadingIsKept(c)'
      BY <1>0, <3>2, <3>3 DEF ReadingIsKept, Locked, GoesTo, Moves, Codex!Own
    <3> QED BY <3>2, <3>3, <3>4, ClientStep DEF GoesTo, Moves
  <2> QED BY <2>1, <2>2
<1>3. CASE Codex!CreateLock(c)
  <2>1. CASE Sets(c, "list", "Transient") /\ UNCHANGED profiles
    <3>1. GoesTo(c, "list", "Transient")
      BY <1>0, <1>1, <2>1, CodexMoves
    <3>2. ReadingIsKept(c)'
      BY <1>0, <3>1 DEF ReadingIsKept, Locked, GoesTo, Moves
    <3> QED BY <2>1, <3>1, <3>2, SessionStep DEF GoesTo, Moves
  <2>2. CASE ~ (Sets(c, "list", "Transient") /\ UNCHANGED profiles)
    <3> DEFINE v == profiles[Codex!Own(c)] \cup {"lock", "open"}
    <3>1. /\ profiles[Codex!Own(c)] # {} /\ profiles' = [profiles EXCEPT ![Codex!Own(c)] = v]
          /\ Codex!Goto(c, "catalogue")
      BY <1>3, <2>2 DEF Codex!CreateLock, Sets
    <3>2. v \in SUBSET Codex!Content
      BY <1>0 DEF Codex!Content, Codex!Entry
    <3>3. "dir" \in profiles[Codex!Own(c)]
      BY <1>0, <3>1, <1>3 DEF ReadingIsKept, Codex!CreateLock
    <3>4. Lock \subseteq v
      BY <3>3 DEF Lock
    <3>5. /\ profiles' \in [Codex!Dir -> SUBSET Codex!Content] /\ profiles'[Codex!Own(c)] = v
          /\ \A x \in Client, n \in 1..MaxRuns : x # c => Spares(<<x, n>>)
      <4> HIDE DEF v
      <4> QED BY <1>0, <3>1, <3>2, OwnProfile
    <3>6. GoesTo(c, "catalogue", session[c].result)
      BY <1>0, <1>1, <3>1, CodexMoves
    <3>7. ReadingIsKept(c)'
      <4> HIDE DEF v
      <4> QED BY <1>0, <3>4, <3>5, <3>6 DEF ReadingIsKept, Locked, GoesTo, Moves, Codex!Own
    <3> QED BY <3>5, <3>6, <3>7, ClientStep DEF GoesTo, Moves
  <2> QED BY <2>1, <2>2
<1>4. CASE Codex!WriteCatalogue(c)
  <2> DEFINE v == profiles[Codex!Own(c)] \cup {"catalogue"}
  <2>1. /\ Codex!Goto(c, "spawn") \/ Sets(c, "release", "Transient")
        /\ session[c].pc = "catalogue"
        /\ UNCHANGED profiles \/ profiles' = [profiles EXCEPT ![Codex!Own(c)] = v]
    BY <1>4 DEF Codex!WriteCatalogue, Sets
  <2>2. v \in SUBSET Codex!Content /\ Lock \subseteq v /\ Lock \subseteq profiles[Codex!Own(c)]
    BY <1>0, <2>1 DEF Codex!Content, Codex!Entry, ReadingIsKept, Locked
  <2>3. /\ profiles' \in [Codex!Dir -> SUBSET Codex!Content] /\ Lock \subseteq profiles'[Codex!Own(c)]
        /\ \A x \in Client, n \in 1..MaxRuns : x # c => Spares(<<x, n>>)
    <3> HIDE DEF v
    <3>1. CASE UNCHANGED profiles
      <4>1. profiles' = profiles
        BY <3>1
      <4>2. \A x \in Client, n \in 1..MaxRuns : x # c => Spares(<<x, n>>)
        BY <4>1, Zenon DEF Spares
      <4> QED BY <1>0, <2>2, <4>1, <4>2
    <3>2. CASE profiles' = [profiles EXCEPT ![Codex!Own(c)] = v]
      <4>1. /\ profiles' \in [Codex!Dir -> SUBSET Codex!Content] /\ profiles'[Codex!Own(c)] = v
            /\ \A x \in Client, n \in 1..MaxRuns : x # c => Spares(<<x, n>>)
        BY <1>0, <2>2, <3>2, OwnProfile
      <4> QED BY <2>2, <4>1
    <3> QED BY <2>1, <3>1, <3>2
  <2>4. \/ GoesTo(c, "spawn", session[c].result) \/ GoesTo(c, "release", "Transient")
    BY <1>0, <1>1, <2>1, CodexMoves
  <2>5. ReadingIsKept(c)'
    BY <1>0, <2>3, <2>4 DEF ReadingIsKept, Locked, GoesTo, Moves, Codex!Own
  <2> QED BY <2>3, <2>4, <2>5, ClientStep DEF GoesTo, Moves
<1>5. CASE Codex!Spawn(c)
  <2>0. session[c].pc = "spawn" /\ UNCHANGED profiles
    BY <1>5 DEF Codex!Spawn
  <2>1. ASSUME session' = [session EXCEPT ![c].pc = "send", ![c].running = TRUE]
        PROVE  Moves(c, "send", session[c].result) /\ session'[c].target = session[c].target
    <3> DEFINE s == [session[c] EXCEPT !.pc = "send", !.running = TRUE]
    <3>1. s \in Reading /\ s.pc = "send" /\ s.run = session[c].run /\ s.result = session[c].result
          /\ s.target = session[c].target
      BY <1>0 DEF Reading, Codex!Pc
    <3>2. session' = [session EXCEPT ![c] = s]
      BY <2>1
    <3> HIDE DEF s
    <3> QED BY <1>0, <3>1, <3>2, Took DEF Moves
  <2>2. \/ Moves(c, "send", session[c].result) /\ session'[c].target = session[c].target
        \/ GoesTo(c, "release", "Transient")
    BY <1>0, <1>1, <1>5, <2>1, CodexMoves DEF Codex!Spawn, Sets
  <2>3. ReadingIsKept(c)'
    BY <1>0, <2>0, <2>2 DEF ReadingIsKept, Locked, GoesTo, Moves, Codex!Own
  <2> QED BY <2>0, <2>2, <2>3, SessionStep DEF GoesTo, Moves
<1> QED BY <1>2, <1>3, <1>4, <1>5

\* The calls to the server, under their deadline.
LEMMA ServerStep ==
  ASSUME CodexInv, NEW c \in Client,
         \/ Codex!Send(c) \/ Codex!Receive(c) \/ Codex!PipeEnds(c) \/ Codex!TimesOut(c)
         \/ Codex!Expire(c)
  PROVE  CodexInv'
<1>0. /\ session \in [Client -> Reading] /\ ReadingIsKept(c) /\ session[c] \in Reading
      /\ session[c].pc \in {"send", "receive"} /\ session[c].result # "Ok"
      /\ session[c].run \in 1..MaxRuns /\ session[c].target = <<>> /\ UNCHANGED profiles
      /\ Lock \subseteq profiles[Codex!Own(c)]
  <2>1. session[c].pc \in {"send", "receive"} /\ UNCHANGED profiles
    BY DEF Codex!Send, Codex!Receive, Codex!PipeEnds, Codex!TimesOut, Codex!Expire
  <2> QED BY <2>1, ReadingTyped DEF ReadingIsKept, Locked
<1>1. {"send", "receive", "stop"} \subseteq Codex!Pc
      /\ Codex!Failure = {"Transient", "UnexpectedResponse", "Authentication", "Timeout"}
  BY DEF Codex!Pc, Codex!Failure
<1>2. \* The call ends, or another one begins, or the reading waits on.
      ASSUME \/ \E x \in Outcome : GoesTo(c, "stop", x)
             \/ \E pc \in {"send", "receive"} : GoesTo(c, pc, session[c].result)
      PROVE  CodexInv'
  <2>1. ReadingIsKept(c)'
    BY <1>0, <1>2 DEF ReadingIsKept, Locked, GoesTo, Moves, Codex!Own
  <2> QED BY <1>0, <1>2, <2>1, SessionStep DEF GoesTo, Moves
<1>3. ASSUME NEW x \in Outcome, Codex!Ends(c, x) PROVE CodexInv'
  BY <1>0, <1>2, <1>3, CodexMoves
<1>4. ASSUME NEW n \in 1..3, session' = [session EXCEPT ![c].call = n, ![c].frames = 0, ![c].pc = "send"]
      PROVE  CodexInv'
  <2> DEFINE s == [session[c] EXCEPT !.call = n, !.frames = 0, !.pc = "send"]
  <2>1. n \in Codex!Calls /\ 0 \in 0..MaxFrames
    BY CodexAssumption DEF Codex!Calls
  <2>2. s \in Reading /\ s.pc = "send" /\ s.run = session[c].run /\ s.result = session[c].result
        /\ s.running = session[c].running /\ s.target = session[c].target
    BY <1>0, <1>1, <2>1 DEF Reading
  <2>3. session' = [session EXCEPT ![c] = s]
    BY <1>4
  <2> HIDE DEF s
  <2>4. GoesTo(c, "send", session[c].result)
    BY <1>0, <2>2, <2>3, Took DEF GoesTo, Moves
  <2> QED BY <1>2, <2>4
<1>5. ASSUME session[c].frames + 1 < MaxFrames, session' = [session EXCEPT ![c].frames = @ + 1]
      PROVE  CodexInv'
  <2> DEFINE s == [session[c] EXCEPT !.frames = @ + 1]
  <2>1. session[c].frames + 1 \in 0..MaxFrames
    BY <1>0, <1>5, CodexAssumption DEF Reading
  <2>2. s \in Reading /\ s.pc = session[c].pc /\ s.run = session[c].run /\ s.result = session[c].result
        /\ s.running = session[c].running /\ s.target = session[c].target
    BY <1>0, <2>1 DEF Reading
  <2>3. session' = [session EXCEPT ![c] = s]
    BY <1>5
  <2> HIDE DEF s
  <2>4. GoesTo(c, session[c].pc, session[c].result)
    BY <1>0, <2>2, <2>3, Took DEF GoesTo, Moves
  <2> QED BY <1>0, <1>2, <2>4
<1>6. CASE Codex!Send(c)
  <2>1. CASE Codex!Goto(c, "receive")
    BY <1>0, <1>1, <1>2, <2>1, CodexMoves
  <2> QED BY <1>1, <1>3, <1>6, <2>1 DEF Codex!Send, Outcome
<1>7. CASE Codex!Receive(c)
  <2>1. \A call, message : Codex!Response(call, message)
           \in {"none", "Ok", "Authentication", "UnexpectedResponse"}
    BY DEF Codex!Response
  <2>2. PICK message \in Codex!Message, fits \in BOOLEAN :
          LET call == session[c].call
              says == Codex!Response(call, message)
          IN  CASE says = "none" ->
                     IF session[c].frames + 1 < MaxFrames
                     THEN session' = [session EXCEPT ![c].frames = @ + 1]
                     ELSE Codex!Ends(c, "UnexpectedResponse")
                [] says = "Ok" /\ call = 1 ->
                     session' = [session EXCEPT ![c].call = 2, ![c].frames = 0, ![c].pc = "send"]
                [] says = "Ok" /\ call = 2 /\ fits ->
                     session' = [session EXCEPT ![c].call = 3, ![c].frames = 0, ![c].pc = "send"]
                [] says = "Ok" /\ call = 3 /\ fits -> Codex!Ends(c, "Ok")
                [] says = "Ok" -> \/ Codex!Ends(c, "UnexpectedResponse")
                                  \/ call = 3 /\ Codex!Ends(c, "Authentication")
                [] OTHER -> Codex!Ends(c, says)
      BY <1>7 DEF Codex!Receive
  <2> DEFINE says == Codex!Response(session[c].call, message)
  <2>3. says \in {"none", "Ok", "Authentication", "UnexpectedResponse"}
    BY <2>1
  <2> HIDE DEF says
  <2>4. \/ says = "none" /\ session[c].frames + 1 < MaxFrames /\ session' = [session EXCEPT ![c].frames = @ + 1]
        \/ session' = [session EXCEPT ![c].call = 2, ![c].frames = 0, ![c].pc = "send"]
        \/ session' = [session EXCEPT ![c].call = 3, ![c].frames = 0, ![c].pc = "send"]
        \/ \E x \in {"Ok", "Authentication", "UnexpectedResponse"} : Codex!Ends(c, x)
    BY <2>2, <2>3 DEF says
  <2>5. {"Ok", "Authentication", "UnexpectedResponse"} \subseteq Outcome
    BY <1>1 DEF Outcome
  <2>6. 2 \in 1..3 /\ 3 \in 1..3
    OBVIOUS
  <2> QED BY <1>3, <1>4, <1>5, <2>4, <2>5, <2>6
<1>8. CASE Codex!PipeEnds(c) \/ Codex!TimesOut(c)
  BY <1>1, <1>3, <1>8 DEF Codex!PipeEnds, Codex!TimesOut, Outcome
<1>9. CASE Codex!Expire(c)
  <2> DEFINE s == [session[c] EXCEPT !.late = TRUE]
  <2>1. s \in Reading /\ s.pc = session[c].pc /\ s.run = session[c].run /\ s.result = session[c].result
        /\ s.running = session[c].running /\ s.target = session[c].target
    BY <1>0 DEF Reading
  <2>2. session' = [session EXCEPT ![c] = s]
    BY <1>9 DEF Codex!Expire
  <2> HIDE DEF s
  <2>3. GoesTo(c, session[c].pc, session[c].result)
    BY <1>0, <2>1, <2>2, Took DEF GoesTo, Moves
  <2> QED BY <1>0, <1>2, <2>3
<1> QED BY <1>6, <1>7, <1>8, <1>9

\* The end of the process, and the crash of a client.
LEMMA EndStep ==
  ASSUME CodexInv, NEW c \in Client, Codex!Stop(c) \/ Codex!Release(c) \/ Codex!Crash(c)
  PROVE  CodexInv'
<1>0. /\ session \in [Client -> Reading] /\ ReadingIsKept(c) /\ session[c] \in Reading
      /\ session[c].pc # "idle" /\ session[c].run \in 1..MaxRuns /\ session[c].result \in Outcome
      /\ profiles \in [Codex!Dir -> SUBSET Codex!Content] /\ Codex!Own(c) \in Codex!Dir
  <2>1. session[c].pc # "idle"
    BY DEF Codex!Stop, Codex!Release, Codex!Crash
  <2>2. session[c].run \in 1..MaxRuns
    BY <2>1, ReadingTyped DEF ReadingIsKept
  <2>3. Codex!Own(c) \in Codex!Dir
    BY <2>2 DEF Codex!Own, Codex!Dir
  <2> QED BY <2>1, <2>2, <2>3, ReadingTyped
<1>1. "Transient" \in Outcome /\ {"idle", "list", "release"} \subseteq Codex!Pc
  BY DEF Codex!Failure, Outcome, Codex!Pc
<1> DEFINE v == profiles[Codex!Own(c)] \ {"open"}
<1>2. v \in SUBSET Codex!Content
  BY <1>0
<1>3. ASSUME profiles' = [profiles EXCEPT ![Codex!Own(c)] = v]
      PROVE  /\ profiles' \in [Codex!Dir -> SUBSET Codex!Content]
             /\ \A x \in Client, n \in 1..MaxRuns : x # c => Spares(<<x, n>>)
  <2> HIDE DEF v
  <2> QED BY <1>0, <1>2, <1>3, OwnProfile
<1>4. CASE Codex!Stop(c)
  <2>1. PICK x \in {session[c].result, "Transient"} :
           session' = [session EXCEPT ![c].pc = "release", ![c].running = FALSE, ![c].result = x]
    BY <1>4 DEF Codex!Stop
  <2> DEFINE s == [session[c] EXCEPT !.pc = "release", !.running = FALSE, !.result = x]
  <2>2. x \in Outcome
    BY <1>0, <1>1
  <2>3. s \in Reading /\ s.pc = "release" /\ s.run = session[c].run /\ s.result = x /\ s.running = FALSE
        /\ s.target = session[c].target
    BY <1>0, <1>1, <2>2 DEF Reading, Outcome
  <2>4. session' = [session EXCEPT ![c] = s]
    BY <2>1
  <2> HIDE DEF s
  <2>5. Moves(c, "release", x) /\ session'[c].target = session[c].target /\ ~ session'[c].running
    BY <1>0, <2>3, <2>4, Took DEF Moves
  <2>6. ReadingIsKept(c)'
    BY <1>0, <1>4, <2>1, <2>5 DEF ReadingIsKept, Locked, Moves, Codex!Stop, Codex!Own
  <2> QED BY <1>4, <2>5, <2>6, SessionStep DEF Moves, Codex!Stop
<1>5. CASE Codex!Release(c)
  <2>1. profiles' = [profiles EXCEPT ![Codex!Own(c)] = v] /\ Codex!Goto(c, "list")
        /\ session[c].pc = "release"
    BY <1>5 DEF Codex!Release
  <2>2. GoesTo(c, "list", session[c].result)
    BY <1>0, <1>1, <2>1, CodexMoves
  <2>3. ReadingIsKept(c)'
    BY <1>0, <2>1, <2>2 DEF ReadingIsKept, Locked, GoesTo, Moves
  <2> QED BY <1>3, <2>1, <2>2, <2>3, ClientStep DEF GoesTo, Moves
<1>6. CASE Codex!Crash(c)
  <2> DEFINE s == [session[c] EXCEPT !.pc = "idle", !.running = FALSE, !.result = "none", !.todo = {},
                                     !.target = <<>>, !.entries = {}, !.call = 1, !.frames = 0,
                                     !.late = FALSE]
  <2>1. profiles' = [profiles EXCEPT ![Codex!Own(c)] = v] /\ session' = [session EXCEPT ![c] = s]
    BY <1>6 DEF Codex!Crash
  <2>2. 1 \in Codex!Calls /\ 0 \in 0..MaxFrames
    BY CodexAssumption DEF Codex!Calls
  <2>3. s \in Reading /\ s.pc = "idle" /\ s.run = session[c].run /\ s.result = "none" /\ s.running = FALSE
    BY <1>0, <1>1, <2>2 DEF Reading
  <2> HIDE DEF s
  <2>4. Moves(c, "idle", "none") /\ ~ session'[c].running
    BY <1>0, <2>1, <2>3, Took DEF Moves
  <2>5. ReadingIsKept(c)'
    BY <2>4 DEF ReadingIsKept, Locked, Moves
  <2> QED BY <1>3, <2>1, <2>4, <2>5, ClientStep DEF Moves
<1> QED BY <1>4, <1>5, <1>6

\* codex_server.rs: whatever clients read, crash and sweep at once, entry by entry, a running
\* server keeps its directory and its owner's lock on it, and a reading that succeeded has left
\* no process and no profile.  Its model catalogue it may lose.
THEOREM ProfilesAreKept == Spec => []CodexProfiles
<1>1. Init => CodexInv
  <2> SUFFICES ASSUME Init PROVE CodexInv
    OBVIOUS
  <2>1. Codex!TypeOK
    BY CodexAssumption DEF Init, Codex!Init, Codex!TypeOK, Codex!Pc, Codex!Calls
  <2>2. \A x \in Client : ReadingIsKept(x)
    BY DEF Init, Codex!Init, ReadingIsKept, Locked
  <2> QED BY <2>1, <2>2 DEF CodexInv
<1>2. ASSUME CodexInv, [Next]_vars PROVE CodexInv'
  <2>1. CASE CodexStep
    BY <1>2, <2>1, EarlyStep, RemoveStep, CreateStep, ServerStep, EndStep DEF CodexStep
  <2>2. CASE (Next /\ ~ CodexStep) \/ UNCHANGED vars
    <3>1. UNCHANGED codexVars
      BY <2>2 DEF Next, vars, StoreStep, AlertsStep, ConfigStep, AuthStep, RequestStep, LogStep,
                  CheckStep, UsageStep, VerdictStep, InStore, InAlerts, InConfig, InAuth,
                  InRequest, InLog, InCheck, InUsage, InVerdict
    <3> QED BY <1>2, <3>1 DEF CodexInv, Codex!TypeOK, ReadingIsKept, Codex!Own, codexVars
  <2> QED BY <1>2, <2>1, <2>2
<1>3. CodexInv => CodexProfiles
  BY DEF CodexInv, CodexProfiles, ReadingIsKept, Locked, Lock, Codex!LockIsKept, Codex!NothingLeft
<1> QED BY <1>1, <1>2, <1>3, PTL DEF Spec

-----------------------------------------------------------------------------
\* Counters of a checker.
CheckPc == {"none", "fetch", "stamp", "free", "publish", "uptodate"}

\* A thread that checks for updates.
CheckThread == [pc : CheckPc, found : Check!Release \cup {None, NoAnswer}]

\* A verified release is one the running build may install.
Installs(r, build) == /\ r.sequence > build.sequence
                      /\ r.version < build.version => r.proved

\* One thread checks at a time: before the stamp BUSY keeps the others out, after it the day.
OneChecks ==
    /\ \A c \in Check!Checker :
         /\ checker[c].pc \in {"fetch", "stamp", "free"} => checkBusy /\ installer = None
         /\ checker[c].pc \in {"free", "publish", "uptodate"} => lastCheck = clock
         /\ checker[c].pc = "uptodate" => status.kind # "Available"
         /\ checker[c].found \notin {None, NoAnswer} => Installs(checker[c].found, installed)
    /\ \A c \in Check!Checker, d \in Check!Checker :
         c # d /\ checker[c].pc # "none" => checker[d].pc = "none"

\* What the pill offers and the installer holds may be installed.
InstallerInv ==
    /\ status.kind = "Available" => status.release \in Check!Release /\ Installs(status.release, installed)
    /\ installer # None => /\ checkBusy
                           /\ Installs(installer.release, installed)
                           /\ installer.pc = "handover" => clock < installer.release.expires

\* The inductive invariant.
CheckInv == Check!TypeOK /\ OneChecks /\ InstallerInv

\* What a step of a check does to its thread.
LEMMA ThreadMoves ==
  ASSUME CheckInv, NEW c \in Check!Checker, NEW pc \in CheckPc
  PROVE  /\ checker \in [Check!Checker -> CheckThread]
         /\ checker' = [checker EXCEPT ![c].pc = pc] =>
              /\ checker' \in [Check!Checker -> CheckThread]
              /\ checker'[c].pc = pc /\ checker'[c].found = checker[c].found
              /\ \A d \in Check!Checker : d # c => checker'[d] = checker[d]
         /\ \A x \in Check!Release \cup {None, NoAnswer} :
              checker' = [checker EXCEPT ![c] = [pc |-> pc, found |-> x]] =>
              /\ checker' \in [Check!Checker -> CheckThread]
              /\ checker'[c].pc = pc /\ checker'[c].found = x
              /\ \A d \in Check!Checker : d # c => checker'[d] = checker[d]
<1>1. checker \in [Check!Checker -> CheckThread]
  BY DEF CheckInv, Check!TypeOK, CheckThread, CheckPc
<1>2. ASSUME checker' = [checker EXCEPT ![c].pc = pc]
      PROVE  /\ checker' \in [Check!Checker -> CheckThread]
             /\ checker'[c].pc = pc /\ checker'[c].found = checker[c].found
             /\ \A d \in Check!Checker : d # c => checker'[d] = checker[d]
  BY <1>1, <1>2 DEF CheckThread
<1>3. ASSUME NEW x \in Check!Release \cup {None, NoAnswer},
             checker' = [checker EXCEPT ![c] = [pc |-> pc, found |-> x]]
      PROVE  /\ checker' \in [Check!Checker -> CheckThread]
             /\ checker'[c].pc = pc /\ checker'[c].found = x
             /\ \A d \in Check!Checker : d # c => checker'[d] = checker[d]
  BY <1>1, <1>3 DEF CheckThread
<1> QED BY <1>1, <1>2, <1>3

\* A step of one check.
LEMMA CheckerStep ==
  ASSUME CheckInv, NEW c \in Check!Checker, UNCHANGED <<installed, clock, installer>>,
         checker' \in [Check!Checker -> CheckThread],
         \A d \in Check!Checker : d # c => checker'[d] = checker[d],
         checkBusy' \in BOOLEAN, installer # None => checkBusy',
         checkBusy' \/ checker[c].pc = "free" \/ checkBusy' = checkBusy,
         status' \in [kind : {"UpToDate", "Available", "Installing", "Failed"},
                      release : Check!Release \cup {None}],
         lastCheck' \in (0..MaxTime) \cup {None}, lastCheck' = lastCheck \/ lastCheck' = clock,
         checker[c].pc = "none" => \A d \in Check!Checker : checker[d].pc = "none",
         checker'[c].pc \in {"fetch", "stamp", "free"} => checkBusy' /\ installer = None,
         checker'[c].pc \in {"free", "publish", "uptodate"} => lastCheck' = clock,
         checker'[c].pc = "uptodate" => status'.kind # "Available",
         checker'[c].found \notin {None, NoAnswer} => Installs(checker'[c].found, installed),
         status'.kind = "Available" => status'.release \in Check!Release /\ Installs(status'.release, installed)
  PROVE  CheckInv'
<1>0. checker \in [Check!Checker -> CheckThread]
  BY DEF CheckInv, Check!TypeOK, CheckThread, CheckPc
<1>1. Check!TypeOK'
  BY DEF CheckInv, Check!TypeOK, CheckThread, CheckPc
<1>2. InstallerInv'
  BY DEF CheckInv, InstallerInv
<1>3. \A d \in Check!Checker : d # c => checker[d].pc = "none"
  BY DEF CheckInv, OneChecks
<1>4. OneChecks'
  BY <1>3 DEF CheckInv, OneChecks
<1> QED BY <1>1, <1>2, <1>4 DEF CheckInv

\* The steps of a checker up to its answer.
LEMMA FetchStarts ==
  ASSUME CheckInv, NEW c \in Check!Checker,
         \/ Check!MaybeCheck(c) \/ Check!Answer(c) \/ Check!FindNothing(c)
  PROVE  CheckInv'
<1>0. /\ checker \in [Check!Checker -> CheckThread] /\ checker[c] \in CheckThread
      /\ OneChecks /\ InstallerInv /\ Check!TypeOK
  BY ThreadMoves DEF CheckInv, CheckPc
<1>1. CASE Check!MaybeCheck(c)
  <2>1. checker[c].pc = "none" /\ ~ checkBusy /\ checkBusy' = TRUE /\ installer = None
    BY <1>0, <1>1 DEF Check!MaybeCheck, InstallerInv
  <2>2. lastCheck # clock
    BY <1>0, <1>1, CheckAssumption DEF Check!MaybeCheck, Check!TypeOK
  <2>3. \A d \in Check!Checker : checker[d].pc = "none"
    BY <1>0, <2>1, <2>2 DEF OneChecks, CheckThread, CheckPc
  <2>4. /\ checker' \in [Check!Checker -> CheckThread]
        /\ checker'[c].pc = "fetch" /\ checker'[c].found = checker[c].found
        /\ \A d \in Check!Checker : d # c => checker'[d] = checker[d]
    BY <1>1, ThreadMoves DEF Check!MaybeCheck, CheckPc
  <2>5. /\ UNCHANGED <<installed, clock, installer, status, lastCheck>>
        /\ checker[c].found \notin {None, NoAnswer} => Installs(checker[c].found, installed)
    BY <1>0, <1>1 DEF Check!MaybeCheck, OneChecks
  <2>6. /\ status' \in [kind : {"UpToDate", "Available", "Installing", "Failed"},
                      release : Check!Release \cup {None}]
        /\ lastCheck' \in (0..MaxTime) \cup {None}
        /\ status'.kind = "Available" => status'.release \in Check!Release /\ Installs(status'.release, installed)
    BY <1>0, <2>5 DEF Check!TypeOK, InstallerInv
  <2> QED BY <2>1, <2>3, <2>4, <2>5, <2>6, CheckerStep
<1>2. ASSUME NEW x \in Check!Release \cup {None, NoAnswer},
             checker[c].pc = "fetch", checker' = [checker EXCEPT ![c] = [pc |-> "stamp", found |-> x]],
             UNCHANGED <<installed, clock, status, lastCheck, checkBusy, installer>>,
             x \notin {None, NoAnswer} => Installs(x, installed)
      PROVE  CheckInv'
  <2>1. /\ checker' \in [Check!Checker -> CheckThread]
        /\ checker'[c].pc = "stamp" /\ checker'[c].found = x
        /\ \A d \in Check!Checker : d # c => checker'[d] = checker[d]
    BY <1>2, ThreadMoves DEF CheckPc
  <2>2. checkBusy /\ installer = None
    BY <1>0, <1>2 DEF OneChecks
  <2>3. /\ status' \in [kind : {"UpToDate", "Available", "Installing", "Failed"},
                      release : Check!Release \cup {None}]
        /\ lastCheck' \in (0..MaxTime) \cup {None}
        /\ status'.kind = "Available" => status'.release \in Check!Release /\ Installs(status'.release, installed)
    BY <1>0, <1>2 DEF Check!TypeOK, InstallerInv
  <2> QED BY <1>2, <2>1, <2>2, <2>3, CheckerStep
<1>3. CASE Check!Answer(c)
  <2>0. PICK offer \in Check!Offer :
          \E back : Check!CheckInner(c, offer[1], offer[2], back)
    BY <1>3 DEF Check!Answer
  <2>1. PICK back : Check!CheckInner(c, offer[1], offer[2], back)
    BY <2>0
  <2> DEFINE e == offer[1]
             m == offer[2]
             x == IF Check!Verify(e, m, back)
                    THEN [version |-> m.version, sequence |-> m.sequence, expires |-> m.expires,
                          proved |-> back # None /\ Check!VerifyRollback(back, m)]
                    ELSE NoAnswer
  <2>2. m \in Check!Manifest
    BY DEF Check!Offer
  <2>3. CASE Check!Verify(e, m, back)
    <3> DEFINE known == back # None /\ Check!VerifyRollback(back, m)
               y == [version |-> m.version, sequence |-> m.sequence, expires |-> m.expires, proved |-> known]
    <3>1. known \in BOOLEAN
      OBVIOUS
    <3>2. m.sequence > installed.sequence /\ (m.version < installed.version => known)
      BY <2>3 DEF Check!Verify, Check!ValidateManifest
    <3>3. checker' = [checker EXCEPT ![c] = [pc |-> "stamp", found |-> y]]
      BY <2>1, <2>3 DEF Check!CheckInner
    <3>4. checker[c].pc = "fetch" /\ UNCHANGED <<installed, clock, status, lastCheck, checkBusy, installer>>
      BY <2>1 DEF Check!CheckInner
    <3>5. y \in Check!Release /\ Installs(y, installed)
      <4> HIDE DEF known, m
      <4> QED BY <2>2, <3>1, <3>2 DEF Check!Manifest, Check!Release, Installs
    <3> HIDE DEF y
    <3> QED BY <1>2, <3>3, <3>4, <3>5
  <2>4. CASE ~ Check!Verify(e, m, back)
    <3>1. checker' = [checker EXCEPT ![c] = [pc |-> "stamp", found |-> NoAnswer]]
      BY <2>1, <2>4 DEF Check!CheckInner
    <3>2. checker[c].pc = "fetch" /\ UNCHANGED <<installed, clock, status, lastCheck, checkBusy, installer>>
      BY <2>1 DEF Check!CheckInner
    <3> QED BY <1>2, <3>1, <3>2
  <2> QED BY <2>3, <2>4
<1>4. CASE Check!FindNothing(c)
  BY <1>2, <1>4 DEF Check!FindNothing
<1> QED BY <1>1, <1>3, <1>4

\* The steps of a checker past its answer.
LEMMA CheckEnds ==
  ASSUME CheckInv, NEW c \in Check!Checker,
         \/ Check!StampCheck(c) \/ Check!FreeChecker(c) \/ Check!Publish(c) \/ Check!PublishUpToDate(c)
  PROVE  CheckInv'
<1>0. /\ checker \in [Check!Checker -> CheckThread] /\ checker[c] \in CheckThread
      /\ OneChecks /\ InstallerInv /\ Check!TypeOK
  BY ThreadMoves DEF CheckInv, CheckPc
<1>1. /\ checker[c].found \notin {None, NoAnswer} => Installs(checker[c].found, installed)
      /\ checker[c].pc # "none" /\ UNCHANGED <<installed, clock, installer>>
      /\ checker[c].pc \in {"free", "publish", "uptodate"} => lastCheck = clock
      /\ checker[c].pc = "uptodate" => status.kind # "Available"
      /\ checkBusy \in BOOLEAN /\ (installer # None => checkBusy)
      /\ checker[c].found \in Check!Release \cup {None, NoAnswer}
      /\ status.kind = "Available" => status.release \in Check!Release /\ Installs(status.release, installed)
      /\ status \in [kind : {"UpToDate", "Available", "Installing", "Failed"},
                      release : Check!Release \cup {None}]
      /\ lastCheck \in (0..MaxTime) \cup {None} /\ clock \in 0..MaxTime
  BY <1>0 DEF OneChecks, InstallerInv, Check!TypeOK, CheckThread, Check!StampCheck, Check!FreeChecker,
              Check!Publish, Check!PublishUpToDate
<1>2. CASE Check!StampCheck(c)
  <2>1. /\ checker' \in [Check!Checker -> CheckThread]
        /\ checker'[c].pc = "free" /\ checker'[c].found = checker[c].found
        /\ \A d \in Check!Checker : d # c => checker'[d] = checker[d]
    BY <1>2, ThreadMoves DEF Check!StampCheck, CheckPc
  <2>2. checkBusy /\ installer = None
    BY <1>0, <1>2 DEF OneChecks, Check!StampCheck
  <2> QED BY <1>1, <1>2, <2>1, <2>2, CheckerStep DEF Check!StampCheck
<1>3. CASE Check!FreeChecker(c)
  <2>1. /\ checker' \in [Check!Checker -> CheckThread]
        /\ checker'[c].pc = "publish" /\ checker'[c].found = checker[c].found
        /\ \A d \in Check!Checker : d # c => checker'[d] = checker[d]
    BY <1>3, ThreadMoves DEF Check!FreeChecker, CheckPc
  <2>2. installer = None
    BY <1>0, <1>3 DEF OneChecks, Check!FreeChecker
  <2> QED BY <1>1, <1>3, <2>1, <2>2, CheckerStep DEF Check!FreeChecker
<1>4. CASE Check!Publish(c) /\ checker[c].found = None /\ status.kind # "Available"
  <2>1. /\ checker' \in [Check!Checker -> CheckThread]
        /\ checker'[c].pc = "uptodate" /\ checker'[c].found = checker[c].found
        /\ \A d \in Check!Checker : d # c => checker'[d] = checker[d]
    BY <1>4, ThreadMoves DEF Check!Publish, CheckPc
  <2> QED BY <1>1, <1>4, <2>1, CheckerStep DEF Check!Publish
<1>5. ASSUME checker' = [checker EXCEPT ![c] = [pc |-> "none", found |-> None]],
             UNCHANGED <<lastCheck, checkBusy>>,
             status' \in [kind : {"UpToDate", "Available", "Installing", "Failed"},
                      release : Check!Release \cup {None}],
             status'.kind = "Available" => status'.release \in Check!Release /\ Installs(status'.release, installed)
      PROVE  CheckInv'
  <2>1. /\ checker' \in [Check!Checker -> CheckThread]
        /\ checker'[c].pc = "none" /\ checker'[c].found = None
        /\ \A d \in Check!Checker : d # c => checker'[d] = checker[d]
    BY <1>5, ThreadMoves DEF CheckPc
  <2> QED BY <1>1, <1>5, <2>1, CheckerStep
<1>6. CASE Check!Publish(c) /\ ~ (checker[c].found = None /\ status.kind # "Available")
  <2>1. /\ status' = IF checker[c].found \in {None, NoAnswer} THEN status
                     ELSE [kind |-> "Available", release |-> checker[c].found]
        /\ checker' = [checker EXCEPT ![c] = [pc |-> "none", found |-> None]]
        /\ UNCHANGED <<lastCheck, checkBusy>>
    BY <1>6 DEF Check!Publish
  <2>2. /\ status' \in [kind : {"UpToDate", "Available", "Installing", "Failed"},
                      release : Check!Release \cup {None}]
        /\ status'.kind = "Available" => status'.release \in Check!Release /\ Installs(status'.release, installed)
    BY <1>1, <2>1
  <2> QED BY <1>5, <2>1, <2>2
<1>7. CASE Check!PublishUpToDate(c)
  BY <1>5, <1>7 DEF Check!PublishUpToDate
<1> QED BY <1>2, <1>3, <1>4, <1>6, <1>7

\* The install thread, and the day.
LEMMA InstallStep ==
  ASSUME CheckInv,
         \/ Check!Install \/ Check!InstallFails \/ Check!RecoverFirst \/ Check!Download
         \/ Check!HandOver \/ Check!Day
  PROVE  CheckInv'
<1>0. OneChecks /\ InstallerInv /\ Check!TypeOK
  BY DEF CheckInv
<1> DEFINE Ready == [pc : {"recover", "download", "handover"}, release : Check!Release]
<1>1. /\ installed \in Check!Build /\ clock \in 0..MaxTime /\ checkBusy \in BOOLEAN
      /\ status \in [kind : {"UpToDate", "Available", "Installing", "Failed"},
                      release : Check!Release \cup {None}]
      /\ lastCheck \in (0..MaxTime) \cup {None}
      /\ checker \in [Check!Checker -> CheckThread]
      /\ installer \in Ready \cup {None}
  BY <1>0 DEF Check!TypeOK, CheckThread, CheckPc
<1>t. ASSUME /\ installed' \in Check!Build /\ clock' \in 0..MaxTime /\ checkBusy' \in BOOLEAN
             /\ status' \in [kind : {"UpToDate", "Available", "Installing", "Failed"},
                      release : Check!Release \cup {None}]
             /\ lastCheck' \in (0..MaxTime) \cup {None}
             /\ checker' \in [Check!Checker -> CheckThread]
             /\ installer' \in Ready \cup {None}
      PROVE  Check!TypeOK'
  BY <1>t DEF Check!TypeOK, CheckThread, CheckPc
<1>2. CASE Check!Install
  <2>1. status.release \in Check!Release /\ Installs(status.release, installed)
    BY <1>0, <1>2 DEF Check!Install, InstallerInv
  <2>2. installer' \in Ready /\ installer'.pc = "recover" /\ installer'.release = status.release
    BY <1>2, <2>1 DEF Check!Install
  <2>3. status' \in [kind : {"UpToDate", "Available", "Installing", "Failed"},
                      release : Check!Release \cup {None}] /\ status'.kind = "Installing"
    BY <1>2 DEF Check!Install
  <2>4. Check!TypeOK'
    BY <1>1, <1>t, <1>2, <2>2, <2>3 DEF Check!Install
  <2>5. InstallerInv'
    BY <1>2, <2>1, <2>2, <2>3 DEF Check!Install, InstallerInv
  <2>6. OneChecks'
    BY <1>0, <1>2, <2>3 DEF Check!Install, OneChecks
  <2> QED BY <2>4, <2>5, <2>6 DEF CheckInv
<1>3. CASE Check!InstallFails
  <2>1. status' \in [kind : {"UpToDate", "Available", "Installing", "Failed"},
                      release : Check!Release \cup {None}] /\ status'.kind = "Failed"
    BY <1>3 DEF Check!InstallFails
  <2>2. Check!TypeOK'
    BY <1>1, <1>t, <1>3, <2>1 DEF Check!InstallFails
  <2>3. InstallerInv'
    BY <1>3, <2>1 DEF Check!InstallFails, InstallerInv
  <2>4. OneChecks'
    BY <1>0, <1>3, <2>1 DEF Check!InstallFails, OneChecks, InstallerInv
  <2> QED BY <2>2, <2>3, <2>4 DEF CheckInv
<1>4. CASE Check!RecoverFirst \/ Check!Download
  <2>1. installer \in Ready /\ installer # None
    BY <1>1, <1>4 DEF Check!RecoverFirst, Check!Download
  <2>2. installer' \in Ready /\ installer'.release = installer.release
    BY <1>4, <2>1 DEF Check!RecoverFirst, Check!Download
  <2>3. clock < installer.release.expires /\ UNCHANGED <<installed, clock, status, lastCheck, checkBusy, checker>>
    BY <1>4 DEF Check!RecoverFirst, Check!Download
  <2>4. Check!TypeOK'
    BY <1>1, <1>t, <2>2, <2>3
  <2>5. InstallerInv'
    BY <1>0, <2>1, <2>2, <2>3 DEF InstallerInv
  <2>6. OneChecks'
    BY <1>0, <2>1, <2>3 DEF OneChecks
  <2> QED BY <2>4, <2>5, <2>6 DEF CheckInv
<1>5. CASE Check!HandOver
  <2>1. installer \in Ready /\ installer' = None
    BY <1>1, <1>5 DEF Check!HandOver
  <2>2. installed' \in Check!Build
    BY <1>5, <2>1 DEF Check!HandOver, Check!Build, Check!Release
  <2>3. status' \in [kind : {"UpToDate", "Available", "Installing", "Failed"},
                      release : Check!Release \cup {None}] /\ status'.kind = "UpToDate"
    BY <1>5 DEF Check!HandOver
  <2>4. checker' \in [Check!Checker -> CheckThread]
        /\ \A c \in Check!Checker : checker'[c].pc = "none" /\ checker'[c].found = None
    BY <1>5 DEF Check!HandOver, CheckThread, CheckPc
  <2>5. Check!TypeOK'
    BY <1>1, <1>t, <1>5, <2>1, <2>2, <2>3, <2>4 DEF Check!HandOver
  <2>6. InstallerInv' /\ OneChecks'
    BY <2>1, <2>3, <2>4 DEF InstallerInv, OneChecks
  <2> QED BY <2>5, <2>6 DEF CheckInv
<1>6. CASE Check!Day
  <2>1. clock' \in 0..MaxTime
    BY <1>1, <1>6, CheckAssumption DEF Check!Day
  <2>2. Check!TypeOK'
    BY <1>1, <1>t, <1>6, <2>1 DEF Check!Day
  <2>3. InstallerInv' /\ OneChecks'
    BY <1>0, <1>6 DEF Check!Day, InstallerInv, OneChecks
  <2> QED BY <2>2, <2>3 DEF CheckInv
<1> QED BY <1>2, <1>3, <1>4, <1>5, <1>6

\* updater.rs, release_manifest.rs: through checks that overlap, installs that fail and days that
\* pass, a known update is not forgotten, and what is installed is a verified release of a newer
\* sequence, within its policy when it is handed over, an older version only with a signed
\* authorization to go back.
THEOREM UpdatesKeepPolicy == Spec => UpdatesUnderPolicy
<1>1. Init => CheckInv
  <2> SUFFICES ASSUME Init PROVE CheckInv
    OBVIOUS
  <2>1. Check!TypeOK
    <3>1. 0 \in 0..MaxTime
      BY CheckAssumption
    <3>2. checker \in [Check!Checker -> [pc : {"none", "fetch", "stamp", "free", "publish", "uptodate"},
                                        found : Check!Release \cup {None, NoAnswer}]]
      BY DEF Init, Check!Init
    <3> QED BY <3>1, <3>2 DEF Init, Check!Init, Check!TypeOK
  <2>2. OneChecks /\ InstallerInv
    BY DEF Init, Check!Init, OneChecks, InstallerInv
  <2> QED BY <2>1, <2>2 DEF CheckInv
<1>2. ASSUME CheckInv, [Next]_vars
      PROVE  /\ CheckInv'
             /\ [status.kind = "Available" /\ UNCHANGED installed => status'.kind # "UpToDate"]_(Check!vars)
             /\ [installed' # installed =>
                   /\ installed'.sequence > installed.sequence
                   /\ clock < installer.release.expires
                   /\ installed'.version < installed.version => installer.release.proved]_(Check!vars)
  <2>1. CASE CheckStep
    <3>1. CheckInv'
      BY <1>2, <2>1, FetchStarts, CheckEnds, InstallStep DEF CheckStep
    <3>2. Check!HandOver => /\ installer # None /\ Installs(installer.release, installed)
                            /\ installed' = [version |-> installer.release.version,
                                             sequence |-> installer.release.sequence]
                            /\ clock < installer.release.expires
      BY <1>2 DEF CheckInv, InstallerInv, Check!HandOver
    <3>3. ~ Check!HandOver => UNCHANGED installed
      BY <2>1 DEF CheckStep, Check!MaybeCheck, Check!Answer, Check!CheckInner, Check!FindNothing,
                  Check!StampCheck, Check!FreeChecker, Check!Publish, Check!PublishUpToDate,
                  Check!Install, Check!InstallFails, Check!RecoverFirst, Check!Download, Check!Day
    <3>4. installed' # installed =>
                   /\ installed'.sequence > installed.sequence
                   /\ clock < installer.release.expires
                   /\ installed'.version < installed.version => installer.release.proved
      BY <3>2, <3>3 DEF Installs
    <3>5. status.kind = "Available" /\ UNCHANGED installed => status'.kind # "UpToDate"
      <4> SUFFICES ASSUME status.kind = "Available", UNCHANGED installed, status'.kind = "UpToDate"
                   PROVE  FALSE
        OBVIOUS
      <4>1. ~ Check!HandOver
        <5> SUFFICES ASSUME Check!HandOver PROVE FALSE
          OBVIOUS
        <5>1. installed \in Check!Build /\ installer.release.sequence > installed.sequence
              /\ installed.sequence = installer.release.sequence
          BY <1>2, <3>2 DEF CheckInv, Check!TypeOK, Installs
        <5>2. installed.sequence \in Int
          BY <5>1, CheckAssumption DEF Check!Build
        <5> QED BY <5>1, <5>2
      <4>2. \A c \in Check!Checker : ~ Check!PublishUpToDate(c)
        BY <1>2 DEF CheckInv, OneChecks, Check!PublishUpToDate
      <4> QED BY <2>1, <4>1, <4>2 DEF CheckStep, Check!MaybeCheck, Check!Answer, Check!CheckInner, Check!FindNothing,
                  Check!StampCheck, Check!FreeChecker, Check!Publish,
                  Check!Install, Check!InstallFails, Check!RecoverFirst, Check!Download, Check!Day
    <3> QED BY <3>1, <3>4, <3>5
  <2>2. CASE (Next /\ ~ CheckStep) \/ UNCHANGED vars
    <3>1. UNCHANGED updatesVars
      BY <2>2 DEF Next, vars, StoreStep, AlertsStep, ConfigStep, AuthStep, CodexStep, RequestStep, LogStep,
                  UsageStep, VerdictStep, InStore, InAlerts, InConfig, InAuth,
                  InCodex, InRequest, InLog, InUsage, InVerdict
    <3>2. UNCHANGED Check!vars
      BY <3>1 DEF updatesVars, Check!vars
    <3> QED BY <1>2, <3>1, <3>2 DEF CheckInv, Check!TypeOK, OneChecks, InstallerInv, updatesVars
  <2> QED BY <1>2, <2>1, <2>2
<1>3. CheckInv => (part = "updates" => Check!TypeOK)
  BY DEF CheckInv
<1> QED BY <1>1, <1>2, <1>3, PTL DEF Spec, UpdatesUnderPolicy, Check!KnownUpdateStays,
                                     Check!InstallsUnderPolicy

-----------------------------------------------------------------------------
(* The rows of an answer.                                                   *)

\* What can be the id of a limit.
LimitId == DOMAIN Usage!ClaudeKind
             \cup (Usage!Buckets \X {"primary", "secondary", "window", "spend"} \X Nat)

\* A row that can be saved, unless it lasts longer than a year.
SoundRow ==
    {r \in [id : LimitId, kind : Usage!Kind, class : {"Quota", "Spend"}, percent : 0..100,
            hours : Nat \cup {None}] :
        /\ (r.class = "Spend") = (r.kind = "ExtraUsage")
        /\ r.hours = None \/ r.hours > 0}

\* Every adapter makes its rows with from_adapter.
LEMMA RowIsSound ==
  ASSUME NEW id \in LimitId, NEW kind \in Usage!Kind, NEW percent \in Int, NEW hours,
         hours = None \/ (hours \in Nat /\ hours > 0)
  PROVE  Usage!Row(id, kind, percent, hours) \in SoundRow
<1>1. Usage!Clamp(percent) \in 0..100
  BY DEF Usage!Clamp
<1> QED BY <1>1 DEF Usage!Row, SoundRow

\* Lists of at most one row, joined.
LEMMA JoinedRows ==
  ASSUME NEW T, NEW a \in Seq(T), NEW b \in Seq(T)
  PROVE  a \o b \in Seq(T) /\ Len(a \o b) = Len(a) + Len(b)
OBVIOUS

\* A list of one row.
LEMMA OneRow ==
  ASSUME NEW T, NEW r \in T PROVE <<r>> \in Seq(T) /\ Len(<<r>>) = 1
OBVIOUS

\* The empty list of rows.
LEMMA NoRow == ASSUME NEW T PROVE <<>> \in Seq(T) /\ Len(<<>>) = 0
OBVIOUS

\* The first n rows of a list.
LEMMA FirstRows ==
  ASSUME NEW T, NEW s \in Seq(T), NEW n \in Nat
  PROVE  Usage!First(n, s) \in Seq(T) /\ Len(Usage!First(n, s)) <= n
<1> DEFINE m == IF Len(s) < n THEN Len(s) ELSE n
<1>1. m \in Nat /\ m <= Len(s) /\ m <= n
  OBVIOUS
<1> HIDE DEF m
<1>2. SubSeq(s, 1, m) \in Seq(T) /\ Len(SubSeq(s, 1, m)) = m
  BY <1>1, SubSeqProperties
<1>3. Usage!First(n, s) = SubSeq(s, 1, m)
  BY DEF Usage!First, m
<1> QED BY <1>1, <1>2, <1>3

\* f joins the lists of ss up to each place.
Joins(f, n, ss) == f = [i \in 1..n |-> IF i = 1 THEN ss[i] ELSE f[i-1] \o ss[i]]

\* What joins the first n lists can be continued.
LEMMA JoinsOn ==
  ASSUME NEW n \in Nat, NEW f, NEW ss, Joins(f, n, ss)
  PROVE  \E g : Joins(g, n + 1, ss)
<1> DEFINE g == [i \in 1..n+1 |-> IF i \in 1..n THEN f[i] ELSE IF i = 1 THEN ss[i] ELSE f[i-1] \o ss[i]]
<1>1. \A i \in 1..n : f[i] = IF i = 1 THEN ss[i] ELSE f[i-1] \o ss[i]
  BY DEF Joins
<1>2. \A i \in 1..n+1 : g[i] = IF i = 1 THEN ss[i] ELSE g[i-1] \o ss[i]
  <2> SUFFICES ASSUME NEW i \in 1..n+1 PROVE g[i] = IF i = 1 THEN ss[i] ELSE g[i-1] \o ss[i]
    OBVIOUS
  <2>1. i # 1 => i - 1 \in 1..n /\ g[i-1] = f[i-1]
    OBVIOUS
  <2>2. CASE i \in 1..n
    BY <1>1, <2>1, <2>2
  <2>3. CASE i \notin 1..n
    BY <2>1, <2>3
  <2> QED BY <2>2, <2>3
<1>3. g = [i \in 1..n+1 |-> g[i]]
  OBVIOUS
<1> HIDE DEF g
<1>4. g = [i \in 1..n+1 |-> IF i = 1 THEN ss[i] ELSE g[i-1] \o ss[i]]
  BY <1>2, <1>3
<1> QED BY <1>4 DEF Joins

\* Lists of rows, joined, are a list of rows.
LEMMA JoinedAll ==
  ASSUME NEW T, NEW ss \in Seq(Seq(T))
  PROVE  Usage!FlattenSeq(ss) \in Seq(T)
<1> DEFINE S == {n \in Nat : \E f : Joins(f, n, ss)}
<1>1. 0 \in S
  <2>1. Joins([i \in 1..0 |-> ss], 0, ss)
    BY DEF Joins
  <2> QED BY <2>1
<1>2. \A n \in Nat : n \in S => n + 1 \in S
  BY JoinsOn
<1>3. Nat \subseteq S
  <2> HIDE DEF S
  <2> QED BY <1>1, <1>2, SetInduction
<1> DEFINE flatten == CHOOSE f : f = [i \in 1..Len(ss) |-> IF i = 1 THEN ss[i] ELSE f[i-1] \o ss[i]]
<1>4. Joins(flatten, Len(ss), ss)
  <2>1. Len(ss) \in S
    BY <1>3
  <2>2. PICK f : Joins(f, Len(ss), ss)
    BY <2>1
  <2>3. f = [i \in 1..Len(ss) |-> IF i = 1 THEN ss[i] ELSE f[i-1] \o ss[i]]
    BY <2>2 DEF Joins
  <2> QED BY <2>3 DEF Joins
<1> HIDE DEF flatten, S
<1>5. \A i \in 1..Len(ss) : flatten[i] = IF i = 1 THEN ss[i] ELSE flatten[i-1] \o ss[i]
  BY <1>4 DEF Joins
<1> DEFINE U == {n \in Nat : n \in 1..Len(ss) => flatten[n] \in Seq(T)}
<1>6. 0 \in U
  OBVIOUS
<1>7. ASSUME NEW n \in Nat, n \in U PROVE n + 1 \in U
  <2>1. n \in 1..Len(ss) => flatten[n] \in Seq(T)
    BY <1>7
  <2>2. ASSUME n + 1 \in 1..Len(ss) PROVE flatten[n+1] \in Seq(T)
    <3>1. ss[n+1] \in Seq(T)
      BY <2>2
    <3>2. flatten[n+1] = IF n + 1 = 1 THEN ss[n+1] ELSE flatten[n+1-1] \o ss[n+1]
      BY <1>5, <2>2
    <3>3. CASE n = 0
      BY <3>1, <3>2, <3>3
    <3>4. CASE n # 0
      <4>1. n + 1 - 1 = n /\ n + 1 # 1 /\ n \in 1..Len(ss)
        BY <2>2, <3>4
      <4>2. flatten[n+1] = flatten[n] \o ss[n+1] /\ flatten[n] \in Seq(T)
        BY <2>1, <3>2, <4>1
      <4> QED BY <3>1, <4>2, JoinedRows
    <3> QED BY <3>3, <3>4
  <2> QED BY <2>2
<1>8. Nat \subseteq U
  <2> HIDE DEF U
  <2> QED BY <1>6, <1>7, SetInduction
<1>9. Len(ss) # 0 => Usage!FlattenSeq(ss) = flatten[Len(ss)]
  BY DEF Usage!FlattenSeq, flatten
<1>10. Len(ss) = 0 => Usage!FlattenSeq(ss) = <<>>
  BY DEF Usage!FlattenSeq
<1> QED BY <1>8, <1>9, <1>10, NoRow

\* What an answer of Anthropic becomes.
LEMMA ClaudeSound ==
  ASSUME NEW a \in Usage!ClaudeAnswer
  PROVE  Usage!ClaudeRows(a) \in Seq(SoundRow) /\ Len(Usage!ClaudeRows(a)) <= MaxRows
<1> USE RowsAssumption
<1>k. /\ DOMAIN Usage!ClaudeKind = {"session", "weekly_all", "weekly_scoped", "extra", "unknown"}
      /\ {"session", "weekly_all", "weekly_scoped", "extra", "unknown"} \subseteq LimitId
  BY DEF Usage!ClaudeKind, LimitId
<1>1. /\ a.five_hour # None => a.five_hour \in Int
      /\ a.seven_day # None => a.seven_day \in Int
      /\ a.extra # None => a.extra \in Int
      /\ \E n \in Nat : a.limits \in [1..n -> Usage!ClaudeLimit]
  <2>1. /\ a.five_hour \in {None} \cup Percent /\ a.seven_day \in {None} \cup Percent
        /\ a.extra \in {None, 0} \cup Percent
        /\ a.limits \in UNION {[1..n -> Usage!ClaudeLimit] : n \in 0..MaxRows + 1}
    BY DEF Usage!ClaudeAnswer
  <2>2. PICK n \in 0..MaxRows + 1 : a.limits \in [1..n -> Usage!ClaudeLimit]
    BY <2>1, Zenon
  <2>3. n \in Nat
    OBVIOUS
  <2>4. \E m \in Nat : a.limits \in [1..m -> Usage!ClaudeLimit]
    BY <2>2, <2>3
  <2>5. /\ a.five_hour # None => a.five_hour \in Int
        /\ a.seven_day # None => a.seven_day \in Int
        /\ a.extra # None => a.extra \in Int
    <3>1. 0 \in Int /\ Percent \subseteq Int
      OBVIOUS
    <3> QED BY <2>1, <3>1, Zenon
  <2> QED BY <2>4, <2>5
<1> DEFINE ss == [i \in DOMAIN a.limits |->
                   IF a.limits[i].percent = None THEN <<>>
                   ELSE <<Usage!Row(a.limits[i].kind, Usage!ClaudeKind[a.limits[i].kind],
                                    a.limits[i].percent, Usage!ClaudeHours[a.limits[i].kind])>>]
<1>2. ss \in Seq(Seq(SoundRow))
  <2>1. PICK n \in Nat : a.limits \in [1..n -> Usage!ClaudeLimit]
    BY <1>1
  <2>2. ASSUME NEW i \in 1..n PROVE ss[i] \in Seq(SoundRow)
    <3> DEFINE l == a.limits[i]
    <3>1. l.kind \in DOMAIN Usage!ClaudeKind /\ (l.percent # None => l.percent \in Int)
      BY <2>1, <2>2 DEF Usage!ClaudeLimit
    <3>2. /\ Usage!ClaudeKind[l.kind] \in Usage!Kind
          /\ Usage!ClaudeHours[l.kind] = None \/ (Usage!ClaudeHours[l.kind] \in Nat /\ Usage!ClaudeHours[l.kind] > 0)
      BY <1>k, <3>1 DEF Usage!ClaudeKind, Usage!ClaudeHours, Usage!Kind, Usage!Week, Usage!Day
    <3>3. l.percent # None =>
            Usage!Row(l.kind, Usage!ClaudeKind[l.kind], l.percent, Usage!ClaudeHours[l.kind]) \in SoundRow
      BY <1>k, <3>1, <3>2, RowIsSound
    <3>4. ss[i] = IF l.percent = None THEN <<>>
                  ELSE <<Usage!Row(l.kind, Usage!ClaudeKind[l.kind], l.percent, Usage!ClaudeHours[l.kind])>>
      BY <2>1, <2>2
    <3> HIDE DEF ss, l
    <3> QED BY <3>3, <3>4, OneRow, NoRow
  <2>3. ss = [i \in 1..n |-> ss[i]]
    BY <2>1
  <2> HIDE DEF ss
  <2> QED BY <2>2, <2>3
<1>3. Usage!Listed(a.limits) = Usage!FlattenSeq(ss)
  BY DEF Usage!Listed
<1>4. Usage!Listed(a.limits) \in Seq(SoundRow)
  <2> HIDE DEF ss
  <2> QED BY <1>2, <1>3, JoinedAll
<1> HIDE DEF ss
<1> DEFINE five == Usage!Row("session", "Session", a.five_hour, 5)
           seven == Usage!Row("weekly_all", "Weekly", a.seven_day, Usage!Week)
<1>5. /\ a.five_hour # None => five \in SoundRow
      /\ a.seven_day # None => seven \in SoundRow
  <2>1. /\ 5 \in Nat /\ Usage!Week \in Nat /\ Usage!Week > 0
        /\ "Session" \in Usage!Kind /\ "Weekly" \in Usage!Kind
    BY DEF Usage!Week, Usage!Day, Usage!Kind
  <2>2. "session" \in LimitId /\ "weekly_all" \in LimitId
    BY <1>k
  <2>3. ASSUME a.five_hour # None PROVE five \in SoundRow
    BY <1>1, <2>1, <2>2, <2>3, RowIsSound
  <2>4. ASSUME a.seven_day # None PROVE seven \in SoundRow
    BY <1>1, <2>1, <2>2, <2>4, RowIsSound
  <2> QED BY <2>3, <2>4
<1>6. Usage!Older(a) \in Seq(SoundRow) /\ Len(Usage!Older(a)) <= 2
  <2> DEFINE first == IF a.five_hour = None THEN <<>> ELSE <<five>>
             second == IF a.seven_day = None THEN <<>> ELSE <<seven>>
  <2>1. /\ first \in Seq(SoundRow) /\ second \in Seq(SoundRow)
        /\ Len(first) \in 0..1 /\ Len(second) \in 0..1
    <3> HIDE DEF five, seven
    <3> QED BY <1>5, OneRow, NoRow
  <2>2. Usage!Older(a) = first \o second
    BY DEF Usage!Older
  <2> HIDE DEF first, second
  <2> QED BY <2>1, <2>2, JoinedRows
<1> DEFINE listed == Usage!First(MaxRows, Usage!Listed(a.limits))
           limited == IF listed = <<>> THEN Usage!Older(a) ELSE listed
           extra == Usage!Row("extra", "ExtraUsage", a.extra, None)
<1>7. limited \in Seq(SoundRow) /\ Len(limited) <= MaxRows
  BY <1>4, <1>6, FirstRows
<1>8. a.extra # None => extra \in SoundRow
  <2>1. "extra" \in LimitId /\ "ExtraUsage" \in Usage!Kind
    BY <1>k DEF Usage!Kind
  <2> QED BY <1>1, <2>1, RowIsSound
<1>9. Usage!ClaudeRows(a) = IF a.extra = None \/ Len(limited) >= MaxRows THEN limited
                            ELSE Append(limited, extra)
  BY DEF Usage!ClaudeRows
<1> HIDE DEF limited, extra
<1>10. a.extra # None /\ ~ (Len(limited) >= MaxRows) =>
         /\ Append(limited, extra) \in Seq(SoundRow)
         /\ Len(Append(limited, extra)) <= MaxRows
  BY <1>7, <1>8
<1> QED BY <1>7, <1>9, <1>10

\* A window of the web interface.
LEMMA PushIsSound ==
  ASSUME NEW w \in Usage!Window \cup {None}, NEW position \in {"session", "weekly_all"}
  PROVE  Usage!PushRow(w, position) \in Seq(SoundRow)
<1> USE RowsAssumption
<1>1. CASE w = None
  BY <1>1, NoRow DEF Usage!PushRow
<1>2. CASE w # None
  <2>1. w.percent \in Int /\ (w.hours # None => w.hours \in Nat)
    BY <1>2 DEF Usage!Window
  <2> DEFINE known == w.hours # None /\ w.hours > 0
             id == IF ~known THEN position ELSE IF w.hours <= Usage!Day THEN "session" ELSE "weekly_all"
             kind == IF ~known THEN "Other" ELSE IF w.hours <= Usage!Day THEN "Session" ELSE "Weekly"
             hours == IF known THEN w.hours ELSE None
  <2>2. id \in LimitId /\ kind \in Usage!Kind
    BY DEF LimitId, Usage!ClaudeKind, Usage!Kind
  <2>3. hours = None \/ (hours \in Nat /\ hours > 0)
    BY <2>1
  <2>4. Usage!PushRow(w, position) = <<Usage!Row(id, kind, w.percent, hours)>>
    BY <1>2 DEF Usage!PushRow
  <2> HIDE DEF id, kind, hours
  <2>5. Usage!Row(id, kind, w.percent, hours) \in SoundRow
    BY <2>1, <2>2, <2>3, RowIsSound
  <2> QED BY <2>4, <2>5, OneRow
<1> QED BY <1>1, <1>2

\* What an answer of the web interface becomes.
LEMMA WhamSound ==
  ASSUME NEW a \in Usage!WhamAnswer
  PROVE  Usage!WhamRows(a) \in Seq(SoundRow) /\ Len(Usage!WhamRows(a)) <= MaxRows
<1>1. a.primary \in Usage!Window \cup {None} /\ a.secondary \in Usage!Window \cup {None}
  BY DEF Usage!WhamAnswer
<1>2. /\ Usage!PushRow(a.primary, "session") \in Seq(SoundRow)
      /\ Usage!PushRow(a.secondary, "weekly_all") \in Seq(SoundRow)
  BY <1>1, PushIsSound
<1>3. Usage!PushRow(a.primary, "session") \o Usage!PushRow(a.secondary, "weekly_all") \in Seq(SoundRow)
  BY <1>2, JoinedRows
<1> QED BY <1>3, RowsAssumption, FirstRows DEF Usage!WhamRows

\* A window of a bucket.
LEMMA WindowIsSound ==
  ASSUME NEW id \in Usage!Buckets, NEW w \in Usage!Window, NEW position \in {"primary", "secondary"}
  PROVE  Usage!ServerWindow(id, position, w) \in SoundRow
<1> USE RowsAssumption
<1>1. w.percent \in Int /\ (w.hours # None => w.hours \in Nat)
  BY DEF Usage!Window
<1> DEFINE hours == IF w.hours # None /\ w.hours > 0 THEN w.hours ELSE None
           kind == CASE id # "codex" -> "Model"
                     [] id = "codex" /\ hours = None -> "Other"
                     [] id = "codex" /\ hours # None ->
                          IF hours <= Usage!Day THEN "Session"
                          ELSE IF hours = Usage!Week THEN "Weekly" ELSE "Other"
           limit_id == IF hours = None THEN <<id, position, 0>> ELSE <<id, "window", hours>>
<1>2. hours = None \/ (hours \in Nat /\ hours > 0)
  BY <1>1
<1>3. Usage!ServerWindow(id, position, w) = Usage!Row(limit_id, kind, w.percent, hours)
  BY DEF Usage!ServerWindow
<1> HIDE DEF hours
<1>4. kind \in Usage!Kind
  BY DEF Usage!Kind
<1>5. limit_id \in LimitId
  BY <1>2 DEF LimitId
<1> HIDE DEF kind, limit_id
<1> QED BY <1>1, <1>2, <1>3, <1>4, <1>5, RowIsSound

\* The windows and the spend limit of a bucket.
LEMMA BucketIsSound ==
  ASSUME NEW id \in Usage!Buckets, NEW bucket \in Usage!Bucket
  PROVE  Usage!BucketRows(id, bucket) \in Seq(SoundRow)
<1> USE RowsAssumption
<1>1. /\ bucket.primary # None => bucket.primary \in Usage!Window
      /\ bucket.secondary # None => bucket.secondary \in Usage!Window
      /\ bucket.spend # None => bucket.spend \in Int
  BY DEF Usage!Bucket
<1> DEFINE first == IF bucket.primary = None THEN <<>>
                    ELSE <<Usage!ServerWindow(id, "primary", bucket.primary)>>
           second == IF bucket.secondary = None THEN <<>>
                     ELSE <<Usage!ServerWindow(id, "secondary", bucket.secondary)>>
           third == IF bucket.spend = None THEN <<>>
                    ELSE <<Usage!Row(<<id, "spend", 0>>, "ExtraUsage", 100 - bucket.spend, None)>>
<1>2. first \in Seq(SoundRow)
  BY <1>1, WindowIsSound, OneRow, NoRow
<1>3. second \in Seq(SoundRow)
  BY <1>1, WindowIsSound, OneRow, NoRow
<1>4. third \in Seq(SoundRow)
  <2>1. <<id, "spend", 0>> \in LimitId /\ "ExtraUsage" \in Usage!Kind
    BY DEF LimitId, Usage!Kind
  <2>2. bucket.spend # None =>
           Usage!Row(<<id, "spend", 0>>, "ExtraUsage", 100 - bucket.spend, None) \in SoundRow
    <3>1. bucket.spend # None => 100 - bucket.spend \in Int
      BY <1>1
    <3> QED BY <2>1, <3>1, RowIsSound
  <2> QED BY <2>2, OneRow, NoRow
<1>5. Usage!BucketRows(id, bucket) = (first \o second) \o third
  BY DEF Usage!BucketRows
<1> HIDE DEF first, second, third
<1> QED BY <1>2, <1>3, <1>4, <1>5, JoinedRows

\* What an answer of the app server becomes.
LEMMA ServerSound ==
  ASSUME NEW a \in Usage!ServerAnswer
  PROVE  /\ Usage!ServerRows(a) \in Seq(SoundRow) /\ Len(Usage!ServerRows(a)) <= MaxRows
         /\ Usage!IdsDiffer(Usage!ServerRows(a))
         /\ Usage!ServerRows(a) # <<>> => a.account # "other"
<1> USE RowsAssumption
<1> DEFINE Of(id) == IF id \in DOMAIN a.limits THEN Usage!BucketRows(id, a.limits[id]) ELSE <<>>
<1>1. \A id \in DOMAIN a.limits : id \in Usage!Buckets /\ a.limits[id] \in Usage!Bucket
  BY DEF Usage!ServerAnswer
<1>2. Of("codex") \in Seq(SoundRow) /\ Of("spark") \in Seq(SoundRow)
  BY <1>1, BucketIsSound, NoRow
<1>3. Usage!AllRows(a.limits) = Of("codex") \o Of("spark")
  BY DEF Usage!AllRows
<1> HIDE DEF Of
<1>4. Usage!AllRows(a.limits) \in Seq(SoundRow)
  BY <1>2, <1>3, JoinedRows
<1>5. CASE Usage!ServerRows(a) = <<>>
  BY <1>5, NoRow DEF Usage!IdsDiffer
<1>6. CASE Usage!ServerRows(a) # <<>>
  <2>1. /\ Usage!ServerRows(a) = Usage!AllRows(a.limits)
        /\ a.account # "other" /\ ~ (Len(Usage!AllRows(a.limits)) > MaxRows)
        /\ Usage!IdsDiffer(Usage!AllRows(a.limits))
    BY <1>6 DEF Usage!ServerRows
  <2>2. Len(Usage!AllRows(a.limits)) \in Nat
    BY <1>4
  <2> QED BY <1>4, <2>1, <2>2
<1> QED BY <1>5, <1>6

\* Sound rows can be saved.
LEMMA SoundSavable ==
  ASSUME NEW rs \in Seq(SoundRow), Len(rs) <= MaxRows
  PROVE  /\ Usage!ValidCache(rs) \/ ~ Usage!IdsDiffer(rs)
            \/ \E i \in DOMAIN rs : rs[i].hours # None /\ rs[i].hours > Usage!Longest
         /\ \A i \in DOMAIN rs : /\ rs[i].kind \in Usage!Kind
                                /\ rs[i].percent \in 0..100
                                /\ rs[i].hours \in Nat \cup {None}
<1>1. \A i \in DOMAIN rs : rs[i] \in SoundRow
  OBVIOUS
<1>2. \A i \in DOMAIN rs :
         /\ rs[i].kind \in Usage!Kind /\ rs[i].percent \in 0..100 /\ rs[i].hours \in Nat \cup {None}
         /\ (rs[i].class = "Spend") = (rs[i].kind = "ExtraUsage")
         /\ rs[i].hours = None \/ rs[i].hours > 0
  BY <1>1 DEF SoundRow
<1>3. Usage!Longest \in Nat
  BY DEF Usage!Longest, Usage!Day
<1>4. ASSUME NEW i \in DOMAIN rs, ~ (rs[i].hours # None /\ rs[i].hours > Usage!Longest)
      PROVE  rs[i].hours = None \/ rs[i].hours \in 1..Usage!Longest
  BY <1>2, <1>3, <1>4
<1> QED BY <1>2, <1>4 DEF Usage!ValidCache

\* What has been read of an answer can be saved.
RowsInv == Usage!TypeOK /\ Usage!AcceptedIsSavable

\* An answer that is taken apart.
LEMMA AnswerRead ==
  ASSUME UsageStep
  PROVE  RowsInv'
<1>1. ASSUME NEW form, NEW a, NEW rs \in Seq(SoundRow), Usage!Take(form, a, rs), Len(rs) <= MaxRows,
             form \in {"claude", "wham"} \/ (form = "server" /\ Usage!IdsDiffer(rs)
                                              /\ (rs # <<>> => a.account # "other"))
      PROVE  RowsInv'
  <2>1. /\ rows' = rs /\ reading'.form = form /\ reading'.content = a
    BY <1>1 DEF Usage!Take
  <2>2. Usage!TypeOK'
    BY <1>1, <2>1, SoundSavable DEF Usage!TypeOK
  <2>3. Usage!AcceptedIsSavable'
    BY <1>1, <2>1, SoundSavable DEF Usage!AcceptedIsSavable, Usage!UsageIsCached
  <2> QED BY <2>2, <2>3 DEF RowsInv
<1>2. CASE Usage!ReadClaude
  BY <1>1, <1>2, ClaudeSound DEF Usage!ReadClaude
<1>3. CASE Usage!ReadWham
  BY <1>1, <1>3, WhamSound DEF Usage!ReadWham
<1>4. CASE Usage!ReadServer
  BY <1>1, <1>4, ServerSound DEF Usage!ReadServer
<1> QED BY <1>2, <1>3, <1>4 DEF UsageStep

-----------------------------------------------------------------------------
(* The verdict on a limit.                                                  *)

\* Products that the verdicts compare.
LEMMA Products ==
  ASSUME NEW u \in Nat, NEW w \in Nat, NEW t \in Nat
  PROVE  u * w \in Nat /\ (u + 1) * w = u * w + w
OBVIOUS

\* A factor of a smaller product is smaller.
LEMMA SmallerFactor ==
  ASSUME NEW c \in Nat, c > 0, NEW a \in Int, NEW b \in Int, c * a < c * b
  PROVE  a < b
<1> SUFFICES ASSUME ~ (a < b) PROVE FALSE
  OBVIOUS
<1>1. a - b \in Nat /\ a = b + (a - b)
  OBVIOUS
<1>2. c * (a - b) \in Nat
  BY <1>1
<1>3. c * a = c * b + c * (a - b)
  BY <1>1
<1> QED BY <1>2, <1>3

\* What a quotient is.
LEMMA Quotient ==
  ASSUME NEW x \in Nat, NEW c \in Nat, c > 0
  PROVE  /\ x \div c \in Nat
         /\ c * (x \div c) <= x /\ x < c * (x \div c) + c
OBVIOUS
\* What is known of a limit that is judged.
LEMMA JudgedLimit ==
  ASSUME NEW l \in Verdict!Limits, NEW u \in 0..Verdict!Full, NEW t \in Int, Verdict!Judged(l, u, t)
  PROVE  /\ l.window \in Nat /\ t \in Nat /\ t < l.window /\ t >= 900 /\ u \in Nat /\ u > 0
         /\ u * l.window \in Nat
<1>1. l.window # None /\ l.window \in PaceWindows \cup {None} /\ 0 <= t /\ t < l.window /\ u > 0
      /\ ~ (t < 900)
  BY DEF Verdict!Judged, Verdict!TooEarly, Verdict!Limits
<1>2. l.window \in Nat /\ u \in Nat
  <2>1. PaceWindows \subseteq Nat
    BY PaceAssumption
  <2>2. u \in Nat
    BY DEF Verdict!Full
  <2> QED BY <1>1, <2>1, <2>2
<1> QED BY <1>1, <1>2, Products

\* The verdict on a limit that is judged, and its place among the colours.
LEMMA Verdicts ==
  ASSUME NEW l \in Verdict!Limits, NEW u \in 0..Verdict!Full, NEW t \in Int, Verdict!Judged(l, u, t)
  PROVE  Verdict!Rank(l, u, t) = IF u >= 199 \/ u * l.window >= 200 * t THEN 3
                                 ELSE IF 10 * (u * l.window) > 1800 * t THEN 2 ELSE 1
<1> DEFINE w == l.window
           verdict == Verdict!Project(l, u, t)
<1>1. /\ w \in Nat /\ t \in Nat /\ u \in Nat /\ u * w \in Nat
  BY JudgedLimit
<1>2. CASE u >= 199
  <2>1. verdict.name = "LimitReached"
    BY <1>1, <1>2 DEF Verdict!Project, Verdict!Reached, Verdict!Full
  <2> QED BY <1>2, <2>1 DEF Verdict!Rank
<1>3. CASE u < 199 /\ u * w >= 200 * t
  <2>1. verdict.name = "Over"
    BY <1>1, <1>3 DEF Verdict!Project, Verdict!Reached, Verdict!Full, Verdict!Projected
  <2> QED BY <1>1, <1>3, <2>1 DEF Verdict!Rank
<1>4. CASE u < 199 /\ ~ (u * w >= 200 * t) /\ 10 * (u * w) > 1800 * t
  <2>1. verdict.name = "Tight"
    BY <1>1, <1>4 DEF Verdict!Project, Verdict!Reached, Verdict!Full, Verdict!Projected
  <2> QED BY <1>1, <1>4, <2>1 DEF Verdict!Rank
<1>5. CASE u < 199 /\ ~ (u * w >= 200 * t) /\ ~ (10 * (u * w) > 1800 * t)
  <2>1. verdict.name = "OnTrack"
    BY <1>1, <1>5 DEF Verdict!Project, Verdict!Reached, Verdict!Full, Verdict!Projected
  <2> QED BY <1>1, <1>5, <2>1 DEF Verdict!Rank
<1> QED BY <1>1, <1>2, <1>3, <1>4, <1>5

\* Verdicts get worse with the usage and better with the time.
LEMMA VerdictsAreSteady ==
  ASSUME Verdict!TypeOK PROVE Verdict!SteadyVerdict
<1>1. limit \in Verdict!Limits /\ used \in 0..Verdict!Full /\ now \in Int
  BY DEF Verdict!TypeOK
<1>2. ASSUME Verdict!Judged(limit, used, now), used < Verdict!Full
      PROVE  Verdict!Rank(limit, used, now) <= Verdict!Rank(limit, used + 1, now)
  <2>1. used + 1 \in 0..Verdict!Full /\ Verdict!Judged(limit, used + 1, now)
    BY <1>1, <1>2 DEF Verdict!Judged, Verdict!Full
  <2>2. /\ limit.window \in Nat /\ now \in Nat /\ used \in Nat /\ used * limit.window \in Nat
    BY <1>1, <1>2, JudgedLimit
  <2>3. (used + 1) * limit.window = used * limit.window + limit.window
    BY <2>2, Products
  <2> DEFINE p == used * limit.window
             q == (used + 1) * limit.window
  <2>4. /\ Verdict!Rank(limit, used, now) = IF used >= 199 \/ p >= 200 * now THEN 3
                                             ELSE IF 10 * p > 1800 * now THEN 2 ELSE 1
        /\ Verdict!Rank(limit, used + 1, now) = IF used + 1 >= 199 \/ q >= 200 * now THEN 3
                                                 ELSE IF 10 * q > 1800 * now THEN 2 ELSE 1
    BY <1>1, <1>2, <2>1, Verdicts
  <2>5. p \in Nat /\ q = p + limit.window
    BY <2>2, <2>3
  <2> HIDE DEF p, q
  <2> QED BY <2>2, <2>4, <2>5
<1>3. ASSUME Verdict!Judged(limit, used, now), Verdict!Judged(limit, used, now + PaceStep)
      PROVE  Verdict!Rank(limit, used, now + PaceStep) <= Verdict!Rank(limit, used, now)
  <2>1. PaceStep \in Nat /\ now + PaceStep \in Int
    BY <1>1, PaceAssumption
  <2>2. /\ limit.window \in Nat /\ now \in Nat /\ used \in Nat /\ used * limit.window \in Nat
    BY <1>1, <1>3, JudgedLimit
  <2> DEFINE p == used * limit.window
  <2>3. /\ Verdict!Rank(limit, used, now) = IF used >= 199 \/ p >= 200 * now THEN 3
                                             ELSE IF 10 * p > 1800 * now THEN 2 ELSE 1
        /\ Verdict!Rank(limit, used, now + PaceStep) =
               IF used >= 199 \/ p >= 200 * (now + PaceStep) THEN 3
               ELSE IF 10 * p > 1800 * (now + PaceStep) THEN 2 ELSE 1
    BY <1>1, <1>3, <2>1, Verdicts
  <2>4. p \in Nat
    BY <2>2
  <2> HIDE DEF p
  <2> QED BY <2>1, <2>2, <2>3, <2>4
<1> QED BY <1>2, <1>3 DEF Verdict!SteadyVerdict

\* A limit that is not judged is not called "Over" or "Tight".
LEMMA OnlyJudged ==
  ASSUME NEW l \in Verdict!Limits, NEW u \in 0..Verdict!Full, NEW t \in Int,
         Verdict!Project(l, u, t).name \in {"Over", "Tight"}
  PROVE  Verdict!Judged(l, u, t) /\ u < 199
<1>1. u >= 199 => Verdict!Project(l, u, t).name = "LimitReached"
  BY DEF Verdict!Project, Verdict!Reached, Verdict!Full
<1>2. u < 199 /\ ~ Verdict!Judged(l, u, t) => Verdict!Project(l, u, t).name = "Level"
  BY DEF Verdict!Project, Verdict!Reached, Verdict!Full
<1>3. u \in Nat
  BY DEF Verdict!Full
<1> QED BY <1>1, <1>2, <1>3

\* Announced instants lie in the window, spared percents are few.
LEMMA RunsOutInWindow ==
  ASSUME Verdict!TypeOK PROVE Verdict!RunOutInWindow
<1> DEFINE u == used
           t == now
           w == limit.window
           verdict == Verdict!Project(limit, used, now)
<1>1. limit \in Verdict!Limits /\ used \in 0..Verdict!Full /\ now \in Int
  BY DEF Verdict!TypeOK
<1>2. ASSUME verdict.name \in {"Over", "Tight"}
      PROVE  /\ Verdict!Judged(limit, used, now) /\ u < 199
             /\ w \in Nat /\ t \in Nat /\ t >= 900 /\ u \in Nat /\ u > 0 /\ u * w \in Nat
  BY <1>1, <1>2, OnlyJudged, JudgedLimit
<1>3. ASSUME verdict.name = "Over", verdict.limitAt # None
      PROVE  t <= verdict.limitAt /\ verdict.limitAt <= w - 60
  <2>1. /\ Verdict!Judged(limit, used, now) /\ u < 199
        /\ w \in Nat /\ t \in Nat /\ t >= 900 /\ u \in Nat /\ u > 0 /\ u * w \in Nat
    BY <1>2, <1>3
  <2> DEFINE x == (200 - u) * t
             late == x \div u
             rest == w - t - 60
  <2>2. x \in Nat
    <3>1. 200 - u \in Nat
      BY <2>1
    <3> HIDE DEF u, t
    <3> QED BY <2>1, <3>1, Products
  <2>3. late \in Nat /\ u * late <= x
    <3> HIDE DEF x, u
    <3> QED BY <2>1, <2>2, Quotient
  <2>4. verdict = [name |-> "Over", limitAt |-> IF Verdict!Margin(u, t, w) > 0
                                                THEN t + late ELSE None]
    BY <1>1, <1>3, <2>1 DEF Verdict!Project, Verdict!Reached, Verdict!Full, Verdict!ToLimit
  <2>5. Verdict!Margin(u, t, w) > 0 /\ verdict.limitAt = t + late
    <3> HIDE DEF late, verdict
    <3> QED BY <1>3, <2>4
  <2>6. rest * u - x > 0
    BY <2>5 DEF Verdict!Margin, Verdict!ToLimit, Verdict!Full
  <2>7. rest \in Int
    BY <2>1
  <2>8. u * late < u * rest
    <3> HIDE DEF x, late, rest, u
    <3> QED BY <2>1, <2>2, <2>3, <2>6, <2>7
  <2>9. late < rest
    <3> HIDE DEF late, rest, u
    <3> QED BY <2>1, <2>3, <2>7, <2>8, SmallerFactor
  <2> HIDE DEF late, verdict
  <2> QED BY <2>1, <2>3, <2>5, <2>9
<1>4. ASSUME verdict.name = "Tight" PROVE verdict.spare \in 1..9
  <2>1. /\ Verdict!Judged(limit, used, now) /\ u < 199
        /\ w \in Nat /\ t \in Nat /\ t >= 900 /\ u \in Nat /\ u > 0 /\ u * w \in Nat
    BY <1>2, <1>4
  <2> DEFINE p == u * w
             spare == (200 * t - p) \div (2 * t)
  <2>2. ~ (p >= 200 * t) /\ 10 * p > 1800 * t
        /\ verdict = [name |-> "Tight", spare |-> IF spare = 0 THEN 1 ELSE spare]
    BY <1>1, <1>4, <2>1 DEF Verdict!Project, Verdict!Reached, Verdict!Full, Verdict!Projected
  <2>3. p \in Nat
    BY <2>1
  <2>4. verdict.spare = IF spare = 0 THEN 1 ELSE spare
    <3> HIDE DEF spare, verdict
    <3> QED BY <2>2
  <2>5. 200 * t - p \in Nat /\ 2 * t \in Nat /\ 2 * t > 0 /\ 200 * t - p < 20 * t
    <3> HIDE DEF p
    <3> QED BY <2>1, <2>2, <2>3
  <2>6. spare \in Nat /\ (2 * t) * spare <= 200 * t - p
    <3> HIDE DEF p
    <3> QED BY <2>5, Quotient
  <2>7. (2 * t) * spare < (2 * t) * 10
    <3> HIDE DEF spare, p
    <3> QED BY <2>1, <2>3, <2>5, <2>6
  <2>8. spare < 10
    <3> HIDE DEF spare, p
    <3> QED BY <2>5, <2>6, <2>7, SmallerFactor
  <2> HIDE DEF spare, verdict
  <2> QED BY <2>4, <2>6, <2>8
<1> QED BY <1>3, <1>4 DEF Verdict!RunOutInWindow

\* api.rs, codex.rs, codex_server.rs, runtime_state.rs, pace.rs: whatever a provider answers, its
\* rows can be saved for the next start, unless a window is longer than a year or Claude or the
\* web interface names two limits alike; and whatever a limit is used, at any time of a window of
\* any length, its verdict is steady and announces no instant outside the window.
THEOREM RowsCanBeSaved == Spec => []RowsAreSound
<1>1. Init => RowsInv /\ Verdict!TypeOK
  <2> SUFFICES ASSUME Init PROVE RowsInv /\ Verdict!TypeOK
    OBVIOUS
  <2>1. rows = <<>> /\ limit \in Verdict!Limits /\ used = 0 /\ now = - PaceStep
    BY DEF Init, Usage!Init, Verdict!Init
  <2>2. Verdict!TypeOK
    BY <2>1, PaceAssumption DEF Verdict!TypeOK, Verdict!Full
  <2>3. DOMAIN rows = {} /\ Len(rows) = 0
    BY <2>1
  <2>4. RowsInv
    BY <2>1, <2>3, RowsAssumption
    DEF RowsInv, Usage!TypeOK, Usage!AcceptedIsSavable, Usage!UsageIsCached, Usage!ValidCache,
        Usage!IdsDiffer
  <2> QED BY <2>2, <2>4
<1>2. RowsInv /\ [Next]_vars => RowsInv'
  <2> SUFFICES ASSUME RowsInv, [Next]_vars PROVE RowsInv'
    OBVIOUS
  <2>1. CASE UsageStep
    BY <2>1, AnswerRead
  <2>2. CASE (Next /\ ~ UsageStep) \/ UNCHANGED vars
    <3>1. UNCHANGED rowsVars
      BY <2>2 DEF Next, vars, StoreStep, AlertsStep, ConfigStep, AuthStep, CodexStep, RequestStep, LogStep,
                  CheckStep, VerdictStep, InStore, InAlerts, InConfig, InAuth, InCodex,
                  InRequest, InLog, InCheck, InVerdict
    <3> QED BY <3>1
      DEF RowsInv, rowsVars, Usage!TypeOK, Usage!AcceptedIsSavable, Usage!UsageIsCached,
          Usage!ValidCache, Usage!IdsDiffer
  <2> QED BY <2>1, <2>2
<1>3. Verdict!TypeOK /\ [Next]_vars => Verdict!TypeOK'
  <2> SUFFICES ASSUME Verdict!TypeOK, [Next]_vars PROVE Verdict!TypeOK'
    OBVIOUS
  <2>1. CASE Verdict!Use
    BY <2>1 DEF Verdict!Use, Verdict!TypeOK, Verdict!Full
  <2>2. CASE Verdict!Wait
    BY <2>2, PaceAssumption DEF Verdict!Wait, Verdict!TypeOK
  <2>3. CASE (Next /\ ~ VerdictStep) \/ UNCHANGED vars
    <3>1. UNCHANGED paceVars
      BY <2>3 DEF Next, vars, StoreStep, AlertsStep, ConfigStep, AuthStep, CodexStep, RequestStep, LogStep,
                  CheckStep, UsageStep, InStore, InAlerts, InConfig, InAuth, InCodex,
                  InRequest, InLog, InCheck, InUsage
    <3> QED BY <3>1 DEF paceVars, Verdict!TypeOK
  <2> QED BY <2>1, <2>2, <2>3 DEF VerdictStep
<1>4. RowsInv /\ Verdict!TypeOK => RowsAreSound
  BY VerdictsAreSteady, RunsOutInWindow DEF RowsInv, RowsAreSound
<1> QED BY <1>1, <1>2, <1>3, <1>4, PTL DEF Spec
=============================================================================
