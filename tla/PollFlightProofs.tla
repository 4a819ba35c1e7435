---------------------------- MODULE PollFlightProofs ----------------------------
(***************************************************************************)
(* Theorems about what is in flight between the UI thread and its workers, *)
(* for all providers, accounts, sources and bounds: requests are answered  *)
(* once, preparations are carried, what is obsolete stays obsolete, and    *)
(* usage has the source it is attributed to.  Then what this has to do     *)
(* with state.json, and with time: deadlines survive, and requests keep    *)
(* their distance.                                                         *)
(*                                                                         *)
(* The inductive invariant numbers everything that travels.  Whoever holds *)
(* a preparation or a ticket got it from its slot, below the slot's next   *)
(* operation or request, and nobody else holds the same number: the slot   *)
(* cannot hand a number out twice, so an event can be matched with the one *)
(* worker it is about.                                                     *)
(***************************************************************************)
EXTENDS PollPipelineProofs, PollSpacing, FiniteSetTheorems

HasTicket(w) == w.stage \in {"granted", "executing"}

\* Events that ask for a decision on a preparation, and completions.
Asks(e, p) == e.kind # "Completed" /\ e.provider = p

Answers(e, p) == e.kind = "Completed" /\ e.provider = p

\* The parts of the invariant, for a provider with workers W, events E, the
\* reply r about to be sent and the slot s.  A ticket that is still live was
\* granted for the slot's present source.
WorkersNumbered(W, s) ==
  \A o \in Operation :
    /\ W[o].stage # "none" => o < s.nextOperation
    /\ W[o].stage = "preparing" => W[o].prep.operation = o
    /\ W[o].stage = "expired" => LateReply
    /\ W[o].ticket # None => HasTicket(W[o])
    /\ HasTicket(W[o]) =>
         /\ W[o].ticket.request \in 0 .. s.nextRequest - 1
         /\ W[o].ticket.account = W[o].account
         /\ Live(s, W[o].ticket) => W[o].source = s.source
         /\ \A x \in Operation :
              (HasTicket(W[x]) /\ W[x].ticket.request = W[o].ticket.request)
                => x = o

\* A worker has either not yet asked or waits for the answer to what it asked.
AsksNumbered(p, W, E, s) ==
  \A i \in DOMAIN E : Asks(E[i], p) =>
    /\ E[i].prep.operation \in Operation
    /\ E[i].prep.operation < s.nextOperation
    /\ \/ W[E[i].prep.operation].stage = "none"
       \/ /\ W[E[i].prep.operation].stage \in {"waiting", "expired"}
          /\ E[i].kind = "Prepared"
          /\ W[E[i].prep.operation].account = E[i].account
          /\ W[E[i].prep.operation].source = E[i].source
    /\ \A j \in DOMAIN E :
         (Asks(E[j], p) /\ E[j].prep.operation = E[i].prep.operation)
           => j = i

AnswersNumbered(p, W, E, s) ==
  \A i \in DOMAIN E : Answers(E[i], p) =>
    /\ E[i].ticket.request \in 0 .. s.nextRequest - 1
    /\ E[i].result.kind = "Success" =>
         /\ E[i].result.snapshot.account = E[i].ticket.account
         /\ Live(s, E[i].ticket) => E[i].result.snapshot.source = s.source
    /\ \A j \in DOMAIN E :
         (Answers(E[j], p) /\ E[j].ticket.request = E[i].ticket.request)
           => j = i
    /\ \A o \in Operation :
         HasTicket(W[o]) => W[o].ticket.request # E[i].ticket.request

ReplyNumbered(p, W, E, r, s) ==
  r # None /\ r.provider = p =>
    /\ r.operation \in Operation
    /\ r.operation < s.nextOperation
    /\ W[r.operation].stage \in {"none", "waiting", "expired"}
    /\ \A i \in DOMAIN E :
         Asks(E[i], p) => E[i].prep.operation # r.operation
    /\ r.ticket # None =>
         /\ r.ticket.request \in 0 .. s.nextRequest - 1
         /\ \A o \in Operation :
              HasTicket(W[o]) => W[o].ticket.request # r.ticket.request
         /\ \A i \in DOMAIN E :
              Answers(E[i], p) => E[i].ticket.request # r.ticket.request
         /\ W[r.operation].stage = "waiting" =>
              /\ r.ticket.account = W[r.operation].account
              /\ Live(s, r.ticket) => W[r.operation].source = s.source

Numbered(p, W, E, r, s) ==
  /\ s.nextOperation > 0
  /\ WorkersNumbered(W, s)
  /\ AsksNumbered(p, W, E, s)
  /\ AnswersNumbered(p, W, E, s)
  /\ ReplyNumbered(p, W, E, r, s)

-----------------------------------------------------------------------------
(* What the steps do to the numbers of one provider.                       *)

\* A step of the slot that starts nothing.
LEMMA QuietNumbered ==
  ASSUME NEW p, NEW W, NEW E, NEW r, NEW s, NEW t,
         Numbered(p, W, E, r, s), Quiet(s, t)
  PROVE  Numbered(p, W, E, r, t)
<1>1. /\ t.nextRequest = s.nextRequest /\ t.nextOperation = s.nextOperation
      /\ \A k : Live(t, k) => Live(s, k) /\ t.source = s.source
  BY QuietLive DEF Quiet
<1>2. WorkersNumbered(W, t)
  BY <1>1 DEF Numbered, WorkersNumbered
<1>3. AsksNumbered(p, W, E, t)
  BY <1>1 DEF Numbered, AsksNumbered
<1>4. AnswersNumbered(p, W, E, t)
  BY <1>1 DEF Numbered, AnswersNumbered
<1>5. ReplyNumbered(p, W, E, r, t)
  BY <1>1 DEF Numbered, ReplyNumbered
<1> QED BY <1>1, <1>2, <1>3, <1>4, <1>5 DEF Numbered

\* Whatever is taken off the front of the events was there before.
LEMMA TailEvents ==
  ASSUME NEW S, NEW E \in Seq(S), E # <<>>
  PROVE  /\ Tail(E) \in Seq(S)
         /\ 1 \in DOMAIN E /\ Head(E) = E[1]
         /\ \A i \in DOMAIN Tail(E) : i + 1 \in DOMAIN E /\ i + 1 # 1
                                      /\ Tail(E)[i] = E[i + 1]
         /\ \A i \in DOMAIN E \ {1} : i - 1 \in DOMAIN Tail(E)
                                      /\ Tail(E)[i - 1] = E[i]
<1>1. /\ Tail(E) \in Seq(S) /\ Len(Tail(E)) = Len(E) - 1
      /\ \A i \in 1 .. Len(Tail(E)) : Tail(E)[i] = E[i + 1]
  BY HeadTailProperties
<1>2. Len(E) \in Nat /\ Len(E) # 0 /\ DOMAIN E = 1 .. Len(E)
  BY EmptySeq, LenProperties
<1>3. DOMAIN Tail(E) = 1 .. Len(E) - 1
  BY <1>1, LenProperties
<1> QED BY <1>1, <1>2, <1>3

LEMMA TailNumbered ==
  ASSUME NEW p, NEW W, NEW S, NEW E \in Seq(S), NEW r, NEW s, E # <<>>,
         Numbered(p, W, E, r, s)
  PROVE  Numbered(p, W, Tail(E), r, s)
<1> DEFINE F == Tail(E)
<1>1. /\ \A i \in DOMAIN F : i + 1 \in DOMAIN E /\ F[i] = E[i + 1]
      /\ \A i \in DOMAIN F : i \in Int
  <2>1. DOMAIN F \subseteq Int
    BY TailEvents, LenProperties
  <2> QED BY <2>1, TailEvents
<1> HIDE DEF F
<1>2. AsksNumbered(p, W, F, s)
  BY <1>1 DEF Numbered, AsksNumbered
<1>3. AnswersNumbered(p, W, F, s)
  BY <1>1 DEF Numbered, AnswersNumbered
<1>4. ReplyNumbered(p, W, F, r, s)
  BY <1>1 DEF Numbered, ReplyNumbered
<1> QED BY <1>2, <1>3, <1>4 DEF Numbered, F

\* The reply has been dealt with.
LEMMA DropReplyNumbered ==
  ASSUME NEW p, NEW W, NEW E, NEW r, NEW s, Numbered(p, W, E, r, s)
  PROVE  Numbered(p, W, E, None, s)
BY DEF Numbered, ReplyNumbered

\* A reply of another provider.
LEMMA OtherReplyNumbered ==
  ASSUME NEW p, NEW W, NEW E, NEW r, NEW s, NEW q,
         Numbered(p, W, E, r, s), q.provider # p
  PROVE  Numbered(p, W, E, q, s)
BY DEF Numbered, ReplyNumbered

\* A worker that moves on without telling anybody.
LEMMA WorkerNumbered ==
  ASSUME NEW p, NEW W \in [Operation -> Worker], NEW E, NEW r, NEW s,
         NEW o \in Operation, NEW x,
         Numbered(p, W, E, r, s), x.ticket # None => HasTicket(x),
         \/ x.stage = "none"
         \/ /\ x.stage = "executing" /\ W[o].stage = "granted"
            /\ x.ticket = W[o].ticket
            /\ x.account = W[o].account /\ x.source = W[o].source
         \/ /\ x.stage = "expired" /\ W[o].stage = "waiting" /\ LateReply
            /\ x.account = W[o].account /\ x.source = W[o].source
  PROVE  Numbered(p, [W EXCEPT ![o] = x], E, r, s)
<1> DEFINE V == [W EXCEPT ![o] = x]
<1>1. V[o] = x /\ \A i \in Operation \ {o} : V[i] = W[i]
  OBVIOUS
<1> HIDE DEF V
<1>2. \A i \in Operation : HasTicket(V[i]) => /\ HasTicket(W[i])
                                             /\ V[i].ticket = W[i].ticket
                                             /\ V[i].account = W[i].account
                                             /\ V[i].source = W[i].source
  BY <1>1 DEF HasTicket
<1>3. WorkersNumbered(V, s)
  BY <1>1, <1>2 DEF Numbered, WorkersNumbered
<1>4. AsksNumbered(p, V, E, s)
  BY <1>1 DEF Numbered, AsksNumbered
<1>5. AnswersNumbered(p, V, E, s)
  BY <1>2 DEF Numbered, AnswersNumbered
<1>6. ReplyNumbered(p, V, E, r, s)
  BY <1>1, <1>2 DEF Numbered, ReplyNumbered
<1> QED BY <1>3, <1>4, <1>5, <1>6 DEF Numbered, V

\* What is added to the events.
LEMMA AppendEvents ==
  ASSUME NEW S, NEW E \in Seq(S), NEW e \in S
  PROVE  LET F == Append(E, e)
             n == Len(E) + 1
         IN  /\ n \in DOMAIN F /\ F[n] = e /\ n \notin DOMAIN E
             /\ \A i \in DOMAIN F : i = n \/ (i \in DOMAIN E /\ F[i] = E[i])
             /\ \A i \in DOMAIN E : i \in DOMAIN F /\ F[i] = E[i]
<1>1. /\ Append(E, e) \in Seq(S)
      /\ Len(Append(E, e)) = Len(E) + 1
      /\ \A i \in 1 .. Len(E) : Append(E, e)[i] = E[i]
      /\ Append(E, e)[Len(E) + 1] = e
  BY AppendProperties
<1>2. Len(E) \in Nat /\ DOMAIN E = 1 .. Len(E)
  BY LenProperties
<1>3. DOMAIN Append(E, e) = 1 .. Len(E) + 1
  BY <1>1, LenProperties
<1> QED BY <1>1, <1>2, <1>3

\* An event of another provider.
LEMMA OtherEventNumbered ==
  ASSUME NEW p, NEW W, NEW S, NEW E \in Seq(S), NEW r, NEW s, NEW e \in S,
         Numbered(p, W, E, r, s), e.provider # p
  PROVE  Numbered(p, W, Append(E, e), r, s)
<1> DEFINE F == Append(E, e)
<1>1. \A i \in DOMAIN F : F[i].provider = p => i \in DOMAIN E /\ F[i] = E[i]
  BY AppendEvents
<1> HIDE DEF F
<1>2. AsksNumbered(p, W, F, s)
  BY <1>1 DEF Numbered, AsksNumbered, Asks
<1>3. AnswersNumbered(p, W, F, s)
  BY <1>1 DEF Numbered, AnswersNumbered, Answers
<1>4. ReplyNumbered(p, W, F, r, s)
  BY <1>1 DEF Numbered, ReplyNumbered, Asks, Answers
<1> QED BY <1>2, <1>3, <1>4 DEF Numbered, F

\* A worker asks for a decision, and waits or has failed.
LEMMA AskNumbered ==
  ASSUME NEW p, NEW W \in [Operation -> Worker], NEW S, NEW E \in Seq(S),
         NEW r, NEW s, NEW e \in S, NEW o \in Operation, NEW x,
         Numbered(p, W, E, r, s),
         W[o].stage = "preparing", Asks(e, p), e.prep = W[o].prep,
         x.ticket = None,
         \/ x.stage = "none"
         \/ /\ x.stage = "waiting" /\ e.kind = "Prepared"
            /\ x.account = e.account /\ x.source = e.source
  PROVE  Numbered(p, [W EXCEPT ![o] = x], Append(E, e), r, s)
<1> DEFINE V == [W EXCEPT ![o] = x]
           F == Append(E, e)
           n == Len(E) + 1
<1>1. V[o] = x /\ \A i \in Operation \ {o} : V[i] = W[i]
  OBVIOUS
<1>2. /\ n \in DOMAIN F /\ F[n] = e /\ n \notin DOMAIN E
      /\ \A i \in DOMAIN F : i = n \/ (i \in DOMAIN E /\ F[i] = E[i])
  BY AppendEvents
<1> HIDE DEF V, F, n
<1>3. \A i \in Operation : HasTicket(V[i]) => HasTicket(W[i]) /\ V[i] = W[i]
  BY <1>1 DEF HasTicket
<1>4. /\ e.prep.operation = o /\ o < s.nextOperation
      /\ ~HasTicket(W[o])
  BY DEF Numbered, WorkersNumbered, HasTicket
<1>5. \A i \in DOMAIN E : Asks(E[i], p) => E[i].prep.operation # o
  BY DEF Numbered, AsksNumbered
<1>6. r # None /\ r.provider = p => r.operation # o
  BY DEF Numbered, ReplyNumbered
<1>7. WorkersNumbered(V, s)
  BY <1>1, <1>3, <1>4 DEF Numbered, WorkersNumbered
<1>8. AsksNumbered(p, V, F, s)
  BY <1>1, <1>2, <1>4, <1>5 DEF Numbered, AsksNumbered
<1>9. AnswersNumbered(p, V, F, s)
  BY <1>2, <1>3 DEF Numbered, AnswersNumbered, Asks, Answers
<1>10. ReplyNumbered(p, V, F, r, s)
  BY <1>1, <1>2, <1>3, <1>4, <1>6
     DEF Numbered, ReplyNumbered, Asks, Answers
<1> QED BY <1>7, <1>8, <1>9, <1>10 DEF Numbered, V, F

\* A worker's request is over.
LEMMA AnswerNumbered ==
  ASSUME NEW p, NEW W \in [Operation -> Worker], NEW S, NEW E \in Seq(S),
         NEW r, NEW s, NEW e \in S, NEW o \in Operation, NEW x,
         Numbered(p, W, E, r, s),
         W[o].stage = "executing", Answers(e, p), e.ticket = W[o].ticket,
         e.result.kind = "Success" =>
           /\ e.result.snapshot.account = W[o].account
           /\ e.result.snapshot.source = W[o].source,
         x.stage = "none", x.ticket = None
  PROVE  Numbered(p, [W EXCEPT ![o] = x], Append(E, e), r, s)
<1> DEFINE V == [W EXCEPT ![o] = x]
           F == Append(E, e)
           n == Len(E) + 1
<1>1. V[o] = x /\ \A i \in Operation \ {o} : V[i] = W[i]
  OBVIOUS
<1>2. /\ n \in DOMAIN F /\ F[n] = e /\ n \notin DOMAIN E
      /\ \A i \in DOMAIN F : i = n \/ (i \in DOMAIN E /\ F[i] = E[i])
  BY AppendEvents
<1>3. Numbered(p, V, E, r, s)
  BY WorkerNumbered
<1> HIDE DEF V, F, n
<1>4. \A i \in Operation : HasTicket(V[i]) => i # o /\ HasTicket(W[i])
                                             /\ V[i] = W[i]
  BY <1>1 DEF HasTicket
<1>5. /\ e.ticket.request \in 0 .. s.nextRequest - 1
      /\ HasTicket(W[o]) /\ e.ticket.account = W[o].account
      /\ Live(s, e.ticket) => W[o].source = s.source
      /\ \A i \in Operation \ {o} :
           HasTicket(W[i]) => W[i].ticket.request # e.ticket.request
      /\ \A i \in DOMAIN E :
           Answers(E[i], p) => E[i].ticket.request # e.ticket.request
      /\ r # None /\ r.provider = p /\ r.ticket # None =>
           r.ticket.request # e.ticket.request
  BY DEF Numbered, WorkersNumbered, AnswersNumbered, ReplyNumbered, HasTicket
<1>6. AsksNumbered(p, V, F, s)
  BY <1>2, <1>3 DEF Numbered, AsksNumbered, Asks, Answers
<1>7. AnswersNumbered(p, V, F, s)
  BY <1>2, <1>3, <1>4, <1>5 DEF Numbered, AnswersNumbered
<1>8. ReplyNumbered(p, V, F, r, s)
  BY <1>2, <1>3, <1>5 DEF Numbered, ReplyNumbered, Asks, Answers
<1> QED BY <1>3, <1>6, <1>7, <1>8 DEF Numbered, V, F

\* A new worker takes the next operation.
LEMMA ReserveNumbered ==
  ASSUME NEW p, NEW W \in [Operation -> Worker], NEW E, NEW r, NEW s, NEW t,
         NEW x, Numbered(p, W, E, r, s),
         s.nextOperation \in Operation, t.nextOperation = s.nextOperation + 1,
         t.nextRequest = s.nextRequest,
         \A k : Live(t, k) => Live(s, k) /\ t.source = s.source,
         x.stage = "preparing", x.prep.operation = s.nextOperation,
         x.ticket = None
  PROVE  Numbered(p, [W EXCEPT ![s.nextOperation] = x], E, r, t)
<1> DEFINE n == s.nextOperation
           V == [W EXCEPT ![n] = x]
<1>1. V[n] = x /\ \A i \in Operation \ {n} : V[i] = W[i]
  OBVIOUS
<1>2. /\ n \in Operation /\ t.nextOperation = n + 1 /\ n \in Int
      /\ \A i \in Operation : i \in Int
      /\ x.prep.operation = n
  BY DEF Operation
<1>3. \A i \in Operation : HasTicket(V[i]) => HasTicket(W[i]) /\ V[i] = W[i]
  BY <1>1 DEF HasTicket
<1>4. \A i \in DOMAIN E : Asks(E[i], p) => E[i].prep.operation # n
  BY <1>2 DEF Numbered, AsksNumbered
<1>5. r # None /\ r.provider = p => r.operation # n
  BY <1>2 DEF Numbered, ReplyNumbered
<1>6. \A i \in Operation : i < s.nextOperation => i < t.nextOperation
  BY <1>2
<1> HIDE DEF V
<1>7. WorkersNumbered(V, t)
  <2>1. \A i \in Operation : V[i].stage # "none" => i < t.nextOperation
    <3> HIDE DEF n
    <3> QED BY <1>1, <1>2, <1>6 DEF Numbered, WorkersNumbered, n
  <2> QED BY <1>1, <1>2, <1>3, <2>1 DEF Numbered, WorkersNumbered
<1>8. AsksNumbered(p, V, E, t)
  BY <1>1, <1>4, <1>6 DEF Numbered, AsksNumbered
<1>9. AnswersNumbered(p, V, E, t)
  BY <1>3 DEF Numbered, AnswersNumbered
<1>10. ReplyNumbered(p, V, E, r, t)
  BY <1>1, <1>3, <1>5, <1>6 DEF Numbered, ReplyNumbered
<1>11. t.nextOperation > 0
  BY <1>2 DEF Operation
<1> QED BY <1>7, <1>8, <1>9, <1>10, <1>11 DEF Numbered, V

\* The decision on a preparation: its event is taken, its reply is due, and
\* a ticket, if it carries one, has the slot's next request.
LEMMA DecideNumbered ==
  ASSUME NEW p, NEW W, NEW S, NEW E \in Seq(S), NEW s, NEW t, NEW q,
         Numbered(p, W, E, None, s), E # <<>>,
         s.nextRequest \in Nat,
         Head(E).kind = "Prepared", Head(E).provider = p,
         q.provider = p, q.operation = Head(E).prep.operation,
         t.nextOperation = s.nextOperation,
         \/ q.ticket = None /\ Quiet(s, t)
         \/ /\ q.ticket = TicketOf(t) /\ t.request = s.nextRequest
            /\ t.nextRequest = s.nextRequest + 1
            /\ t.account = Head(E).account /\ t.source = Head(E).source
  PROVE  Numbered(p, W, Tail(E), q, t)
<1> DEFINE F == Tail(E)
           e == Head(E)
           o == e.prep.operation
<1>1. /\ 1 \in DOMAIN E /\ e = E[1]
      /\ \A i \in DOMAIN F : i + 1 \in DOMAIN E /\ i + 1 # 1
                              /\ F[i] = E[i + 1]
  BY TailEvents
<1>2. Numbered(p, W, F, None, s)
  BY TailNumbered
<1> HIDE DEF F, e
<1>3. /\ o \in Operation /\ o < s.nextOperation
      /\ W[o].stage \in {"none", "waiting", "expired"}
      /\ W[o].stage = "waiting" => /\ W[o].account = e.account
                                   /\ W[o].source = e.source
  BY <1>1 DEF Numbered, AsksNumbered, Asks, e
<1>4. \A i \in DOMAIN F : Asks(F[i], p) => F[i].prep.operation # o
  <2>1. Asks(E[1], p)
    BY <1>1 DEF Asks, e
  <2> QED BY <1>1, <2>1 DEF Numbered, AsksNumbered
<1>5. CASE q.ticket = None /\ Quiet(s, t)
  <2>1. Numbered(p, W, F, None, t)
    BY <1>2, <1>5, QuietNumbered
  <2>2. ReplyNumbered(p, W, F, q, t)
    BY <1>3, <1>4, <1>5 DEF ReplyNumbered, e
  <2> QED BY <2>1, <2>2 DEF Numbered, F
<1>6. CASE /\ q.ticket = TicketOf(t) /\ t.request = s.nextRequest
           /\ t.nextRequest = s.nextRequest + 1
           /\ t.account = e.account /\ t.source = e.source
  <2>1. /\ q.ticket.request = s.nextRequest /\ q.ticket.account = e.account
        /\ \A k : Live(t, k) => k.request = s.nextRequest
        /\ \A k \in 0 .. s.nextRequest - 1 : /\ k # s.nextRequest
                                            /\ k \in 0 .. t.nextRequest - 1
        /\ s.nextRequest \in 0 .. t.nextRequest - 1
    BY <1>6 DEF TicketOf, Live
  <2>2. WorkersNumbered(W, t)
    BY <1>2, <2>1 DEF Numbered, WorkersNumbered
  <2>3. AsksNumbered(p, W, F, t)
    BY <1>2 DEF Numbered, AsksNumbered
  <2>4. AnswersNumbered(p, W, F, t)
    BY <1>2, <2>1 DEF Numbered, AnswersNumbered
  <2>5. ReplyNumbered(p, W, F, q, t)
    <3>1. \A x \in Operation :
            HasTicket(W[x]) => W[x].ticket.request # q.ticket.request
      BY <1>2, <2>1 DEF Numbered, WorkersNumbered
    <3>2. \A i \in DOMAIN F :
            Answers(F[i], p) => F[i].ticket.request # q.ticket.request
      BY <1>2, <2>1 DEF Numbered, AnswersNumbered
    <3> QED BY <1>3, <1>4, <1>6, <2>1, <3>1, <3>2 DEF ReplyNumbered, e
  <2> QED BY <2>2, <2>3, <2>4, <2>5 DEF Numbered, F
<1> QED BY <1>5, <1>6 DEF e

\* The reply reaches the worker that waits for it.
LEMMA GrantNumbered ==
  ASSUME NEW p, NEW W \in [Operation -> Worker], NEW E, NEW r, NEW s, NEW x,
         Numbered(p, W, E, r, s), r # None, r.provider = p,
         W[r.operation].stage = "waiting",
         x.stage = IF r.ticket = None THEN "refused" ELSE "granted",
         x.ticket = r.ticket, x.account = W[r.operation].account,
         x.source = W[r.operation].source
  PROVE  /\ r.operation \in Operation
         /\ Numbered(p, [W EXCEPT ![r.operation] = x], E, None, s)
<1> DEFINE o == r.operation
           V == [W EXCEPT ![o] = x]
<1>1. o \in Operation /\ o < s.nextOperation
  BY DEF Numbered, ReplyNumbered
<1>2. V[o] = x /\ \A i \in Operation \ {o} : V[i] = W[i]
  BY <1>1
<1> HIDE DEF V
<1>3. /\ \A i \in DOMAIN E : Asks(E[i], p) => E[i].prep.operation # o
      /\ HasTicket(x) =>
           /\ x.ticket.request \in 0 .. s.nextRequest - 1
           /\ x.ticket.account = x.account
           /\ Live(s, x.ticket) => x.source = s.source
           /\ \A i \in Operation :
                HasTicket(W[i]) => W[i].ticket.request # x.ticket.request
           /\ \A i \in DOMAIN E :
                Answers(E[i], p) => E[i].ticket.request # x.ticket.request
  BY DEF Numbered, ReplyNumbered, HasTicket
<1>3a. /\ x.stage \notin {"none", "preparing", "expired"}
      /\ x.ticket # None => HasTicket(x)
  BY DEF HasTicket
<1>4. WorkersNumbered(V, s)
  BY <1>1, <1>2, <1>3, <1>3a DEF Numbered, WorkersNumbered
<1>5. AsksNumbered(p, V, E, s)
  BY <1>2, <1>3 DEF Numbered, AsksNumbered
<1>6. AnswersNumbered(p, V, E, s)
  BY <1>2, <1>3 DEF Numbered, AnswersNumbered
<1>7. ReplyNumbered(p, V, E, None, s)
  BY DEF ReplyNumbered
<1> QED BY <1>1, <1>4, <1>5, <1>6, <1>7 DEF Numbered, V

-----------------------------------------------------------------------------
(* The inductive invariant, and what every step does to one provider.      *)

\* Between two window messages nothing is left of a drain.
DrainOnly == ui.mode = "idle" => batch = <<>> /\ ui.reply = None

FlightInv ==
  /\ IndInv
  /\ DrainOnly
  /\ TrueProvenance
  /\ \A p \in Provider :
       Numbered(p, worker[p], Events, ui.reply, slot[p])

\* The slot is left alone or invalidated.
Rests(p) ==
  /\ Quiet(slot[p], slot'[p])
  /\ worker'[p] = worker[p]
  /\ Events' = Events
  /\ ui'.reply = ui.reply

\* A refresh reserves an operation and starts its worker.
Spawns(p) ==
  /\ \E u : /\ Quiet(slot[p], u)
            /\ u.nextOperation \in Operation
            /\ slot'[p].nextOperation = u.nextOperation + 1
            /\ slot'[p].nextRequest = u.nextRequest
            /\ slot'[p].pending \in Preparation
            /\ slot'[p].pending.operation = u.nextOperation
            /\ worker'[p] = [worker[p] EXCEPT ![u.nextOperation] =
                               [NoWorker EXCEPT !.stage = "preparing",
                                                !.prep = slot'[p].pending]]
  /\ slot'[p].phase # "Fetching"
  /\ slot'[p].pending.generation = slot'[p].generation
  /\ Events' = Events
  /\ ui'.reply = ui.reply

\* A worker moves on without an event.
MovesOn(p) ==
  /\ UNCHANGED <<slot, ui>>
  /\ Events' = Events
  /\ \E o \in Operation, x \in Worker :
       /\ worker'[p] = [worker[p] EXCEPT ![o] = x]
       /\ \/ /\ x = NoWorker
             /\ worker[p][o].stage \in {"waiting", "expired", "refused"}
          \/ /\ worker[p][o].stage = "granted"
             /\ x = [worker[p][o] EXCEPT !.stage = "executing"]
          \/ /\ worker[p][o].stage = "waiting"
             /\ LateReply
             /\ x = [worker[p][o] EXCEPT !.stage = "expired"]

\* A worker reports its preparation.
Reports(p) ==
  /\ UNCHANGED <<slot, ui>>
  /\ \E o \in Operation, x \in Worker, e \in AppEvent :
       /\ worker[p][o].stage = "preparing"
       /\ worker'[p] = [worker[p] EXCEPT ![o] = x]
       /\ Events' = Append(Events, e)
       /\ Asks(e, p)
       /\ e.prep = worker[p][o].prep
       /\ x.ticket = None
       /\ \/ x.stage = "none"
          \/ /\ x.stage = "waiting" /\ e.kind = "Prepared"
             /\ x.account = e.account /\ x.source = e.source

\* A worker reports the end of its request.
Finishes(p) ==
  /\ UNCHANGED <<slot, ui>>
  /\ \E o \in Operation, e \in AppEvent :
       /\ worker[p][o].stage = "executing"
       /\ worker'[p] = [worker[p] EXCEPT ![o] = NoWorker]
       /\ Events' = Append(Events, e)
       /\ Answers(e, p)
       /\ e.ticket = worker[p][o].ticket
       /\ e.result.kind = "Success" =>
            /\ e.result.snapshot.account = worker[p][o].account
            /\ e.result.snapshot.source = worker[p][o].source

\* The step is about another provider.
Elsewhere(p) ==
  /\ slot'[p] = slot[p]
  /\ worker'[p] = worker[p]
  /\ \/ /\ \E e \in AppEvent : /\ e.provider # p
                               /\ Events' = Append(Events, e)
        /\ ui'.reply = ui.reply
     \/ /\ Events # <<>>
        /\ Head(Events).provider # p
        /\ Events' = Tail(Events)
        /\ ui.reply = None
        /\ ui'.reply = None \/ ui'.reply.provider # p
     \/ /\ ui.reply.provider # p
        /\ ui'.reply = None
        /\ Events' = Events

\* The first event is taken and handled.
Takes(p, kind) ==
  /\ Events # <<>>
  /\ Head(Events) \in AppEvent
  /\ Head(Events).provider = p
  /\ Head(Events).kind = kind
  /\ Events' = Tail(Events)
  /\ worker'[p] = worker[p]
  /\ ui.reply = None

Decides(p) ==
  /\ Takes(p, "Prepared")
  /\ ui'.reply # None
  /\ ui'.reply.provider = p
  /\ ui'.reply.operation = Head(Events).prep.operation
  /\ slot'[p].nextOperation = slot[p].nextOperation
  /\ IF Matches(slot[p], Head(Events).prep)
     THEN slot'[p].pending = None /\ slot[p].phase # "Fetching"
     ELSE slot'[p] = slot[p]
  /\ \/ ui'.reply.ticket = None /\ Quiet(slot[p], slot'[p])
     \/ /\ ui'.reply.ticket = TicketOf(slot'[p])
        /\ ui'.reply.ticket \in Ticket
        /\ slot'[p].phase = "Fetching"
        /\ slot'[p].request = slot[p].nextRequest
        /\ slot'[p].nextRequest = slot[p].nextRequest + 1
        /\ slot'[p].account = Head(Events).account
        /\ slot'[p].source = Head(Events).source
        /\ slot'[p].pending = None

GivesUp(p) ==
  /\ Takes(p, "PreparationFailed")
  /\ ui'.reply = None
  /\ Quiet(slot[p], slot'[p])
  /\ IF Matches(slot[p], Head(Events).prep)
     THEN slot'[p].pending = None
     ELSE slot'[p] = slot[p]

Concludes(p) ==
  /\ Takes(p, "Completed")
  /\ ui'.reply = None
  /\ Quiet(slot[p], slot'[p])
  /\ IF Accepts(slot[p], Head(Events).ticket, Head(Events).result)
     THEN slot'[p].phase # "Fetching" /\ slot[p].pending = None
     ELSE slot'[p] = slot[p]

\* The reply reaches its worker, is lost, or finds nobody.
Replies(p) ==
  /\ ui.reply # None
  /\ ui.reply.provider = p
  /\ ui'.reply = None
  /\ Events' = Events
  /\ ui.reply.operation \in Operation
  /\ LET w == worker[p][ui.reply.operation]
     IN  \/ /\ w.stage = "waiting"
            /\ slot'[p] = slot[p]
            /\ worker'[p] = [worker[p] EXCEPT ![ui.reply.operation] =
                 [w EXCEPT !.stage = IF ui.reply.ticket = None
                                     THEN "refused" ELSE "granted",
                           !.ticket = ui.reply.ticket]]
         \/ /\ worker'[p] = worker[p]
            /\ slot'[p] = slot[p]
            /\ LateReply \/ ui.reply.ticket = None
         \/ /\ worker'[p] = worker[p]
            /\ Quiet(slot[p], slot'[p])
            /\ IF Live(slot[p], ui.reply.ticket)
               THEN slot'[p].phase # "Fetching" /\ slot[p].pending = None
               ELSE slot'[p] = slot[p]

\* The process starts again.
Restarts(p) ==
  /\ HoldsNothing(slot'[p])
  /\ slot'[p].nextOperation = 1
  /\ worker'[p] = NoWorkers[p]
  /\ Events' = <<>>
  /\ ui'.reply = None

FlightStep(p) ==
  \/ Rests(p)
  \/ Spawns(p)
  \/ MovesOn(p)
  \/ Reports(p)
  \/ Finishes(p)
  \/ Elsewhere(p)
  \/ Decides(p)
  \/ GivesUp(p)
  \/ Concludes(p)
  \/ Replies(p)
  \/ Restarts(p)

\* The types the lemmas about one provider rest on.
LEMMA FlightTypes ==
  ASSUME FlightInv, NEW p \in Provider
  PROVE  /\ worker[p] \in [Operation -> Worker]
         /\ \A o \in Operation : Equipped(worker[p][o])
         /\ Events \in Seq(AppEvent)
         /\ slot[p] \in Slot
         /\ Sound(slot[p])
         /\ slot[p].nextRequest \in Nat
         /\ Numbered(p, worker[p], Events, ui.reply, slot[p])
         /\ OwnSource(slot[p])
<1>1. /\ batch \in Seq(AppEvent) /\ queue \in Seq(AppEvent)
      /\ worker[p] \in [Operation -> Worker]
      /\ \A o \in Operation : Equipped(worker[p][o])
      /\ slot[p] \in Slot
  BY DEF FlightInv, IndInv, TypeOK
<1>2. Events \in Seq(AppEvent)
  BY <1>1, ConcatProperties DEF Events
<1>3. Sound(slot[p])
  BY SlotsAreSound DEF FlightInv
<1>4. slot[p].nextRequest \in Nat
  BY <1>1 DEF Slot
<1>5. OwnSource(slot[p])
  BY DEF FlightInv, TrueProvenance, OwnSource
<1> QED BY <1>1, <1>2, <1>3, <1>4, <1>5 DEF FlightInv

\* Every step keeps the numbers of every provider.
LEMMA FlightStepNumbered ==
  ASSUME FlightInv, NEW p \in Provider, FlightStep(p)
  PROVE  Numbered(p, worker'[p], Events', ui'.reply, slot'[p])
<1> DEFINE W == worker[p]
           E == Events
           r == ui.reply
           s == slot[p]
           t == slot'[p]
<1>1. /\ W \in [Operation -> Worker] /\ E \in Seq(AppEvent)
      /\ s.nextRequest \in Nat
      /\ Numbered(p, W, E, r, s)
  BY FlightTypes
<1>2. CASE Rests(p)
  BY <1>1, <1>2, QuietNumbered DEF Rests
<1>3. CASE Spawns(p)
  <2>1. PICK u : /\ Quiet(s, u)
                 /\ u.nextOperation \in Operation
                 /\ t.nextOperation = u.nextOperation + 1
                 /\ t.nextRequest = u.nextRequest
                 /\ t.pending.operation = u.nextOperation
                 /\ worker'[p] = [W EXCEPT ![u.nextOperation] =
                                    [NoWorker EXCEPT !.stage = "preparing",
                                                     !.prep = t.pending]]
    BY <1>3 DEF Spawns
  <2> DEFINE x == [NoWorker EXCEPT !.stage = "preparing", !.prep = t.pending]
  <2>2. /\ x.stage = "preparing" /\ x.prep = t.pending /\ x.ticket = None
    BY DEF NoWorker
  <2>3. Numbered(p, W, E, r, u)
    BY <1>1, <2>1, QuietNumbered
  <2>4. \A k : ~Live(t, k)
    BY <1>3 DEF Spawns, Live
  <2> HIDE DEF x, W, E, r, s, t
  <2>5. Numbered(p, [W EXCEPT ![u.nextOperation] = x], E, r, t)
    BY <1>1, <2>1, <2>2, <2>3, <2>4, ReserveNumbered
  <2> QED BY <1>3, <2>1, <2>5 DEF Spawns, x, W, E, r, s, t
<1>4. CASE MovesOn(p)
  <2>1. PICK o \in Operation, x \in Worker :
          /\ worker'[p] = [W EXCEPT ![o] = x]
          /\ \/ /\ x = NoWorker
                /\ W[o].stage \in {"waiting", "expired", "refused"}
             \/ /\ W[o].stage = "granted"
                /\ x = [W[o] EXCEPT !.stage = "executing"]
             \/ /\ W[o].stage = "waiting"
                /\ LateReply
                /\ x = [W[o] EXCEPT !.stage = "expired"]
    BY <1>4 DEF MovesOn
  <2>2. W[o].ticket # None => HasTicket(W[o])
    BY <1>1 DEF Numbered, WorkersNumbered
  <2>3. W[o] \in Worker
    BY <1>1
  <2>4. /\ x.ticket # None => HasTicket(x)
        /\ \/ x.stage = "none"
           \/ /\ x.stage = "executing" /\ W[o].stage = "granted"
              /\ x.ticket = W[o].ticket
              /\ x.account = W[o].account /\ x.source = W[o].source
           \/ /\ x.stage = "expired" /\ W[o].stage = "waiting" /\ LateReply
              /\ x.account = W[o].account /\ x.source = W[o].source
    <3> HIDE DEF W
    <3> QED BY <2>1, <2>2, <2>3 DEF NoWorker, HasTicket, Worker
  <2> HIDE DEF W, E, r, s
  <2>5. Numbered(p, [W EXCEPT ![o] = x], E, r, s)
    BY <1>1, <2>4, WorkerNumbered
  <2> QED BY <1>4, <2>1, <2>5 DEF MovesOn, W, E, r, s
<1>5. CASE Reports(p)
  <2>1. PICK o \in Operation, x \in Worker, e \in AppEvent :
          /\ W[o].stage = "preparing"
          /\ worker'[p] = [W EXCEPT ![o] = x]
          /\ Events' = Append(E, e)
          /\ Asks(e, p)
          /\ e.prep = W[o].prep
          /\ x.ticket = None
          /\ \/ x.stage = "none"
             \/ /\ x.stage = "waiting" /\ e.kind = "Prepared"
                /\ x.account = e.account /\ x.source = e.source
    BY <1>5 DEF Reports
  <2> HIDE DEF W, E, r, s
  <2>2. Numbered(p, [W EXCEPT ![o] = x], Append(E, e), r, s)
    BY <1>1, <2>1, AskNumbered
  <2> QED BY <1>5, <2>1, <2>2 DEF Reports, r, s
<1>6. CASE Finishes(p)
  <2>1. PICK o \in Operation, e \in AppEvent :
          /\ W[o].stage = "executing"
          /\ worker'[p] = [W EXCEPT ![o] = NoWorker]
          /\ Events' = Append(E, e)
          /\ Answers(e, p)
          /\ e.ticket = W[o].ticket
          /\ e.result.kind = "Success" =>
               /\ e.result.snapshot.account = W[o].account
               /\ e.result.snapshot.source = W[o].source
    BY <1>6 DEF Finishes
  <2>2. NoWorker.stage = "none" /\ NoWorker.ticket = None
    BY DEF NoWorker
  <2> HIDE DEF W, E, r, s
  <2>3. Numbered(p, [W EXCEPT ![o] = NoWorker], Append(E, e), r, s)
    BY <1>1, <2>1, <2>2, AnswerNumbered
  <2> QED BY <1>6, <2>1, <2>3 DEF Finishes, r, s
<1>7. CASE Elsewhere(p)
  <2>1. Numbered(p, W, E, None, s)
    BY <1>1, DropReplyNumbered
  <2>2. CASE /\ \E e \in AppEvent : /\ e.provider # p
                                    /\ Events' = Append(Events, e)
             /\ ui'.reply = ui.reply
    BY <1>1, <1>7, <2>2, OtherEventNumbered DEF Elsewhere
  <2>3. CASE /\ Events # <<>>
             /\ Events' = Tail(Events)
             /\ ui'.reply = None \/ ui'.reply.provider # p
    <3>1. Numbered(p, W, Tail(E), None, s)
      BY <1>1, <2>1, <2>3, TailNumbered
    <3>2. Numbered(p, W, Tail(E), ui'.reply, s)
      BY <2>3, <3>1, OtherReplyNumbered
    <3> QED BY <1>7, <2>3, <3>2 DEF Elsewhere
  <2>4. CASE ui'.reply = None /\ Events' = Events
    BY <1>7, <2>1, <2>4 DEF Elsewhere
  <2> QED BY <1>7, <2>2, <2>3, <2>4 DEF Elsewhere
<1>8. CASE Decides(p)
  <2>1. Numbered(p, W, E, None, s)
    BY <1>1, <1>8 DEF Decides, Takes
  <2>2. Numbered(p, W, Tail(E), ui'.reply, t)
    BY <1>1, <1>8, <2>1, DecideNumbered DEF Decides, Takes
  <2> QED BY <1>8, <2>2 DEF Decides, Takes
<1>9. CASE GivesUp(p) \/ Concludes(p)
  <2>1. /\ E # <<>> /\ Events' = Tail(E) /\ worker'[p] = W /\ Quiet(s, t)
        /\ r = None /\ ui'.reply = None
    BY <1>9 DEF GivesUp, Concludes, Takes
  <2>2. Numbered(p, W, Tail(E), r, s)
    BY <1>1, <2>1, TailNumbered
  <2>3. Numbered(p, W, Tail(E), r, t)
    BY <2>1, <2>2, QuietNumbered
  <2> QED BY <2>1, <2>3
<1>10. CASE Replies(p)
  <2> DEFINE o == ui.reply.operation
             x == [W[o] EXCEPT
                     !.stage = IF r.ticket = None THEN "refused" ELSE "granted",
                     !.ticket = r.ticket]
  <2>1. /\ r # None /\ r.provider = p /\ ui'.reply = None /\ Events' = E
        /\ o \in Operation
    BY <1>10 DEF Replies
  <2>2. CASE W[o].stage = "waiting" /\ t = s /\ worker'[p] = [W EXCEPT ![o] = x]
    <3>1. W[o] \in Worker
      BY <1>1, <2>1
    <3>2. /\ x.stage = IF r.ticket = None THEN "refused" ELSE "granted"
          /\ x.ticket = r.ticket /\ x.account = W[o].account
          /\ x.source = W[o].source
      BY <3>1 DEF Worker
    <3> HIDE DEF x
    <3>3. Numbered(p, [W EXCEPT ![o] = x], E, None, s)
      BY <1>1, <2>1, <2>2, <3>2, GrantNumbered
    <3> QED BY <2>1, <2>2, <3>3
  <2>3. CASE worker'[p] = W /\ Quiet(s, t)
    <3>1. Numbered(p, W, E, None, s)
      BY <1>1, DropReplyNumbered
    <3> QED BY <2>1, <2>3, <3>1, QuietNumbered
  <2>4. Quiet(s, s)
    BY DEF Quiet
  <2> QED BY <1>10, <2>2, <2>3, <2>4 DEF Replies
<1>11. CASE Restarts(p)
  <2>1. /\ \A o \in Operation : worker'[p][o] = NoWorker
        /\ DOMAIN Events' = {}
        /\ t.nextOperation = 1
    BY <1>11 DEF Restarts, NoWorkers
  <2> HIDE DEF t
  <2> QED BY <1>11, <2>1 DEF Restarts, Numbered, WorkersNumbered,
             AsksNumbered, AnswersNumbered, ReplyNumbered, NoWorker, HasTicket,
             t
<1> QED BY <1>2, <1>3, <1>4, <1>5, <1>6, <1>7, <1>8, <1>9, <1>10, <1>11
        DEF FlightStep

-----------------------------------------------------------------------------
(* What publishing, taking and handling an event does to the events.       *)

LEMMA Posted ==
  ASSUME FlightInv, NEW e \in AppEvent, Post(e), UNCHANGED batch
  PROVE  Events' = Append(Events, e)
<1>1. batch \in Seq(AppEvent) /\ queue \in Seq(AppEvent)
  BY DEF FlightInv, IndInv, TypeOK
<1>2. queue' = queue \o <<e>> /\ <<e>> \in Seq(AppEvent)
  BY <1>1, AppendIsConcat DEF Post
<1>3. Events \in Seq(AppEvent)
  BY <1>1, ConcatProperties DEF Events
<1>4. Append(Events, e) = (batch \o queue) \o <<e>>
  BY <1>3, AppendIsConcat DEF Events
<1>5. Events' = batch \o (queue \o <<e>>)
  BY <1>2 DEF Events
<1> QED BY <1>1, <1>2, <1>4, <1>5, ConcatAssociative

LEMMA Taken ==
  ASSUME FlightInv, WakeUp \/ PollTimer
  PROVE  Events' = Events
<1>1. batch = <<>> /\ batch' = queue /\ queue' = <<>>
  BY DEF FlightInv, DrainOnly, WakeUp, PollTimer
<1>2. queue \in Seq(AppEvent)
  BY DEF FlightInv, IndInv, TypeOK
<1> QED BY <1>1, <1>2, ConcatEmptySeq DEF Events

LEMMA Handled ==
  ASSUME FlightInv, NEW kind, Handling(kind), UNCHANGED queue
  PROVE  /\ Events # <<>>
         /\ Head(Events) = Head(batch)
         /\ Events' = Tail(Events)
         /\ ui.mode # "idle" /\ ui.reply = None
<1>1. /\ batch \in Seq(AppEvent) /\ queue \in Seq(AppEvent) /\ batch # <<>>
      /\ batch' = Tail(batch) /\ queue' = queue
      /\ ui.mode # "idle" /\ ui.reply = None
  BY DEF FlightInv, IndInv, TypeOK, Handling
<1>2. /\ Len(batch) \in Nat /\ Len(batch) # 0 /\ Len(queue) \in Nat
      /\ Tail(batch) \in Seq(AppEvent) /\ Len(Tail(batch)) = Len(batch) - 1
      /\ \A i \in 1 .. Len(batch) - 1 : Tail(batch)[i] = batch[i + 1]
      /\ Head(batch) = batch[1]
  BY <1>1, EmptySeq, LenProperties, HeadTailProperties
<1>3. /\ Events \in Seq(AppEvent)
      /\ Len(Events) = Len(batch) + Len(queue)
      /\ \A i \in 1 .. Len(batch) + Len(queue) :
           Events[i] = IF i <= Len(batch) THEN batch[i]
                       ELSE queue[i - Len(batch)]
  BY <1>1, ConcatProperties DEF Events
<1>4. Events # <<>>
  BY <1>2, <1>3, EmptySeq
<1>5. Head(Events) = Events[1] /\ Events[1] = batch[1]
  BY <1>2, <1>3, <1>4
<1>6. /\ Tail(Events) \in Seq(AppEvent) /\ Len(Tail(Events)) = Len(Events) - 1
      /\ \A i \in 1 .. Len(Events) - 1 : Tail(Events)[i] = Events[i + 1]
  BY <1>3, <1>4, HeadTailProperties
<1> DEFINE t == Tail(batch)
           F == t \o queue
<1>7. Events' = F
  BY <1>1 DEF Events
<1> HIDE DEF t
<1>8. t \in Seq(AppEvent) /\ Len(t) = Len(batch) - 1
      /\ \A i \in 1 .. Len(batch) - 1 : t[i] = batch[i + 1]
  BY <1>2 DEF t
<1>9. /\ F \in Seq(AppEvent)
      /\ Len(F) = Len(t) + Len(queue)
      /\ \A i \in 1 .. Len(t) + Len(queue) :
           F[i] = IF i <= Len(t) THEN t[i] ELSE queue[i - Len(t)]
  BY <1>1, <1>8, ConcatProperties
<1> HIDE DEF F
<1>10. Len(F) = Len(Tail(Events))
  BY <1>2, <1>3, <1>6, <1>8, <1>9
<1>11. ASSUME NEW i \in 1 .. Len(F)
       PROVE  F[i] = Tail(Events)[i]
  <2>1. i \in 1 .. Len(Events) - 1 /\ i \in Int
        /\ i + 1 \in 1 .. Len(batch) + Len(queue)
    BY <1>2, <1>3, <1>8, <1>9
  <2>2. Tail(Events)[i] = Events[i + 1]
    BY <1>6, <2>1
  <2>3. CASE i <= Len(batch) - 1
    BY <1>2, <1>3, <1>8, <1>9, <2>1, <2>2, <2>3
  <2>4. CASE ~(i <= Len(batch) - 1)
    <3>1. F[i] = queue[i - (Len(batch) - 1)]
      BY <1>2, <1>8, <1>9, <2>1, <2>4
    <3>2. Events[i + 1] = queue[i + 1 - Len(batch)]
      BY <1>2, <1>3, <2>1, <2>4
    <3>3. i - (Len(batch) - 1) = i + 1 - Len(batch)
      BY <1>2, <2>1
    <3> QED BY <2>2, <3>1, <3>2, <3>3
  <2> QED BY <2>3, <2>4
<1>12. F = Tail(Events)
  BY <1>6, <1>9, <1>10, <1>11, SeqEqual
<1> QED BY <1>1, <1>2, <1>4, <1>5, <1>7, <1>12

-----------------------------------------------------------------------------
(* Every step of the pipeline is one of those steps for every provider.    *)

Progress ==
  /\ DrainOnly'
  /\ TrueProvenance'
  /\ \A p \in Provider : FlightStep(p)

LEMMA QuietTwice ==
  ASSUME NEW a, NEW b, NEW c, Quiet(a, b), Quiet(b, c)
  PROVE  Quiet(a, c)
BY DEF Quiet

LEMMA QuietSelf ==
  ASSUME NEW s
  PROVE  Quiet(s, s)
BY DEF Quiet

\* save_cache never writes an entry that reading it back would refuse.
LEMMA SavedIsValid ==
  ASSUME FlightInv, NEW p \in Provider, NEW entry, SaveCache(p, entry)
  PROVE  \A q \in Provider : ValidEntry(cache'[q])
<1>1. /\ \A q \in Provider : ValidEntry(cache[q])
      /\ cache \in [Provider -> CacheEntry \cup {None}]
  BY DEF FlightInv, TrueProvenance, IndInv, TypeOK
<1> QED BY <1>1 DEF SaveCache

LEMMA KeptIsValid ==
  ASSUME FlightInv, UNCHANGED cache
  PROVE  \A q \in Provider : ValidEntry(cache'[q])
BY DEF FlightInv, TrueProvenance

LEMMA Provenances ==
  ASSUME \A q \in Provider : OwnSource(slot'[q]),
         \A q \in Provider : ValidEntry(cache'[q])
  PROVE  TrueProvenance'
BY DEF TrueProvenance, OwnSource

\* Asking for fresh values, on slots that may just have been invalidated.
LEMMA RefreshProgress ==
  ASSUME FlightInv, NEW slots \in [Provider -> Slot],
         \A p \in Provider : /\ Sound(slots[p]) /\ OwnSource(slots[p])
                             /\ Quiet(slot[p], slots[p]),
         NEW S \in SUBSET Provider, NEW trigger \in Trigger,
         Refresh(slots, S, trigger),
         UNCHANGED <<queue, batch>>, ui'.reply = ui.reply
  PROVE  \A p \in Provider : FlightStep(p) /\ OwnSource(slot'[p])
<1> SUFFICES ASSUME NEW p \in Provider
             PROVE  FlightStep(p) /\ OwnSource(slot'[p])
  OBVIOUS
<1> DEFINE u == Enable(slots[p], TRUE)
           spawns == p \in S /\ CanReserve(u, trigger, now)
                     /\ slots[p].nextOperation <= MaxOperations
           prep == NextPreparation(u, trigger)
           started == [NoWorker EXCEPT !.stage = "preparing", !.prep = prep]
<1>1. /\ slot'[p] = IF spawns THEN Reserve(u, trigger)
                    ELSE IF p \in S THEN u ELSE slots[p]
      /\ worker'[p] = IF spawns
                      THEN [worker[p] EXCEPT ![slots[p].nextOperation] = started]
                      ELSE worker[p]
  BY DEF Refresh
<1>2. Events' = Events
  BY DEF Events
<1>3. now \in Nat
  BY DEF FlightInv, IndInv, TypeOK
<1>4. Quiet(slots[p], u) /\ OwnSource(u) /\ Sound(u)
  BY EnableQuiet, EnableSound
<1>5. Quiet(slot[p], slots[p]) /\ Quiet(slot[p], u)
  BY <1>4, QuietTwice
<1> HIDE DEF u
<1>6. CASE spawns
  <2> DEFINE t == Reserve(u, trigger)
  <2>1. prep \in Preparation /\ Sound(t)
    BY <1>3, <1>4, <1>6, ReserveSound
  <2>2. u \in Slot
    BY <1>4 DEF Sound
  <2>3. /\ t.pending = prep /\ t.nextOperation = u.nextOperation + 1
        /\ t.nextRequest = u.nextRequest
        /\ t.snapshot = u.snapshot /\ t.source = u.source
        /\ prep.operation = u.nextOperation
    BY <2>2 DEF Reserve, NextPreparation, Slot
  <2>4. u.nextOperation = slots[p].nextOperation
    BY <1>4 DEF Quiet
  <2>5. u.nextOperation \in Operation
    <3>1. slot[p].nextOperation > 0
      BY DEF FlightInv, Numbered
    <3>2. slot[p].nextOperation = u.nextOperation /\ u.nextOperation \in Nat
      BY <1>5, <2>2 DEF Quiet, Slot
    <3> QED BY <1>6, <2>4, <3>1, <3>2, PollPipelineAssumption DEF Operation
  <2>6. prep # None
    BY <2>1, ProviderSlotAssumption
  <2> HIDE DEF t, prep
  <2>7. t.phase # "Fetching" /\ prep.generation = t.generation
    BY <2>1, <2>3, <2>6 DEF Sound, OneActivity
  <2>8. slot'[p] = t
        /\ worker'[p] = [worker[p] EXCEPT ![u.nextOperation] = started]
    BY <1>1, <1>6, <2>4 DEF t
  <2>9. Spawns(p)
    BY <1>2, <1>5, <2>1, <2>3, <2>5, <2>7, <2>8 DEF Spawns
  <2>10. OwnSource(t)
    BY <1>4, <2>3 DEF OwnSource
  <2> QED BY <2>8, <2>9, <2>10 DEF FlightStep
<1>7. CASE ~spawns
  <2>1. /\ slot'[p] = u \/ slot'[p] = slots[p]
        /\ worker'[p] = worker[p]
    BY <1>1, <1>7
  <2>2. Rests(p) /\ OwnSource(slot'[p])
    BY <1>2, <1>4, <1>5, <2>1 DEF Rests
  <2> QED BY <2>2 DEF FlightStep
<1> QED BY <1>6, <1>7

\* Steps that leave the slots, the window state and the cache alone.
LEMMA QuietProgress ==
  ASSUME FlightInv, UNCHANGED <<slot, batch, ui, cache>>
  PROVE  /\ DrainOnly'
         /\ TrueProvenance'
BY DEF FlightInv, DrainOnly, TrueProvenance

LEMMA WorkerProgress ==
  ASSUME FlightInv, NEW p \in Provider, NEW o \in Operation, WorkerStep(p, o)
  PROVE  Progress
<1> DEFINE w == worker[p][o]
<1>1. /\ worker \in [Provider -> [Operation -> Worker]]
      /\ w \in Worker /\ Equipped(w)
  BY DEF FlightInv, IndInv, TypeOK
<1>2. UNCHANGED <<slot, batch, ui, cache>>
  BY DEF WorkerStep, WorkerPrepares, WorkerFailsToPrepare, WorkerReceives,
         WorkerTimesOut, WorkerHangsUp, WorkerCompletes
<1>3. ASSUME NEW x, SetWorker(p, o, x)
      PROVE  /\ worker'[p] = [worker[p] EXCEPT ![o] = x]
             /\ \A q \in Provider \ {p} : worker'[q] = worker[q]
  BY <1>1, <1>3 DEF SetWorker
\* A worker that publishes an event.
<1>4. ASSUME NEW x, SetWorker(p, o, x), NEW e \in AppEvent, Post(e),
             e.provider = p, Reports(p) \/ Finishes(p)
      PROVE  \A q \in Provider : FlightStep(q)
  <2>1. Events' = Append(Events, e)
    BY <1>2, <1>4, Posted
  <2>2. \A q \in Provider \ {p} : Elsewhere(q)
    BY <1>2, <1>3, <1>4, <2>1 DEF Elsewhere
  <2> QED BY <1>4, <2>2 DEF FlightStep
\* A worker that moves on.
<1>5. ASSUME NEW x \in Worker, SetWorker(p, o, x), UNCHANGED queue,
             \/ /\ x = NoWorker
                /\ w.stage \in {"waiting", "expired", "refused"}
             \/ /\ w.stage = "granted"
                /\ x = [w EXCEPT !.stage = "executing"]
             \/ /\ w.stage = "waiting"
                /\ LateReply
                /\ x = [w EXCEPT !.stage = "expired"]
      PROVE  \A q \in Provider : FlightStep(q)
  <2>1. Events' = Events
    BY <1>2, <1>5 DEF Events
  <2>2. MovesOn(p)
    BY <1>2, <1>3, <1>5, <2>1 DEF MovesOn
  <2>3. \A q \in Provider \ {p} : Rests(q)
    BY <1>2, <1>3, <1>5, <2>1, QuietSelf DEF Rests
  <2> QED BY <2>2, <2>3 DEF FlightStep
<1>6. CASE WorkerPrepares(p, o)
  <2>1. PICK account \in Account, source \in Sources[p] :
          /\ Post([kind |-> "Prepared", provider |-> p, prep |-> w.prep,
                   account |-> account, source |-> source])
          /\ SetWorker(p, o, [NoWorker EXCEPT !.stage = "waiting",
                                              !.account = account,
                                              !.source = source])
    BY <1>6 DEF WorkerPrepares
  <2> DEFINE e == [kind |-> "Prepared", provider |-> p, prep |-> w.prep,
                   account |-> account, source |-> source]
             x == [NoWorker EXCEPT !.stage = "waiting", !.account = account,
                                   !.source = source]
  <2>2. source \in Source /\ w.prep \in Preparation /\ w.stage = "preparing"
    BY <1>1, <1>6, PollPipelineAssumption DEF WorkerPrepares, Equipped
  <2>3. e \in AppEvent
    BY <2>2 DEF AppEvent, PreparedEvent
  <2>4. /\ e.kind = "Prepared" /\ e.provider = p /\ e.prep = w.prep
        /\ x.ticket = None /\ x.stage = "waiting"
        /\ x.account = e.account /\ x.source = e.source
        /\ x \in Worker
    BY <2>2 DEF NoWorker, Worker, Stage
  <2> HIDE DEF e, x
  <2>5. Post(e) /\ SetWorker(p, o, x)
    BY <2>1 DEF e, x
  <2>6. Reports(p)
    BY <1>2, <1>3, <2>2, <2>3, <2>4, <2>5, Posted DEF Reports, Asks
  <2> QED BY <1>4, <2>3, <2>4, <2>5, <2>6, <1>2, QuietProgress DEF Progress
<1>7. CASE WorkerFailsToPrepare(p, o)
  <2>1. PICK invalidates \in BOOLEAN :
          Post([kind |-> "PreparationFailed", provider |-> p,
                prep |-> w.prep, invalidates |-> invalidates])
    BY <1>7 DEF WorkerFailsToPrepare
  <2> DEFINE e == [kind |-> "PreparationFailed", provider |-> p,
                   prep |-> w.prep, invalidates |-> invalidates]
  <2>2. w.prep \in Preparation /\ w.stage = "preparing"
    BY <1>1, <1>7 DEF WorkerFailsToPrepare, Equipped
  <2>3. e \in AppEvent
    BY <2>2 DEF AppEvent, PreparationFailedEvent
  <2>4. /\ e.kind = "PreparationFailed" /\ e.provider = p /\ e.prep = w.prep
        /\ NoWorker.ticket = None /\ NoWorker.stage = "none"
    BY DEF NoWorker
  <2> HIDE DEF e
  <2>5. Post(e) /\ SetWorker(p, o, NoWorker)
    BY <1>7, <2>1 DEF e, WorkerFailsToPrepare
  <2>6. Reports(p)
    BY <1>2, <1>3, <2>2, <2>3, <2>4, <2>5, NoWorkersType, Posted
       DEF Reports, Asks
  <2> QED BY <1>4, <2>3, <2>4, <2>5, <2>6, <1>2, QuietProgress DEF Progress
<1>8. CASE WorkerCompletes(p, o)
  <2>1. PICK result \in Outcomes(w) :
          Post([kind |-> "Completed", provider |-> p, ticket |-> w.ticket,
                result |-> result])
    BY <1>8 DEF WorkerCompletes
  <2> DEFINE e == [kind |-> "Completed", provider |-> p, ticket |-> w.ticket,
                   result |-> result]
  <2>2. /\ w.stage = "executing" /\ w.ticket \in Ticket
        /\ w.account \in Account /\ w.source \in Source
    BY <1>1, <1>8 DEF WorkerCompletes, Equipped
  <2>3. /\ result \in Result
        /\ result.kind = "Success" => /\ result.snapshot.account = w.account
                                      /\ result.snapshot.source = w.source
    <3> DEFINE own == [account |-> w.account, source |-> w.source]
    <3>1. /\ own \in Snapshot
          /\ own.account = w.account /\ own.source = w.source
      BY <2>2 DEF Snapshot
    <3> HIDE DEF own
    <3>2. \/ result \in [kind: {"Success"}, retryAfter: {None}, snapshot: {own}]
          \/ result \in [kind: {"RateLimited"}, retryAfter: RetryAfter,
                         snapshot: {None}]
          \/ result \in [kind: {"Authentication", "Transient"},
                         retryAfter: {None}, snapshot: {None}]
      BY <2>1 DEF Outcomes, own
    <3>3. RetryAfter \subseteq Nat \cup {None}
      BY PollPipelineAssumption
    <3> QED BY <3>1, <3>2, <3>3 DEF Result, Failure
  <2>4. e \in AppEvent
    BY <2>2, <2>3 DEF AppEvent, CompletedEvent
  <2>5. /\ e.kind = "Completed" /\ e.provider = p /\ e.ticket = w.ticket
        /\ e.result = result
    OBVIOUS
  <2> HIDE DEF e
  <2>6. Post(e) /\ SetWorker(p, o, NoWorker)
    BY <1>8, <2>1 DEF e, WorkerCompletes
  <2>7. Finishes(p)
    BY <1>2, <1>3, <2>2, <2>3, <2>4, <2>5, <2>6, Posted
       DEF Finishes, Answers
  <2> QED BY <1>4, <2>4, <2>5, <2>6, <2>7, <1>2, QuietProgress DEF Progress
<1>9. CASE WorkerReceives(p, o) \/ WorkerTimesOut(p, o) \/ WorkerHangsUp(p, o)
  <2>1. UNCHANGED queue
    BY <1>9 DEF WorkerReceives, WorkerTimesOut, WorkerHangsUp
  <2>2. \/ /\ SetWorker(p, o, NoWorker)
           /\ w.stage \in {"waiting", "expired", "refused"}
        \/ /\ w.stage = "granted"
           /\ SetWorker(p, o, [w EXCEPT !.stage = "executing"])
        \/ /\ w.stage = "waiting"
           /\ LateReply
           /\ SetWorker(p, o, [w EXCEPT !.stage = "expired"])
    BY <1>9 DEF WorkerReceives, WorkerTimesOut, WorkerHangsUp
  <2>3. /\ NoWorker \in Worker
        /\ [w EXCEPT !.stage = "executing"] \in Worker
        /\ [w EXCEPT !.stage = "expired"] \in Worker
    <3> HIDE DEF w
    <3> QED BY <1>1, NoWorkersType DEF Worker, Stage
  <2>4. \A q \in Provider : FlightStep(q)
    BY <1>5, <2>1, <2>2, <2>3
  <2> QED BY <1>2, <2>4, QuietProgress DEF Progress
<1> QED BY <1>6, <1>7, <1>8, <1>9 DEF WorkerStep

LEMMA TakeEventsProgress ==
  ASSUME FlightInv, WakeUp \/ PollTimer
  PROVE  Progress
<1>1. /\ UNCHANGED <<slot, worker, cache>>
      /\ Events' = Events
  BY Taken DEF WakeUp, PollTimer
<1>2. ui'.reply = ui.reply /\ ui'.mode # "idle"
  BY DEF FlightInv, IndInv, TypeOK, Ui, WakeUp, PollTimer
<1>3. DrainOnly'
  BY <1>2 DEF DrainOnly
<1>4. TrueProvenance'
  BY <1>1 DEF FlightInv, TrueProvenance
<1>5. \A p \in Provider : Rests(p)
  BY <1>1, <1>2, QuietSelf DEF Rests
<1> QED BY <1>3, <1>4, <1>5 DEF Progress, FlightStep

LEMMA IdleProgress ==
  ASSUME FlightInv, TimePasses \/ UNCHANGED vars
  PROVE  Progress
<1>1. UNCHANGED <<slot, worker, queue, batch, ui, cache>>
  BY DEF TimePasses, vars
<1>2. \A p \in Provider : Rests(p)
  BY <1>1, QuietSelf DEF Rests, Events
<1> QED BY <1>1, <1>2, QuietProgress DEF Progress, FlightStep

LEMMA RestartProgress ==
  ASSUME FlightInv, Restart
  PROVE  Progress
<1>1. /\ slot' = NewSlots /\ worker' = NoWorkers /\ queue' = <<>>
      /\ batch' = <<>> /\ ui' = IdleUi /\ UNCHANGED cache
  BY DEF Restart
<1>2. ui'.reply = None
  BY <1>1 DEF IdleUi
<1>3. Events' = <<>>
  BY <1>1 DEF Events
<1>4. \A p \in Provider : /\ HoldsNothing(slot'[p])
                          /\ slot'[p].nextOperation = 1
                          /\ OwnSource(slot'[p])
  <2>1. \A p \in Provider : HoldsNothing(slot'[p])
    BY <1>1, FreshMemory
  <2>2. \A p \in Provider : slot'[p].nextOperation = 1
    BY <1>1 DEF NewSlots, NewSlot
  <2> QED BY <2>1, <2>2 DEF OwnSource, HoldsNothing
<1>5. \A p \in Provider : Restarts(p)
  BY <1>1, <1>2, <1>3, <1>4 DEF Restarts
<1>6. TrueProvenance'
  BY <1>1, <1>4, KeptIsValid, Provenances
<1>7. DrainOnly'
  BY <1>1, <1>2 DEF DrainOnly
<1> QED BY <1>5, <1>6, <1>7 DEF Progress, FlightStep

-----------------------------------------------------------------------------
(* The steps of the user and of the window procedure.                      *)

\* The slots before a step, and with one of them invalidated.
LEMMA PlainSlots ==
  ASSUME FlightInv
  PROVE  \A q \in Provider : /\ Sound(slot[q]) /\ OwnSource(slot[q])
                             /\ Quiet(slot[q], slot[q])
BY FlightTypes, QuietSelf

LEMMA InvalidatedSlots ==
  ASSUME FlightInv, NEW p \in Provider, NEW disabled \in BOOLEAN
  PROVE  LET slots == Invalidated(p, disabled)
         IN  /\ slots \in [Provider -> Slot]
             /\ \A q \in Provider : /\ Sound(slots[q]) /\ OwnSource(slots[q])
                                    /\ Quiet(slot[q], slots[q])
<1> DEFINE slots == Invalidated(p, disabled)
<1>1. /\ slots \in [Provider -> Slot]
      /\ \A q \in Provider : Sound(slots[q])
      /\ \A q \in Provider \ {p} : slots[q] = slot[q]
  BY InvalidatedSound DEF FlightInv
<1>2. slots[p] = Invalidate(slot[p], disabled)
  BY BeforeRefresh DEF FlightInv, Invalidated
<1> HIDE DEF slots
<1>3. Quiet(slot[p], slots[p]) /\ OwnSource(slots[p])
  BY <1>2, PlainSlots, InvalidateQuiet
<1>4. \A q \in Provider : OwnSource(slots[q]) /\ Quiet(slot[q], slots[q])
  BY <1>1, <1>3, PlainSlots
<1> QED BY <1>1, <1>4 DEF slots

LEMMA PlainRefreshProgress ==
  ASSUME FlightInv, NEW S \in SUBSET Enabled, NEW trigger \in Trigger,
         Refresh(slot, S, trigger), UNCHANGED <<queue, batch, cache>>,
         ui'.reply = ui.reply
  PROVE  /\ TrueProvenance'
         /\ \A p \in Provider : FlightStep(p)
<1>1. S \in SUBSET Provider /\ slot \in [Provider -> Slot]
  BY BeforeRefresh DEF FlightInv
<1>2. \A p \in Provider : FlightStep(p) /\ OwnSource(slot'[p])
  BY <1>1, PlainSlots, RefreshProgress
<1> QED BY <1>2, KeptIsValid, Provenances

LEMMA UserProgress ==
  ASSUME FlightInv, UserStep
  PROVE  Progress
<1>1. UNCHANGED <<queue, batch, ui>>
  BY DEF UserStep, RefreshAll, OpenFlyout, FinishLogin, SwitchOff, SwitchOn,
         SwitchSource
<1>2. DrainOnly'
  BY <1>1 DEF FlightInv, DrainOnly
<1>3. CASE RefreshAll \/ OpenFlyout
  <2>1. PICK S \in SUBSET Enabled, trigger \in Trigger :
          Refresh(slot, S, trigger)
    BY <1>3 DEF RefreshAll, OpenFlyout, RefreshForFlyout, Trigger
  <2>2. UNCHANGED cache
    BY <1>3 DEF RefreshAll, OpenFlyout
  <2> QED BY <1>1, <1>2, <2>1, <2>2, PlainRefreshProgress DEF Progress
<1>4. CASE \E p \in Provider : FinishLogin(p)
  <2>1. PICK p \in Provider : FinishLogin(p)
    BY <1>4
  <2> DEFINE slots == Invalidated(p, FALSE)
  <2>2. PICK S \in {{}, {p}} : Refresh(slots, S, "Automatic")
    BY <2>1 DEF FinishLogin
  <2>3. /\ slots \in [Provider -> Slot]
        /\ \A q \in Provider : /\ Sound(slots[q]) /\ OwnSource(slots[q])
                               /\ Quiet(slot[q], slots[q])
    BY InvalidatedSlots
  <2> HIDE DEF slots
  <2>4. S \in SUBSET Provider /\ "Automatic" \in Trigger
    BY DEF Trigger
  <2>5. \A q \in Provider : FlightStep(q) /\ OwnSource(slot'[q])
    BY <1>1, <2>2, <2>3, <2>4, RefreshProgress
  <2>6. \A q \in Provider : ValidEntry(cache'[q])
    BY <2>1, SavedIsValid DEF FinishLogin
  <2> QED BY <1>2, <2>5, <2>6, Provenances DEF Progress
<1>5. CASE \E p \in Provider : SwitchOn(p)
  <2>1. PICK p \in Provider : SwitchOn(p)
    BY <1>5
  <2>2. Refresh(slot, {p}, "Manual") /\ UNCHANGED cache
    BY <2>1 DEF SwitchOn
  <2>3. {p} \in SUBSET Provider /\ slot \in [Provider -> Slot]
        /\ "Manual" \in Trigger
    BY BeforeRefresh DEF FlightInv
  <2>4. \A q \in Provider : FlightStep(q) /\ OwnSource(slot'[q])
    BY <1>1, <2>2, <2>3, PlainSlots, RefreshProgress
  <2> QED BY <1>2, <2>2, <2>4, KeptIsValid, Provenances DEF Progress
<1>6. CASE \E p \in Provider :
             /\ slot' = Invalidated(p, TRUE)
             /\ UNCHANGED <<worker, cache>>
  <2>1. PICK p \in Provider : /\ slot' = Invalidated(p, TRUE)
                              /\ UNCHANGED <<worker, cache>>
    BY <1>6
  <2>2. \A q \in Provider : OwnSource(slot'[q]) /\ Quiet(slot[q], slot'[q])
    BY <2>1, InvalidatedSlots
  <2>3. \A q \in Provider : Rests(q)
    BY <1>1, <2>1, <2>2 DEF Rests, Events
  <2> QED BY <1>2, <2>1, <2>2, <2>3, KeptIsValid, Provenances
          DEF Progress, FlightStep
<1>7. CASE \E p \in Provider : SwitchOff(p)
  BY <1>6, <1>7 DEF SwitchOff
<1>8. CASE \E p \in Provider : SwitchSource(p)
  <2>1. PICK p \in Provider : SwitchSource(p)
    BY <1>8
  <2>2. CASE ~enabled[p]
    BY <1>6, <2>1, <2>2 DEF SwitchSource
  <2>3. CASE enabled[p]
    <3> DEFINE slots == Invalidated(p, FALSE)
    <3>1. Refresh(slots, {p}, "Manual") /\ SaveCache(p, None)
      BY <2>1, <2>3 DEF SwitchSource
    <3>2. /\ slots \in [Provider -> Slot]
          /\ \A q \in Provider : /\ Sound(slots[q]) /\ OwnSource(slots[q])
                                 /\ Quiet(slot[q], slots[q])
      BY InvalidatedSlots
    <3> HIDE DEF slots
    <3>3. {p} \in SUBSET Provider /\ "Manual" \in Trigger
      BY DEF Trigger
    <3>4. \A q \in Provider : FlightStep(q) /\ OwnSource(slot'[q])
      BY <1>1, <3>1, <3>2, <3>3, RefreshProgress
    <3>5. \A q \in Provider : ValidEntry(cache'[q])
      BY <3>1, SavedIsValid
    <3> QED BY <1>2, <3>4, <3>5, Provenances DEF Progress
  <2> QED BY <2>2, <2>3
<1> QED BY <1>3, <1>4, <1>5, <1>7, <1>8 DEF UserStep

-----------------------------------------------------------------------------
(* The steps of a drain.                                                   *)

LEMMA EndDrainProgress ==
  ASSUME FlightInv, EndDataReady \/ EndPoll
  PROVE  Progress
<1>1. /\ UNCHANGED <<queue, batch, cache>>
      /\ batch = <<>> /\ ui.reply = None /\ ui' = IdleUi
  BY DEF EndDataReady, EndPoll, DrainEnds
<1>2. ui'.reply = ui.reply
  BY <1>1 DEF IdleUi
<1>3. DrainOnly'
  BY <1>1, <1>2 DEF DrainOnly
<1>4. CASE UNCHANGED <<slot, worker>>
  <2>1. \A p \in Provider : Rests(p)
    BY <1>1, <1>2, <1>4, QuietSelf DEF Rests, Events
  <2>2. TrueProvenance'
    BY <1>1, <1>4 DEF FlightInv, TrueProvenance
  <2> QED BY <1>3, <2>1, <2>2 DEF Progress, FlightStep
<1>5. CASE \E S \in SUBSET Enabled : Refresh(slot, S, "Automatic")
  <2>1. "Automatic" \in Trigger
    BY DEF Trigger
  <2> QED BY <1>1, <1>2, <1>3, <1>5, <2>1, PlainRefreshProgress DEF Progress
<1>6. \/ UNCHANGED <<slot, worker>>
      \/ \E S \in SUBSET Enabled : Refresh(slot, S, "Automatic")
  BY DEF EndDataReady, EndPoll, RefreshForFlyout
<1> QED BY <1>4, <1>5, <1>6

\* Handling an event of one provider leaves the others alone.
LEMMA OtherProviders ==
  ASSUME FlightInv, NEW kind, Handling(kind), UNCHANGED <<worker, queue>>,
         NEW p \in Provider, Head(batch).provider = p,
         \A q \in Provider \ {p} : slot'[q] = slot[q],
         ui'.reply = None \/ ui'.reply.provider = p
  PROVE  /\ \A q \in Provider \ {p} : FlightStep(q)
         /\ Head(batch) \in AppEvent /\ Head(batch).kind = kind
         /\ Head(batch) = Head(Events)
         /\ Takes(p, kind)
<1>1. /\ Events # <<>>
      /\ Head(Events) = Head(batch)
      /\ Events' = Tail(Events)
      /\ ui.reply = None
  BY Handled
<1>2. Head(batch) \in AppEvent /\ Head(batch).kind = kind
  BY HandlingType DEF FlightInv, IndInv
<1>3. \A q \in Provider \ {p} : Elsewhere(q)
  BY <1>1 DEF Elsewhere
<1> QED BY <1>1, <1>2, <1>3 DEF FlightStep, Takes

\* A drain that has not ended.
LEMMA StillDraining ==
  ASSUME FlightInv, NEW kind, Handling(kind), ui'.mode = ui.mode
  PROVE  DrainOnly'
BY DEF Handling, DrainOnly

\* What the runtime cache restores has the source it is restored for.
LEMMA RestoredSource ==
  ASSUME FlightInv, NEW p \in Provider, NEW account \in Account,
         NEW source \in Source, NEW fresh \in BOOLEAN
  PROVE  LET r == RestoredFor(p, account, source, fresh)
         IN  /\ r.snapshot = None \/ r.snapshot.source = source
             /\ Plausible(r, now)
<1> DEFINE entry == cache[p]
           matches == /\ entry # None
                      /\ account \in Persistent
                      /\ entry.account = account
                      /\ entry.source = source
<1>1. ValidEntry(entry)
  BY DEF FlightInv, TrueProvenance
<1>2. matches /\ entry.snapshot # None => entry.snapshot.source = source
  BY <1>1 DEF ValidEntry
<1> QED BY <1>2 DEF RestoredFor, Plausible

LEMMA HandlePreparedProgress ==
  ASSUME FlightInv, HandlePrepared
  PROVE  Progress
<1> DEFINE e == Head(batch)
           p == e.provider
           restored(fresh) == RestoredFor(p, e.account, e.source, fresh)
           next(fresh) == IF Matches(slot[p], e.prep)
                          THEN Prepared(slot[p], e.prep, e.account, e.source,
                                        restored(fresh), now)
                          ELSE [slot |-> slot[p], ticket |-> None]
           switched(fresh) ==
             next(fresh).slot.generation # slot[p].generation
<1>1. IndInv /\ TypeOK /\ now \in Nat
  BY DEF FlightInv, IndInv, TypeOK
<1>2. e \in AppEvent /\ e.kind = "Prepared"
  BY <1>1, HandlingType DEF HandlePrepared
<1>3. /\ p \in Provider /\ e.prep \in Preparation /\ e.account \in Account
      /\ e.source \in Source
  BY <1>2 DEF AppEvent, PreparedEvent, PreparationFailedEvent, CompletedEvent
<1>4. PICK fresh \in BOOLEAN :
        /\ slot' = [slot EXCEPT ![p] = next(fresh).slot]
        /\ ui' = [ui EXCEPT
                    !.changed = @ \/ switched(fresh)
                                  \/ next(fresh).ticket # None,
                    !.reply = [provider |-> p, operation |-> e.prep.operation,
                               ticket |-> next(fresh).ticket]]
  BY DEF HandlePrepared
<1> DEFINE t == next(fresh).slot
           ticket == next(fresh).ticket
           reply == [provider |-> p, operation |-> e.prep.operation,
                     ticket |-> ticket]
<1>5. /\ restored(fresh) \in Restored
      /\ \/ restored(fresh).snapshot = None
         \/ restored(fresh).snapshot.source = e.source
      /\ Plausible(restored(fresh), now)
  BY <1>1, <1>3, RestoredForType, RestoredSource
<1>6. Sound(slot[p]) /\ OwnSource(slot[p])
  BY <1>3, PlainSlots
<1>7. /\ OwnSource(t) /\ t.nextOperation = slot[p].nextOperation
      /\ IF Matches(slot[p], e.prep)
         THEN t.pending = None /\ slot[p].phase # "Fetching"
         ELSE t = slot[p]
      /\ \/ ticket = None /\ Quiet(slot[p], t)
         \/ /\ ticket = TicketOf(t)
            /\ ticket \in Ticket
            /\ t.phase = "Fetching"
            /\ t.request = slot[p].nextRequest
            /\ t.nextRequest = slot[p].nextRequest + 1
            /\ t.account = e.account
            /\ t.source = e.source
            /\ t.pending = None
      /\ ticket \in Ticket \cup {None}
  <2> HIDE DEF e, p, restored
  <2>1. CASE Matches(slot[p], e.prep)
    <3>1. slot[p].pending # None /\ slot[p].phase # "Fetching"
      BY <1>6, <2>1 DEF Matches, Sound, OneActivity
    <3> DEFINE r == Prepared(slot[p], e.prep, e.account, e.source,
                             restored(fresh), now)
    <3>2. next(fresh) = r
      BY <2>1
    <3>3. /\ r.slot.account = e.account /\ r.slot.pending = None
          /\ r.ticket \in Ticket \cup {None}
      BY <1>1, <1>3, <1>5, <1>6, <3>1, PreparedSound
    <3>4. /\ r.slot.nextOperation = slot[p].nextOperation
          /\ r.slot.source = e.source
          /\ \/ /\ r.ticket = None
                /\ r.slot.phase # "Fetching"
                /\ r.slot.nextRequest = slot[p].nextRequest
             \/ /\ r.ticket = TicketOf(r.slot)
                /\ r.slot.phase = "Fetching"
                /\ r.slot.request = slot[p].nextRequest
                /\ r.slot.nextRequest = slot[p].nextRequest + 1
          /\ OwnSource(r.slot)
      BY <1>1, <1>3, <1>5, <1>6, <3>1, PreparedStarts
    <3> HIDE DEF r, next
    <3>5. r.ticket = None /\ r.slot.phase # "Fetching"
            /\ r.slot.nextRequest = slot[p].nextRequest
            => Quiet(slot[p], r.slot)
      BY <3>3, <3>4 DEF Quiet
    <3>6. r.ticket = TicketOf(r.slot) => r.ticket \in Ticket
      <4>1. TicketOf(r.slot) # None
        <5>1. Sound(r.slot)
          BY <1>1, <1>3, <1>5, <1>6, <3>1, PreparedSound DEF r
        <5>2. r.slot \in Slot /\ r.slot.account \in Account
          BY <1>3, <3>3, <5>1 DEF Sound
        <5>3. TicketOf(r.slot) \in Ticket
          BY <5>2 DEF TicketOf, Ticket, Slot
        <5> QED BY <5>3, ProviderSlotAssumption
      <4> QED BY <3>3, <4>1
    <3> QED BY <2>1, <3>1, <3>2, <3>3, <3>4, <3>5, <3>6
  <2>2. CASE ~Matches(slot[p], e.prep)
    BY <1>6, <2>2, QuietSelf
  <2> QED BY <2>1, <2>2
<1>8. slot'[p] = t /\ \A q \in Provider \ {p} : slot'[q] = slot[q]
  BY <1>1, <1>3, <1>4 DEF TypeOK
<1>9. ui'.reply = reply /\ ui'.mode = ui.mode
  BY <1>1, <1>4 DEF TypeOK, Ui
<1> HIDE DEF restored, next, switched, t, ticket
<1>10. /\ reply # None /\ reply.provider = p
       /\ reply.operation = e.prep.operation /\ reply.ticket = ticket
  <2>1. reply \in Reply
    BY <1>3, <1>7 DEF Reply, Preparation
  <2> QED BY <2>1, PollReplyAssumption
<1>11. Handling("Prepared") /\ UNCHANGED <<worker, queue, cache>>
  BY DEF HandlePrepared
<1>12. /\ \A q \in Provider \ {p} : FlightStep(q)
       /\ e = Head(Events) /\ Takes(p, "Prepared")
  BY <1>3, <1>8, <1>9, <1>10, <1>11, OtherProviders
<1> HIDE DEF e, p, reply
<1>13. Decides(p)
  BY <1>7, <1>8, <1>9, <1>10, <1>12 DEF Decides
<1>14. TrueProvenance'
  <2>1. \A q \in Provider : OwnSource(slot'[q])
    BY <1>7, <1>8, PlainSlots
  <2> QED BY <1>11, <2>1, KeptIsValid, Provenances
<1> QED BY <1>9, <1>11, <1>12, <1>13, <1>14, StillDraining
        DEF Progress, FlightStep

LEMMA HandlePreparationFailedProgress ==
  ASSUME FlightInv, HandlePreparationFailed
  PROVE  Progress
<1> DEFINE e == Head(batch)
           p == e.provider
           s == PreparationFailed(slot[p], e.invalidates, now)
<1>1. IndInv /\ TypeOK /\ now \in Nat
  BY DEF FlightInv, IndInv, TypeOK
<1>2. e \in AppEvent /\ e.kind = "PreparationFailed"
  BY <1>1, HandlingType DEF HandlePreparationFailed
<1>3. p \in Provider /\ e.prep \in Preparation /\ e.invalidates \in BOOLEAN
  BY <1>2 DEF AppEvent, PreparedEvent, PreparationFailedEvent, CompletedEvent
<1>4. /\ Handling("PreparationFailed") /\ UNCHANGED <<worker, queue>>
      /\ IF Matches(slot[p], e.prep)
         THEN slot' = [slot EXCEPT ![p] = s]
         ELSE UNCHANGED slot
      /\ ui' = [ui EXCEPT !.changed = TRUE] \/ UNCHANGED ui
      /\ SaveCache(p, None) \/ UNCHANGED cache
  BY DEF HandlePreparationFailed
<1> HIDE DEF e, p
<1>5. Sound(slot[p]) /\ OwnSource(slot[p]) /\ Quiet(slot[p], slot[p])
  BY <1>3, PlainSlots
<1>6. Matches(slot[p], e.prep) => /\ Quiet(slot[p], s) /\ OwnSource(s)
                                  /\ s.pending = None
  <2>1. Matches(slot[p], e.prep) => slot[p].pending # None
    BY DEF Matches
  <2> QED BY <1>1, <1>3, <1>5, <2>1, PreparationFailedQuiet,
             PreparationFailedSound
<1> HIDE DEF s
<1>7. /\ slot'[p] = IF Matches(slot[p], e.prep) THEN s ELSE slot[p]
      /\ \A q \in Provider \ {p} : slot'[q] = slot[q]
  BY <1>1, <1>3, <1>4 DEF TypeOK
<1>8. ui'.reply = ui.reply /\ ui'.mode = ui.mode /\ ui.reply = None
  BY <1>1, <1>4 DEF TypeOK, Ui, Handling
<1>9. /\ \A q \in Provider \ {p} : FlightStep(q)
      /\ e = Head(Events) /\ Takes(p, "PreparationFailed")
  BY <1>3, <1>4, <1>7, <1>8, OtherProviders DEF e, p
<1>10. GivesUp(p)
  BY <1>5, <1>6, <1>7, <1>8, <1>9 DEF GivesUp
<1>11. TrueProvenance'
  <2>1. \A q \in Provider : OwnSource(slot'[q])
    BY <1>5, <1>6, <1>7, PlainSlots
  <2> QED BY <1>3, <1>4, <2>1, KeptIsValid, SavedIsValid, Provenances
<1> QED BY <1>4, <1>8, <1>9, <1>10, <1>11, StillDraining
        DEF Progress, FlightStep

\* The completion of a request of this slot is about its account and source.
LEMMA AnswerIsOwn ==
  ASSUME FlightInv, NEW p \in Provider, Takes(p, "Completed"),
         Live(slot[p], Head(Events).ticket),
         Head(Events).result.kind = "Success"
  PROVE  /\ Head(Events).result.snapshot.account = slot[p].account
         /\ Head(Events).result.snapshot.source = slot[p].source
<1>1. 1 \in DOMAIN Events /\ Head(Events) = Events[1]
  BY FlightTypes, TailEvents DEF Takes
<1>2. Answers(Events[1], p)
  BY <1>1 DEF Takes, Answers
<1>3. /\ Events[1].result.snapshot.account = Events[1].ticket.account
      /\ Events[1].result.snapshot.source = slot[p].source
  BY <1>1, <1>2, FlightTypes DEF Numbered, AnswersNumbered
<1>4. Events[1].ticket.account = slot[p].account
  BY <1>1 DEF Live, TicketOf
<1> QED BY <1>1, <1>3, <1>4

LEMMA HandleCompletedProgress ==
  ASSUME FlightInv, HandleCompleted
  PROVE  Progress
<1> DEFINE e == Head(batch)
           p == e.provider
           s == Completed(slot[p], e.ticket, e.result, now)
<1>1. IndInv /\ TypeOK /\ now \in Nat
  BY DEF FlightInv, IndInv, TypeOK
<1>2. e \in AppEvent /\ e.kind = "Completed"
  BY <1>1, HandlingType DEF HandleCompleted
<1>3. p \in Provider /\ e.ticket \in Ticket /\ e.result \in Result
  BY <1>2 DEF AppEvent, PreparedEvent, PreparationFailedEvent, CompletedEvent
<1>4. /\ Handling("Completed") /\ UNCHANGED <<worker, queue>>
      /\ IF Accepts(slot[p], e.ticket, e.result)
         THEN slot' = [slot EXCEPT ![p] = s]
         ELSE UNCHANGED slot
      /\ ui' = [ui EXCEPT !.changed = TRUE] \/ UNCHANGED ui
      /\ (\E entry : SaveCache(p, entry)) \/ UNCHANGED cache
  BY DEF HandleCompleted
<1> HIDE DEF e, p, s
<1>5. Sound(slot[p]) /\ OwnSource(slot[p]) /\ Quiet(slot[p], slot[p])
  BY <1>3, PlainSlots
<1>6. /\ slot'[p] = IF Accepts(slot[p], e.ticket, e.result)
                    THEN s ELSE slot[p]
      /\ \A q \in Provider \ {p} : slot'[q] = slot[q]
  BY <1>1, <1>3, <1>4 DEF TypeOK
<1>7. ui'.reply = ui.reply /\ ui'.mode = ui.mode /\ ui.reply = None
  BY <1>1, <1>4 DEF TypeOK, Ui, Handling
<1>8. /\ \A q \in Provider \ {p} : FlightStep(q)
      /\ e = Head(Events) /\ Takes(p, "Completed")
  BY <1>3, <1>4, <1>6, <1>7, OtherProviders DEF e, p
<1>9. Accepts(slot[p], e.ticket, e.result) /\ e.result.kind = "Success"
        => e.result.snapshot.source = slot[p].source
  BY <1>3, <1>8, AnswerIsOwn DEF Accepts
<1>10. /\ Quiet(slot[p], s) /\ OwnSource(s)
       /\ Accepts(slot[p], e.ticket, e.result) =>
            s.phase # "Fetching" /\ slot[p].pending = None
  BY <1>1, <1>3, <1>5, <1>9, CompletedQuiet, CompletedSound DEF s
<1>11. Concludes(p)
  BY <1>5, <1>6, <1>7, <1>8, <1>10 DEF Concludes
<1>12. TrueProvenance'
  <2>1. \A q \in Provider : OwnSource(slot'[q])
    BY <1>5, <1>6, <1>10, PlainSlots
  <2> QED BY <1>3, <1>4, <2>1, KeptIsValid, SavedIsValid, Provenances
<1> QED BY <1>4, <1>7, <1>8, <1>11, <1>12, StillDraining
        DEF Progress, FlightStep

LEMMA SendReplyProgress ==
  ASSUME FlightInv, SendReply
  PROVE  Progress
<1> DEFINE p == ui.reply.provider
           o == ui.reply.operation
           t == ui.reply.ticket
           w == worker[p][o]
           granted == [w EXCEPT
                         !.stage = IF t = None THEN "refused" ELSE "granted",
                         !.ticket = t]
           s == Completed(slot[p], t, Abandoned, now)
<1>1. TypeOK /\ now \in Nat /\ ui.reply # None
  BY DEF FlightInv, IndInv, TypeOK, SendReply
<1>2. p \in Provider /\ t \in Ticket \cup {None}
  BY <1>1 DEF TypeOK, Ui, Reply
<1>3. UNCHANGED <<queue, batch, cache>> /\ Events' = Events
  BY DEF SendReply, Events
<1>4. ui'.reply = None /\ ui'.mode = ui.mode
  BY <1>1 DEF SendReply, TypeOK, Ui
<1>5. DrainOnly'
  BY <1>1, <1>3, <1>4 DEF FlightInv, DrainOnly
<1>6. o \in Operation
  BY <1>1, <1>2 DEF FlightInv, Numbered, ReplyNumbered
<1>7. /\ w.stage \in {"none", "waiting", "expired"}
      /\ w.stage = "expired" => LateReply
  BY <1>1, <1>2, <1>6
     DEF FlightInv, Numbered, ReplyNumbered, WorkersNumbered
<1>8. \/ UNCHANGED slot /\ w.stage = "waiting" /\ SetWorker(p, o, granted)
      \/ w.stage = "expired" /\ UNCHANGED <<slot, worker>>
      \/ t = None /\ UNCHANGED <<slot, worker>>
      \/ /\ t # None /\ slot' = [slot EXCEPT ![p] = s]
         /\ UNCHANGED worker
  BY DEF SendReply, Unanswered
<1>9. Sound(slot[p]) /\ OwnSource(slot[p])
  BY <1>2, PlainSlots
<1>10. Abandoned \in Result /\ Abandoned.kind # "Success"
  BY DEF Abandoned, Result, Failure
<1>11. ASSUME t # None
       PROVE  /\ Quiet(slot[p], s) /\ OwnSource(s)
              /\ IF Live(slot[p], t)
                 THEN s.phase # "Fetching" /\ slot[p].pending = None
                 ELSE s = slot[p]
  <2> HIDE DEF p, t
  <2>1. Accepts(slot[p], t, Abandoned) <=> Live(slot[p], t)
    BY <1>10 DEF Accepts
  <2> QED BY <1>1, <1>2, <1>9, <1>10, <1>11, <2>1, CompletedQuiet,
             CompletedSound
<1> HIDE DEF s, granted
<1>12. /\ \A q \in Provider \ {p} : slot'[q] = slot[q] /\ worker'[q] = worker[q]
       /\ \/ /\ w.stage = "waiting" /\ slot'[p] = slot[p]
             /\ worker'[p] = [worker[p] EXCEPT ![o] = granted]
          \/ /\ worker'[p] = worker[p] /\ slot'[p] = slot[p]
             /\ LateReply \/ t = None
          \/ /\ worker'[p] = worker[p] /\ t # None /\ slot'[p] = s
  BY <1>1, <1>2, <1>7, <1>8 DEF SetWorker, TypeOK
<1>13. Replies(p)
  BY <1>1, <1>3, <1>4, <1>6, <1>11, <1>12 DEF Replies, granted
<1>14. \A q \in Provider \ {p} : Elsewhere(q)
  BY <1>3, <1>4, <1>12 DEF Elsewhere
<1>15. TrueProvenance'
  <2>1. \A q \in Provider : OwnSource(slot'[q])
    BY <1>9, <1>11, <1>12, PlainSlots
  <2> QED BY <1>3, <2>1, KeptIsValid, Provenances
<1> QED BY <1>5, <1>13, <1>14, <1>15 DEF Progress, FlightStep

-----------------------------------------------------------------------------
(* The invariant is inductive.                                             *)

LEMMA NextProgress ==
  ASSUME FlightInv, [Next]_vars
  PROVE  Progress
<1>1. CASE DrainStep
  BY <1>1, HandlePreparedProgress, SendReplyProgress, HandleCompletedProgress,
     HandlePreparationFailedProgress, EndDrainProgress DEF DrainStep
<1> QED BY <1>1, WorkerProgress, TakeEventsProgress, UserProgress,
           IdleProgress, RestartProgress DEF Next

LEMMA FlightInit == Init => FlightInv
<1> SUFFICES ASSUME Init PROVE FlightInv
  OBVIOUS
<1>1. IndInv
  BY InitInd
<1>2. /\ slot = NewSlots /\ worker = NoWorkers /\ queue = <<>>
      /\ batch = <<>> /\ ui = IdleUi /\ \A p \in Provider : cache[p] = None
  BY DEF Init
<1>3. DrainOnly /\ ui.reply = None
  BY <1>2 DEF DrainOnly, IdleUi
<1>4. DOMAIN Events = {}
  BY <1>2 DEF Events
<1>5. \A p \in Provider : slot[p].snapshot = None /\ slot[p].nextOperation = 1
  BY <1>2 DEF NewSlots, NewSlot
<1>6. TrueProvenance
  BY <1>2, <1>5 DEF TrueProvenance, ValidEntry
<1>7. ASSUME NEW p \in Provider
      PROVE  Numbered(p, worker[p], Events, ui.reply, slot[p])
  <2>1. \A o \in Operation : worker[p][o] = NoWorker
    BY <1>2 DEF NoWorkers
  <2> QED BY <1>3, <1>4, <1>5, <2>1
          DEF Numbered, WorkersNumbered, AsksNumbered, AnswersNumbered,
              ReplyNumbered, NoWorker, HasTicket
<1> QED BY <1>1, <1>3, <1>6, <1>7 DEF FlightInv

LEMMA FlightNext ==
  ASSUME FlightInv, [Next]_vars
  PROVE  FlightInv'
<1>1. IndInv'
  BY NextInd DEF FlightInv
<1>2. DrainOnly' /\ TrueProvenance' /\ \A p \in Provider : FlightStep(p)
  BY NextProgress DEF Progress
<1>3. \A p \in Provider :
        Numbered(p, worker'[p], Events', ui'.reply, slot'[p])
  BY <1>2, FlightStepNumbered
<1> QED BY <1>1, <1>2, <1>3 DEF FlightInv

\* What app.rs, a worker and a reply channel hold keeps its numbers in every
\* state of the pipeline.
THEOREM InFlight == Spec => []FlightInv
<1>1. Init => FlightInv
  BY FlightInit
<1>2. FlightInv /\ [Next]_vars => FlightInv'
  BY FlightNext
<1> QED BY <1>1, <1>2, PTL DEF Spec

\* Usage on display, and usage saved in the runtime cache, was read from the
\* source it is attributed to, even when the source flips between a
\* preparation and its completion.
THEOREM Provenance == Spec => []TrueProvenance
<1>1. FlightInv => TrueProvenance
  BY DEF FlightInv
<1> QED BY <1>1, InFlight, PTL

-----------------------------------------------------------------------------
(* At most one answer is on its way.                                       *)

LEMMA AtMostOne ==
  ASSUME NEW S, \A x, y \in S : x = y
  PROVE  /\ Cardinality(S) \in {0, 1}
         /\ Cardinality(S) = 1 => S # {}
         /\ S # {} => Cardinality(S) = 1
<1>1. CASE S = {}
  BY <1>1, FS_EmptySet
<1>2. CASE S # {}
  <2>1. PICK x : S = {x}
    BY <1>2
  <2>2. Cardinality(S) = 1
    BY <2>1, FS_Singleton
  <2> QED BY <1>2, <2>2
<1> QED BY <1>1, <1>2

\* Whoever carries a live ticket carries the request of the slot.
LEMMA LiveCarriers ==
  ASSUME FlightInv, NEW p \in Provider
  PROVE  /\ \A x, y \in LiveWorkers(p) : x = y
         /\ \A x, y \in LiveEvents(p) : x = y
         /\ LiveWorkers(p) # {} => LiveEvents(p) = {}
         /\ LiveReply(p) => LiveWorkers(p) = {} /\ LiveEvents(p) = {}
<1>1. Numbered(p, worker[p], Events, ui.reply, slot[p])
  BY DEF FlightInv
<1>2. \A k : Live(slot[p], k) => k.request = slot[p].request
  BY DEF Live, TicketOf
<1>3. \A x \in LiveWorkers(p) : /\ x \in Operation /\ HasTicket(worker[p][x])
                                /\ worker[p][x].ticket.request = slot[p].request
  BY <1>2 DEF LiveWorkers, HasTicket
<1>4. \A x \in LiveEvents(p) : /\ x \in DOMAIN Events /\ Answers(Events[x], p)
                               /\ Events[x].ticket.request = slot[p].request
  BY <1>2 DEF LiveEvents, Answers
<1>5. LiveReply(p) => /\ ui.reply # None /\ ui.reply.provider = p
                      /\ ui.reply.ticket # None
                      /\ ui.reply.ticket.request = slot[p].request
  BY <1>2 DEF LiveReply
<1>6. \A x, y \in LiveWorkers(p) : x = y
  BY <1>1, <1>3 DEF Numbered, WorkersNumbered
<1>7. \A x, y \in LiveEvents(p) : x = y
  BY <1>1, <1>4 DEF Numbered, AnswersNumbered
<1>8. LiveWorkers(p) # {} => LiveEvents(p) = {}
  BY <1>1, <1>3, <1>4 DEF Numbered, AnswersNumbered
<1>9. LiveReply(p) => LiveWorkers(p) = {} /\ LiveEvents(p) = {}
  BY <1>1, <1>3, <1>4, <1>5 DEF Numbered, ReplyNumbered
<1> QED BY <1>6, <1>7, <1>8, <1>9

LEMMA CountedCarriers ==
  ASSUME FlightInv, NEW p \in Provider
  PROVE  /\ Carriers(p) <= 1
         /\ (LiveWorkers(p) # {} \/ LiveEvents(p) # {} \/ LiveReply(p))
              => Carriers(p) >= 1
<1> DEFINE a == Cardinality(LiveWorkers(p))
           b == Cardinality(LiveEvents(p))
<1>1. /\ a \in {0, 1} /\ (a = 1 <=> LiveWorkers(p) # {})
      /\ b \in {0, 1} /\ (b = 1 <=> LiveEvents(p) # {})
  BY LiveCarriers, AtMostOne
<1>2. /\ a = 1 => b = 0
      /\ LiveReply(p) => a = 0 /\ b = 0
  BY <1>1, LiveCarriers
<1> HIDE DEF a, b
<1>3. Carriers(p) = a + b + (IF LiveReply(p) THEN 1 ELSE 0)
  BY DEF Carriers, a, b
<1> QED BY <1>1, <1>2, <1>3

\* At most one completion the slot would accept is on its way: no request is
\* answered twice and no two requests of one generation overlap.
THEOREM OneAnswer == Spec => []SingleFlight
<1>1. FlightInv => SingleFlight
  BY CountedCarriers DEF SingleFlight
<1> QED BY <1>1, InFlight, PTL

-----------------------------------------------------------------------------
(* What is obsolete stays obsolete.                                        *)

\* What the steps do to a slot.
LEMMA SlotStep ==
  ASSUME FlightInv, NEW p \in Provider, FlightStep(p)
  PROVE  \/ Quiet(slot[p], slot'[p])
         \/ /\ slot'[p].phase # "Fetching"
            /\ slot'[p].pending.operation = slot[p].nextOperation
         \/ /\ slot'[p].phase = "Fetching"
            /\ slot'[p].request = slot[p].nextRequest
            /\ slot'[p].pending = None
         \/ slot'[p].phase # "Fetching" /\ slot'[p].pending = None
BY QuietSelf
   DEF FlightStep, Rests, Spawns, MovesOn, Reports, Finishes, Elsewhere,
       Decides, GivesUp, Concludes, Replies, Restarts, Quiet, HoldsNothing

LEMMA ObsoleteStep ==
  ASSUME FlightInv, NEW p \in Provider, FlightStep(p)
  PROVE  /\ \A t \in HeldTickets(p) :
              Live(slot'[p], t) => Live(slot[p], t)
         /\ \A q \in HeldPreparations(p) :
              Matches(slot'[p], q) => Matches(slot[p], q)
<1>1. /\ Numbered(p, worker[p], Events, ui.reply, slot[p])
      /\ slot[p].nextRequest \in Nat
      /\ slot[p].nextOperation \in Nat
      /\ Sound(slot[p])
  BY FlightTypes DEF Slot
<1>2. ASSUME NEW t \in HeldTickets(p)
      PROVE  t.request # slot[p].nextRequest
  <2>1. \/ \E o \in Operation : /\ worker[p][o].ticket # None
                                /\ t = worker[p][o].ticket
        \/ \E i \in DOMAIN Events : Answers(Events[i], p) /\ t = Events[i].ticket
    BY DEF HeldTickets, Answers
  <2>2. t.request \in 0 .. slot[p].nextRequest - 1
    BY <1>1, <2>1 DEF Numbered, WorkersNumbered, AnswersNumbered
  <2> QED BY <1>1, <2>2
<1>3. ASSUME NEW q \in HeldPreparations(p)
      PROVE  q.operation # slot[p].nextOperation
  <2>1. \/ \E o \in Operation : /\ worker[p][o].stage = "preparing"
                                /\ q = worker[p][o].prep
        \/ \E i \in DOMAIN Events : Asks(Events[i], p) /\ q = Events[i].prep
    BY DEF HeldPreparations, Asks
  <2>2. q.operation \in Operation /\ q.operation < slot[p].nextOperation
    BY <1>1, <2>1 DEF Numbered, WorkersNumbered, AsksNumbered
  <2> QED BY <1>1, <2>2 DEF Operation
<1>4. ASSUME NEW t \in HeldTickets(p), Live(slot'[p], t)
      PROVE  Live(slot[p], t)
  <2>1. slot'[p].phase = "Fetching" /\ t.request = slot'[p].request
    BY <1>4 DEF Live, TicketOf
  <2> QED BY <1>2, <1>4, <2>1, SlotStep, QuietLive
<1>5. ASSUME NEW q \in HeldPreparations(p), Matches(slot'[p], q)
      PROVE  Matches(slot[p], q)
  <2>1. /\ slot'[p].pending # None
        /\ slot'[p].pending.operation = q.operation
        /\ slot'[p].pending.generation = q.generation
    BY <1>5 DEF Matches
  <2>2. Quiet(slot[p], slot'[p])
    BY <1>3, <2>1, SlotStep
  <2>3. slot[p].pending = slot'[p].pending
    BY <2>1, <2>2 DEF Quiet
  <2>4. slot[p].pending.generation = slot[p].generation
    BY <1>1, <2>1, <2>3 DEF Sound, OneActivity
  <2> QED BY <2>1, <2>3, <2>4 DEF Matches
<1> QED BY <1>4, <1>5

\* Work that an invalidation, an account switch or a newer request has made
\* obsolete stays obsolete for as long as anybody holds its envelope.
THEOREM Obsolescence == Spec => ObsoleteStaysObsolete
<1> DEFINE Kept == \A p \in Provider :
             /\ \A t \in HeldTickets(p) \cap HeldTickets(p)' :
                  Live(slot'[p], t) => Live(slot[p], t)
             /\ \A q \in HeldPreparations(p) \cap HeldPreparations(p)' :
                  Matches(slot'[p], q) => Matches(slot[p], q)
<1>1. FlightInv /\ [Next]_vars => [Kept]_vars
  <2> SUFFICES ASSUME FlightInv, [Next]_vars PROVE Kept
    OBVIOUS
  <2>1. \A p \in Provider : FlightStep(p)
    BY NextProgress DEF Progress
  <2> QED BY <2>1, ObsoleteStep
<1>2. ObsoleteStaysObsolete <=> [][Kept]_vars
  BY DEF ObsoleteStaysObsolete
<1> HIDE DEF Kept
<1> QED BY <1>1, <1>2, InFlight, PTL DEF Spec

-----------------------------------------------------------------------------
(* A reserved preparation is carried.                                      *)

Carried(p, W, E, s) ==
  s.pending # None =>
    \/ \E o \in Operation : /\ W[o].stage = "preparing"
                            /\ Matches(s, W[o].prep)
    \/ \E i \in DOMAIN E : Asks(E[i], p) /\ Matches(s, E[i].prep)

LEMMA TailCarried ==
  ASSUME NEW p, NEW W, NEW S, NEW E \in Seq(S), NEW s, E # <<>>,
         Carried(p, W, E, s),
         Asks(Head(E), p) => ~Matches(s, Head(E).prep)
  PROVE  Carried(p, W, Tail(E), s)
<1> DEFINE F == Tail(E)
<1>1. /\ Head(E) = E[1]
      /\ \A i \in DOMAIN E \ {1} : i - 1 \in DOMAIN F /\ F[i - 1] = E[i]
  BY TailEvents
<1> HIDE DEF F
<1> SUFFICES ASSUME s.pending # None,
                    NEW i \in DOMAIN E, Asks(E[i], p), Matches(s, E[i].prep)
             PROVE  \E j \in DOMAIN F : Asks(F[j], p) /\ Matches(s, F[j].prep)
  BY DEF Carried, F
<1>2. i # 1
  BY <1>1
<1> QED BY <1>1, <1>2

LEMMA AppendCarried ==
  ASSUME NEW p, NEW W, NEW S, NEW E \in Seq(S), NEW s, NEW e \in S,
         Carried(p, W, E, s)
  PROVE  Carried(p, W, Append(E, e), s)
BY AppendEvents DEF Carried

\* A preparation is still the pending one after a step that starts nothing.
LEMMA QuietCarried ==
  ASSUME NEW p, NEW W, NEW E, NEW s, NEW t, Carried(p, W, E, s), Quiet(s, t),
         t.pending # None => t.pending.generation = t.generation
  PROVE  Carried(p, W, E, t)
<1>1. t.pending # None => \A q : Matches(s, q) => Matches(t, q)
  BY DEF Quiet, Matches
<1>2. t.pending # None => s.pending # None
  BY DEF Quiet
<1> QED BY <1>1, <1>2 DEF Carried

\* A worker that is not preparing may do what it likes.
LEMMA WorkerCarried ==
  ASSUME NEW p, NEW W \in [Operation -> Worker], NEW E, NEW s,
         NEW o \in Operation, NEW x, Carried(p, W, E, s),
         W[o].stage # "preparing"
  PROVE  Carried(p, [W EXCEPT ![o] = x], E, s)
<1>1. \A i \in Operation \ {o} : [W EXCEPT ![o] = x][i] = W[i]
  OBVIOUS
<1> QED BY <1>1 DEF Carried

LEMMA FlightStepCarried ==
  ASSUME FlightInv, IndInv', NEW p \in Provider, FlightStep(p),
         Carried(p, worker[p], Events, slot[p])
  PROVE  Carried(p, worker'[p], Events', slot'[p])
<1> DEFINE W == worker[p]
           E == Events
           s == slot[p]
           t == slot'[p]
<1>1. W \in [Operation -> Worker] /\ E \in Seq(AppEvent)
  BY FlightTypes
<1>2. t.pending # None => t.pending.generation = t.generation
  BY DEF IndInv, OneActivityEach, OneActivity
<1>3. CASE Rests(p)
  BY <1>2, <1>3, QuietCarried DEF Rests
<1>4. CASE Spawns(p)
  <2>1. PICK n \in Operation :
          worker'[p] = [W EXCEPT ![n] = [NoWorker EXCEPT !.stage = "preparing",
                                                        !.prep = t.pending]]
    BY <1>4 DEF Spawns
  <2>2. worker'[p][n].stage = "preparing" /\ worker'[p][n].prep = t.pending
    BY <1>1, <2>1 DEF NoWorker
  <2>3. t.pending # None => Matches(t, t.pending)
    BY <1>2 DEF Matches
  <2> QED BY <2>2, <2>3 DEF Carried
<1>5. CASE MovesOn(p)
  <2>1. PICK o \in Operation, x \in Worker :
          worker'[p] = [W EXCEPT ![o] = x] /\ W[o].stage # "preparing"
    BY <1>5 DEF MovesOn
  <2>2. Events' = E /\ t = s
    BY <1>5 DEF MovesOn
  <2> HIDE DEF W, E, s, t
  <2>3. Carried(p, [W EXCEPT ![o] = x], E, s)
    BY <1>1, <2>1, WorkerCarried DEF W, E, s
  <2> QED BY <2>1, <2>2, <2>3 DEF t
<1>6. CASE Reports(p)
  <2>1. PICK o \in Operation, x \in Worker, e \in AppEvent :
          /\ W[o].stage = "preparing"
          /\ worker'[p] = [W EXCEPT ![o] = x]
          /\ Events' = Append(E, e)
          /\ Asks(e, p)
          /\ e.prep = W[o].prep
    BY <1>6 DEF Reports
  <2>2. /\ \A i \in Operation \ {o} : worker'[p][i] = W[i]
        /\ t = s
    BY <1>1, <1>6, <2>1 DEF Reports
  <2>3. /\ \A i \in DOMAIN E : i \in DOMAIN Events' /\ Events'[i] = E[i]
        /\ \E i \in DOMAIN Events' : Events'[i] = e
    BY <1>1, <2>1, AppendEvents
  <2> HIDE DEF W, E, s, t
  <2>4. Carried(p, W, E, s)
    BY DEF W, E, s
  <2> QED BY <2>1, <2>2, <2>3, <2>4 DEF Carried, t
<1>7. CASE Finishes(p)
  <2>1. PICK o \in Operation, e \in AppEvent :
          /\ worker'[p] = [W EXCEPT ![o] = NoWorker]
          /\ W[o].stage # "preparing"
          /\ Events' = Append(E, e)
    BY <1>7 DEF Finishes
  <2>2. Carried(p, W, Append(E, e), s)
    BY <1>1, AppendCarried
  <2>3. t = s
    BY <1>7 DEF Finishes
  <2> HIDE DEF W, E, s, t
  <2>4. Carried(p, [W EXCEPT ![o] = NoWorker], Append(E, e), s)
    BY <1>1, <2>1, <2>2, WorkerCarried
  <2> QED BY <2>1, <2>3, <2>4 DEF t
<1>8. CASE Elsewhere(p)
  <2>1. CASE \E e \in AppEvent : Events' = Append(Events, e)
    BY <1>1, <1>8, <2>1, AppendCarried DEF Elsewhere
  <2>2. CASE Events # <<>> /\ Head(Events).provider # p /\ Events' = Tail(Events)
    BY <1>1, <1>8, <2>2, TailCarried DEF Elsewhere, Asks
  <2>3. CASE Events' = Events
    BY <1>8, <2>3 DEF Elsewhere
  <2> QED BY <1>8, <2>1, <2>2, <2>3 DEF Elsewhere
<1>9. CASE Decides(p) \/ GivesUp(p)
  <2>1. /\ E # <<>> /\ Events' = Tail(E) /\ worker'[p] = W
        /\ IF Matches(s, Head(E).prep) THEN t.pending = None ELSE t = s
    BY <1>9 DEF Decides, GivesUp, Takes
  <2>2. CASE Matches(s, Head(E).prep)
    BY <2>1, <2>2 DEF Carried
  <2>3. CASE ~Matches(s, Head(E).prep)
    BY <1>1, <2>1, <2>3, TailCarried
  <2> QED BY <2>2, <2>3
<1>10. CASE Concludes(p)
  <2>1. /\ E # <<>> /\ Events' = Tail(E) /\ worker'[p] = W
        /\ ~Asks(Head(E), p)
        /\ Quiet(s, t)
    BY <1>10 DEF Concludes, Takes, Asks
  <2>2. Carried(p, W, Tail(E), s)
    BY <1>1, <2>1, TailCarried
  <2> QED BY <1>2, <2>1, <2>2, QuietCarried
<1>11. CASE Replies(p)
  <2>1. /\ Events' = E /\ Quiet(s, t)
    BY <1>11, QuietSelf DEF Replies
  <2> DEFINE o == ui.reply.operation
             x == [W[o] EXCEPT !.stage = IF ui.reply.ticket = None
                                         THEN "refused" ELSE "granted",
                               !.ticket = ui.reply.ticket]
  <2>2. /\ o \in Operation
        /\ \/ worker'[p] = W
           \/ worker'[p] = [W EXCEPT ![o] = x] /\ W[o].stage # "preparing"
    BY <1>11 DEF Replies
  <2>3. Carried(p, W, E, t)
    BY <1>2, <2>1, QuietCarried
  <2> HIDE DEF W, E, s, t, o, x
  <2>4. W[o].stage # "preparing" => Carried(p, [W EXCEPT ![o] = x], E, t)
    BY <1>1, <2>2, <2>3, WorkerCarried
  <2> QED BY <2>1, <2>2, <2>3, <2>4 DEF t
<1>12. CASE Restarts(p)
  BY <1>12 DEF Restarts, HoldsNothing, Carried
<1> QED BY <1>3, <1>4, <1>5, <1>6, <1>7, <1>8, <1>9, <1>10, <1>11, <1>12
        DEF FlightStep

CarriedInv ==
  /\ FlightInv
  /\ \A p \in Provider : Carried(p, worker[p], Events, slot[p])

\* A reserved preparation is answered: its worker is still preparing or its
\* event is queued, whatever becomes of the wake-up messages.
THEOREM NoLostPreparation == Spec => []PendingIsCarried
<1>1. Init => CarriedInv
  <2>1. Init => \A p \in Provider : slot[p].pending = None
    BY DEF Init, NewSlots, NewSlot
  <2> QED BY <2>1, FlightInit DEF CarriedInv, Carried
<1>2. CarriedInv /\ [Next]_vars => CarriedInv'
  <2> SUFFICES ASSUME CarriedInv, [Next]_vars PROVE CarriedInv'
    OBVIOUS
  <2>1. FlightInv /\ FlightInv' /\ IndInv'
    BY FlightNext DEF CarriedInv, FlightInv
  <2>2. \A p \in Provider : FlightStep(p)
    BY <2>1, NextProgress DEF Progress
  <2>3. \A p \in Provider : Carried(p, worker'[p], Events', slot'[p])
    BY <2>1, <2>2, FlightStepCarried DEF CarriedInv
  <2> QED BY <2>1, <2>3 DEF CarriedInv
<1>3. CarriedInv => PendingIsCarried
  <2> SUFFICES ASSUME CarriedInv, NEW p \in Provider, slot[p].pending # None
               PROVE  \/ \E o \in Operation :
                           /\ worker[p][o].stage = "preparing"
                           /\ Matches(slot[p], worker[p][o].prep)
                      \/ \E i \in DOMAIN Events :
                           /\ Events[i].kind \in {"Prepared", "PreparationFailed"}
                           /\ Events[i].provider = p
                           /\ Matches(slot[p], Events[i].prep)
    BY DEF PendingIsCarried
  <2>1. \A i \in DOMAIN Events : Events[i] \in AppEvent
    BY FlightTypes, ElementOfSeq, LenProperties DEF CarriedInv
  <2>2. \A e \in AppEvent :
          e.kind # "Completed" => e.kind \in {"Prepared", "PreparationFailed"}
    BY DEF AppEvent, PreparedEvent, PreparationFailedEvent, CompletedEvent
  <2> QED BY <2>1, <2>2 DEF CarriedInv, Carried, Asks
<1> QED BY <1>1, <1>2, <1>3, PTL DEF Spec

-----------------------------------------------------------------------------
(* A fetching slot has an answer on its way, unless a reply can be lost.   *)

Answered(p, W, E, r, s) ==
  s.phase = "Fetching" =>
    \/ \E o \in Operation : HasTicket(W[o]) /\ Live(s, W[o].ticket)
    \/ \E i \in DOMAIN E : Answers(E[i], p) /\ Live(s, E[i].ticket)
    \/ /\ r # None /\ r.provider = p
       /\ r.ticket # None /\ Live(s, r.ticket)

LEMMA TailAnswered ==
  ASSUME NEW p, NEW W, NEW S, NEW E \in Seq(S), NEW r, NEW s, E # <<>>,
         Answered(p, W, E, r, s),
         Answers(Head(E), p) => ~Live(s, Head(E).ticket)
  PROVE  Answered(p, W, Tail(E), r, s)
<1> DEFINE F == Tail(E)
<1>1. /\ Head(E) = E[1]
      /\ \A i \in DOMAIN E \ {1} : i - 1 \in DOMAIN F /\ F[i - 1] = E[i]
  BY TailEvents
<1> HIDE DEF F
<1>2. ASSUME NEW i \in DOMAIN E, Answers(E[i], p), Live(s, E[i].ticket)
      PROVE  \E j \in DOMAIN F : Answers(F[j], p) /\ Live(s, F[j].ticket)
  <2>1. i # 1
    BY <1>1, <1>2
  <2> QED BY <1>1, <1>2, <2>1
<1> QED BY <1>2 DEF Answered, F

LEMMA AppendAnswered ==
  ASSUME NEW p, NEW W, NEW S, NEW E \in Seq(S), NEW r, NEW s, NEW e \in S,
         Answered(p, W, E, r, s)
  PROVE  Answered(p, W, Append(E, e), r, s)
BY AppendEvents DEF Answered

\* A step that starts nothing keeps the request the slot waits for.
LEMMA QuietAnswered ==
  ASSUME NEW p, NEW W, NEW E, NEW r, NEW s, NEW t, Answered(p, W, E, r, s),
         Quiet(s, t)
  PROVE  Answered(p, W, E, r, t)
<1>1. t.phase = "Fetching" => /\ s.phase = "Fetching"
                              /\ \A k : Live(s, k) => Live(t, k)
  BY DEF Quiet, Live
<1> QED BY <1>1 DEF Answered

\* A worker that has no ticket may do what it likes, one that has a ticket
\* may go on with it.
LEMMA WorkerAnswered ==
  ASSUME NEW p, NEW W \in [Operation -> Worker], NEW E, NEW r, NEW s,
         NEW o \in Operation, NEW x, Answered(p, W, E, r, s),
         HasTicket(W[o]) => HasTicket(x) /\ x.ticket = W[o].ticket
  PROVE  Answered(p, [W EXCEPT ![o] = x], E, r, s)
<1> DEFINE V == [W EXCEPT ![o] = x]
<1>1. V[o] = x /\ \A i \in Operation \ {o} : V[i] = W[i]
  OBVIOUS
<1> HIDE DEF V
<1>2. \A i \in Operation : HasTicket(W[i]) => /\ HasTicket(V[i])
                                             /\ V[i].ticket = W[i].ticket
  BY <1>1
<1> QED BY <1>2 DEF Answered, V

LEMMA FlightStepAnswered ==
  ASSUME ~LateReply, FlightInv, NEW p \in Provider, FlightStep(p),
         Answered(p, worker[p], Events, ui.reply, slot[p])
  PROVE  Answered(p, worker'[p], Events', ui'.reply, slot'[p])
<1> DEFINE W == worker[p]
           E == Events
           r == ui.reply
           s == slot[p]
           t == slot'[p]
<1>1. W \in [Operation -> Worker] /\ E \in Seq(AppEvent)
  BY FlightTypes
<1>2. CASE Rests(p)
  BY <1>2, QuietAnswered DEF Rests
<1>3. CASE Spawns(p)
  BY <1>3 DEF Spawns, Answered
<1>4. CASE MovesOn(p)
  <2>1. PICK o \in Operation, x \in Worker :
          /\ worker'[p] = [W EXCEPT ![o] = x]
          /\ \/ W[o].stage \in {"waiting", "expired", "refused"}
             \/ /\ W[o].stage = "granted"
                /\ x = [W[o] EXCEPT !.stage = "executing"]
    BY <1>4 DEF MovesOn
  <2>2. W[o] \in Worker
    BY <1>1
  <2>3. Events' = E /\ t = s /\ ui'.reply = r
    BY <1>4 DEF MovesOn
  <2> HIDE DEF W, E, r, s, t
  <2>4. HasTicket(W[o]) => HasTicket(x) /\ x.ticket = W[o].ticket
    BY <2>1, <2>2 DEF HasTicket, Worker
  <2>5. Answered(p, [W EXCEPT ![o] = x], E, r, s)
    BY <1>1, <2>4, WorkerAnswered DEF W, E, r, s
  <2> QED BY <2>1, <2>3, <2>5 DEF t
<1>5. CASE Reports(p)
  <2>1. PICK o \in Operation, x \in Worker, e \in AppEvent :
          /\ W[o].stage = "preparing"
          /\ worker'[p] = [W EXCEPT ![o] = x]
          /\ Events' = Append(E, e)
    BY <1>5 DEF Reports
  <2>2. t = s /\ ui'.reply = r
    BY <1>5 DEF Reports
  <2>3. Answered(p, W, Append(E, e), r, s)
    BY <1>1, AppendAnswered
  <2> HIDE DEF W, E, r, s, t
  <2>4. Answered(p, [W EXCEPT ![o] = x], Append(E, e), r, s)
    BY <1>1, <2>1, <2>3, WorkerAnswered DEF HasTicket
  <2> QED BY <2>1, <2>2, <2>4 DEF r, t
<1>6. CASE Finishes(p)
  <2>1. PICK o \in Operation, e \in AppEvent :
          /\ worker'[p] = [W EXCEPT ![o] = NoWorker]
          /\ Events' = Append(E, e)
          /\ Answers(e, p)
          /\ e.ticket = W[o].ticket
    BY <1>6 DEF Finishes
  <2>2. t = s /\ ui'.reply = r
    BY <1>6 DEF Finishes
  <2>3. /\ \A i \in Operation \ {o} : worker'[p][i] = W[i]
        /\ \A i \in DOMAIN E : i \in DOMAIN Events' /\ Events'[i] = E[i]
        /\ \E i \in DOMAIN Events' : Events'[i] = e
    BY <1>1, <2>1, AppendEvents
  <2>4. Answered(p, W, E, r, s)
    OBVIOUS
  <2> HIDE DEF W, E, r, s, t
  <2> QED BY <2>1, <2>2, <2>3, <2>4 DEF Answered, r, t
<1>7. CASE Elsewhere(p)
  <2>1. CASE /\ \E e \in AppEvent : Events' = Append(Events, e)
             /\ ui'.reply = ui.reply
    BY <1>1, <1>7, <2>1, AppendAnswered DEF Elsewhere
  <2>2. CASE /\ Events # <<>> /\ Head(Events).provider # p
             /\ Events' = Tail(Events) /\ ui.reply = None
    <3>1. Answered(p, W, Tail(E), None, s)
      BY <1>1, <2>2, TailAnswered DEF Answers
    <3> QED BY <1>7, <2>2, <3>1 DEF Elsewhere, Answered
  <2>3. CASE Events' = Events /\ ui.reply.provider # p
    BY <1>7, <2>3 DEF Elsewhere, Answered
  <2> QED BY <1>7, <2>1, <2>2, <2>3 DEF Elsewhere
<1>8. CASE Decides(p)
  <2>1. /\ E # <<>> /\ Events' = Tail(E) /\ worker'[p] = W
        /\ ~Answers(Head(E), p)
        /\ r = None /\ ui'.reply # None /\ ui'.reply.provider = p
    BY <1>8 DEF Decides, Takes, Answers
  <2>2. Answered(p, W, Tail(E), r, s)
    BY <1>1, <2>1, TailAnswered
  <2>3. CASE Quiet(s, t)
    <3>1. Answered(p, W, Tail(E), r, t)
      BY <2>2, <2>3, QuietAnswered
    <3> QED BY <2>1, <3>1 DEF Answered
  <2>4. CASE /\ ui'.reply.ticket = TicketOf(t) /\ ui'.reply.ticket \in Ticket
             /\ t.phase = "Fetching"
    BY <2>1, <2>4, ProviderSlotAssumption DEF Answered, Live
  <2> QED BY <1>8, <2>3, <2>4 DEF Decides
<1>9. CASE GivesUp(p)
  <2>1. /\ E # <<>> /\ Events' = Tail(E) /\ worker'[p] = W
        /\ ~Answers(Head(E), p)
        /\ r = None /\ ui'.reply = None /\ Quiet(s, t)
    BY <1>9 DEF GivesUp, Takes, Answers
  <2>2. Answered(p, W, Tail(E), r, s)
    BY <1>1, <2>1, TailAnswered
  <2> QED BY <2>1, <2>2, QuietAnswered
<1>10. CASE Concludes(p)
  <2>1. /\ E # <<>> /\ Events' = Tail(E) /\ worker'[p] = W
        /\ r = None /\ ui'.reply = None
        /\ Takes(p, "Completed")
        /\ IF Accepts(s, Head(E).ticket, Head(E).result)
           THEN t.phase # "Fetching"
           ELSE t = s
    BY <1>10 DEF Concludes, Takes
  <2>2. CASE Live(s, Head(E).ticket)
    <3>1. Accepts(s, Head(E).ticket, Head(E).result)
      BY <2>1, <2>2, AnswerIsOwn DEF Accepts
    <3> QED BY <2>1, <3>1 DEF Answered
  <2>3. CASE ~Live(s, Head(E).ticket)
    <3>1. Answered(p, W, Tail(E), r, s)
      BY <1>1, <2>1, <2>3, TailAnswered
    <3> QED BY <2>1, <2>3, <3>1 DEF Accepts
  <2> QED BY <2>2, <2>3
<1>11. CASE Replies(p)
  <2> DEFINE o == ui.reply.operation
             x == [W[o] EXCEPT !.stage = IF ui.reply.ticket = None
                                         THEN "refused" ELSE "granted",
                               !.ticket = ui.reply.ticket]
  <2>1. r # None /\ ui'.reply = None /\ Events' = E /\ o \in Operation
    BY <1>11 DEF Replies
  <2>2. CASE W[o].stage = "waiting" /\ t = s /\ worker'[p] = [W EXCEPT ![o] = x]
    <3>1. W[o] \in Worker
      BY <1>1, <2>1
    <3>2. /\ worker'[p][o] = x
          /\ \A i \in Operation \ {o} : worker'[p][i] = W[i]
      BY <1>1, <2>1, <2>2
    <3>3. x.ticket = r.ticket /\ (r.ticket # None => HasTicket(x))
      BY <3>1 DEF Worker, HasTicket
    <3>4. ~HasTicket(W[o])
      BY <2>2 DEF HasTicket
    <3>5. Answered(p, W, E, r, s)
      OBVIOUS
    <3> HIDE DEF W, E, r, s, t, o, x
    <3> QED BY <2>1, <2>2, <3>2, <3>3, <3>4, <3>5 DEF Answered, t
  <2>3. CASE worker'[p] = W /\ t = s /\ ~Live(s, ui.reply.ticket)
    BY <2>1, <2>3 DEF Answered
  <2>4. CASE worker'[p] = W /\ t = s /\ ui.reply.ticket = None
    BY <2>1, <2>4 DEF Answered
  <2>5. CASE t.phase # "Fetching"
    BY <2>5 DEF Answered
  <2> QED BY <1>11, <2>2, <2>3, <2>4, <2>5 DEF Replies
<1>12. CASE Restarts(p)
  BY <1>12 DEF Restarts, HoldsNothing, Answered
<1> QED BY <1>2, <1>3, <1>4, <1>5, <1>6, <1>7, <1>8, <1>9, <1>10, <1>11, <1>12
        DEF FlightStep

AnsweredInv ==
  /\ FlightInv
  /\ \A p \in Provider :
       Answered(p, worker[p], Events, ui.reply, slot[p])

\* "Completed workers cannot leave a provider stuck in Fetching": a fetching
\* slot has its completion on its way whatever else happens, provided that no
\* reply falls between a worker's time-out and its hang-up.  The window that
\* LateReply opens is thus the only way into the stuck state that the
\* configuration PollStuck reaches.
THEOREM NeverStuck ==
  ASSUME ~LateReply
  PROVE  Spec => []NeverStuckFetching
<1>1. Init => AnsweredInv
  <2>1. Init => \A p \in Provider : slot[p].phase # "Fetching"
    BY DEF Init, NewSlots, NewSlot
  <2> QED BY <2>1, FlightInit DEF AnsweredInv, Answered
<1>2. AnsweredInv /\ [Next]_vars => AnsweredInv'
  <2> SUFFICES ASSUME AnsweredInv, [Next]_vars PROVE AnsweredInv'
    OBVIOUS
  <2>1. FlightInv /\ FlightInv'
    BY FlightNext DEF AnsweredInv
  <2>2. \A p \in Provider : FlightStep(p)
    BY <2>1, NextProgress DEF Progress
  <2>3. \A p \in Provider :
          Answered(p, worker'[p], Events', ui'.reply, slot'[p])
    BY <2>1, <2>2, FlightStepAnswered DEF AnsweredInv
  <2> QED BY <2>1, <2>3 DEF AnsweredInv
<1>3. AnsweredInv => NeverStuckFetching
  <2> SUFFICES ASSUME AnsweredInv, NEW p \in Provider,
                      slot[p].phase = "Fetching"
               PROVE  Carriers(p) >= 1
    BY DEF NeverStuckFetching
  <2>1. \/ \E o \in Operation : /\ HasTicket(worker[p][o])
                                /\ Live(slot[p], worker[p][o].ticket)
        \/ \E i \in DOMAIN Events : /\ Answers(Events[i], p)
                                    /\ Live(slot[p], Events[i].ticket)
        \/ LiveReply(p)
    BY DEF AnsweredInv, Answered, LiveReply
  <2>2. LiveWorkers(p) # {} \/ LiveEvents(p) # {} \/ LiveReply(p)
    BY <2>1 DEF LiveWorkers, LiveEvents, HasTicket, Answers
  <2> QED BY <2>2, CountedCarriers DEF AnsweredInv
<1> QED BY <1>1, <1>2, <1>3, PTL DEF Spec

-----------------------------------------------------------------------------
(***************************************************************************)
(* The runtime cache, for all providers, accounts, sources, Retry-After    *)
(* values and bounds: what state.json may hold, and that no request starts *)
(* before the deadline it holds.                                           *)
(*                                                                         *)
(* The deadline of a 429 is kept twice, as the slot's back-off and in the  *)
(* cache, and the two come apart: a write may fail, a sign-out or a toggle *)
(* forgets one of them, a restart the other.  The invariant says what is   *)
(* left of their agreement: a slot that has the account and the source of  *)
(* an unexpired entry backs off at least as long.                          *)
(***************************************************************************)

\* An entry that holds back requests of this account and source.
Holds(e, account, source, time) ==
  /\ e # None
  /\ e.account = account
  /\ e.source = source
  /\ e.retryAt # None
  /\ e.retryAt > time

\* The cache entry e and the slot s of one provider.
Kept(e, s, time) ==
  /\ e # None => e.account \in Persistent
  /\ e # None /\ e.retryAt # None => e.retryAt <= time + MaxRetryAfter
  /\ s.phase = "Backoff" => s.until <= time + MaxRetryAfter
  /\ Settled(s, time)
  /\ Holds(e, s.account, s.source, time) =>
       s.phase = "Backoff" /\ s.until >= e.retryAt

CacheInv ==
  /\ IndInv
  /\ \A p \in Provider : Kept(cache[p], slot[p], now)

-----------------------------------------------------------------------------
(* What the steps do to an entry and a slot.                               *)

LEMMA CacheTypes ==
  ASSUME CacheInv, NEW p \in Provider
  PROVE  /\ TypeOK /\ now \in Nat
         /\ cache[p] \in CacheEntry \cup {None}
         /\ slot[p] \in Slot /\ Sound(slot[p])
         /\ Settled(slot[p], now)
         /\ Kept(cache[p], slot[p], now)
<1>1. TypeOK /\ now \in Nat /\ cache[p] \in CacheEntry \cup {None}
      /\ slot[p] \in Slot
  BY DEF CacheInv, IndInv, TypeOK
<1> QED BY <1>1, SlotsAreSound DEF CacheInv, Kept

\* A calm step of the slot.
LEMMA CalmKept ==
  ASSUME NEW e \in CacheEntry \cup {None}, NEW s \in Slot, NEW t,
         NEW time \in Nat, Kept(e, s, time), Calm(s, t, time)
  PROVE  Kept(e, t, time)
<1>1. Holds(e, t.account, t.source, time) => t.account # None
  <2>1. Holds(e, t.account, t.source, time) => t.account \in Account
    BY PollPipelineAssumption DEF Holds, Kept
  <2> QED BY <2>1, ProviderStateAssumption
<1>2. Holds(e, t.account, t.source, time) =>
        /\ Holds(e, s.account, s.source, time)
        /\ t.phase = "Backoff" /\ t.until = s.until
  <2>1. Holds(e, s.account, s.source, time) => Cooling(s, time)
    <3>1. e # None /\ e.retryAt # None => e.retryAt \in Nat
      BY DEF CacheEntry
    <3>2. s.until \in Nat
      BY DEF Slot
    <3> QED BY <3>1, <3>2 DEF Holds, Kept, Cooling
  <2> QED BY <1>1, <2>1 DEF Calm, Kept, Holds
<1>3. t.phase = "Backoff" => t.until <= time + MaxRetryAfter
  BY DEF Calm, Kept
<1> QED BY <1>2, <1>3 DEF Kept, Calm

\* Forgetting the entry, and the passing of time.
LEMMA ForgottenKept ==
  ASSUME NEW e, NEW s, NEW time, Kept(e, s, time)
  PROVE  Kept(None, s, time)
BY DEF Kept, Holds

LEMMA LaterKept ==
  ASSUME NEW e \in CacheEntry \cup {None}, NEW s \in Slot, NEW time \in Nat,
         Kept(e, s, time)
  PROVE  Kept(e, s, time + 1)
<1>1. e # None /\ e.retryAt # None => e.retryAt \in Nat
  BY DEF CacheEntry
<1>2. s.until \in Nat /\ MaxRetryAfter \in Nat
  BY ProviderStateAssumption DEF Slot
<1> QED BY <1>1, <1>2 DEF Kept, Holds, Settled, Cooling

\* Saving what the slot holds.
LEMMA SavedKept ==
  ASSUME NEW e, NEW s \in Slot, now \in Nat, Kept(e, s, now)
  PROVE  Kept(EntryOf(s), s, now)
<1>1. CASE s.account \notin Persistent
  <2>1. EntryOf(s) = None
    BY <1>1 DEF EntryOf
  <2> QED BY <2>1, ForgottenKept
<1>2. CASE s.account \in Persistent
  <2> DEFINE x == EntryOf(s)
  <2>1. /\ x.account = s.account /\ x.source = s.source
        /\ x.retryAt = IF Cooling(s, now) THEN s.until ELSE None
    BY <1>2 DEF EntryOf
  <2>2. s.until \in Nat /\ None \notin Nat /\ MaxRetryAfter \in Nat
    BY ProviderStateAssumption DEF Slot
  <2> HIDE DEF x
  <2>3. Kept(x, s, now)
    BY <1>2, <2>1, <2>2 DEF Kept, Holds, Cooling
  <2> QED BY <2>3 DEF x
<1> QED BY <1>1, <1>2

\* What a restart may restore is the deadline the cache holds.
LEMMA RestoredDeadline ==
  ASSUME CacheInv, NEW p \in Provider, NEW account \in Account,
         NEW source \in Source, NEW fresh \in BOOLEAN
  PROVE  LET r == RestoredFor(p, account, source, fresh)
         IN  /\ r \in Restored
             /\ Plausible(r, now)
             /\ Holds(cache[p], account, source, now) =>
                  r.retryAt = cache[p].retryAt
<1> DEFINE e == cache[p]
           r == RestoredFor(p, account, source, fresh)
           matches == /\ e # None
                      /\ account \in Persistent
                      /\ e.account = account
                      /\ e.source = source
<1>1. r.retryAt = IF /\ matches
                     /\ e.retryAt # None
                     /\ e.retryAt > now
                     /\ e.retryAt - now <= MaxRetryAfter
                  THEN e.retryAt ELSE None
  BY DEF RestoredFor
<1>2. r \in Restored
  BY CacheTypes, RestoredForType
<1>3. /\ e # None /\ e.retryAt # None => e.retryAt \in Nat
      /\ now \in Nat /\ MaxRetryAfter \in Nat
      /\ Kept(e, slot[p], now)
  BY CacheTypes, ProviderStateAssumption DEF CacheEntry
<1> HIDE DEF e, r
<1>4. Plausible(r, now)
  BY <1>1 DEF Plausible
<1>5. ASSUME Holds(e, account, source, now)
      PROVE  r.retryAt = e.retryAt
  <2>1. matches /\ e.retryAt - now <= MaxRetryAfter
    BY <1>3, <1>5 DEF Holds, Kept
  <2> QED BY <1>1, <1>5, <2>1 DEF Holds
<1> QED BY <1>2, <1>4, <1>5 DEF e, r

\* The decision on a preparation respects the deadline the cache holds.
LEMMA PreparedKept ==
  ASSUME CacheInv, NEW p \in Provider, slot[p].pending # None,
         NEW prep \in Preparation, NEW account \in Account,
         NEW source \in Source, NEW fresh \in BOOLEAN
  PROVE  Kept(cache[p],
              Prepared(slot[p], prep, account, source,
                       RestoredFor(p, account, source, fresh), now).slot,
              now)
<1> DEFINE e == cache[p]
           s == slot[p]
           r == RestoredFor(p, account, source, fresh)
           t == Prepared(s, prep, account, source, r, now).slot
<1>1. /\ now \in Nat /\ e \in CacheEntry \cup {None} /\ s \in Slot
      /\ Sound(s) /\ Kept(e, s, now)
  BY CacheTypes
<1>2. /\ r \in Restored /\ Plausible(r, now)
      /\ Holds(e, account, source, now) => r.retryAt = e.retryAt
  BY RestoredDeadline
<1> HIDE DEF r
<1>3. t.account = account /\ t.pending = None
  BY <1>1, <1>2, PreparedSound
<1>4. /\ t.source = source
      /\ \/ /\ s.account = account /\ s.source = source
            /\ ~Cooling(s, now) /\ t.phase = "Fetching"
         \/ /\ s.account = account /\ s.source = source
            /\ t.phase = s.phase /\ t.until = s.until
         \/ r.retryAt = None /\ t.phase # "Backoff"
         \/ /\ r.retryAt # None
            /\ t.phase = "Backoff" /\ t.until = r.retryAt
  BY <1>1, <1>2, PreparedStarts
<1> HIDE DEF e, s, t
<1>5. CASE s.account = account /\ s.source = source
           /\ \/ ~Cooling(s, now) /\ t.phase = "Fetching"
              \/ t.phase = s.phase /\ t.until = s.until
  <2>1. Calm(s, t, now)
    BY <1>3, <1>4, <1>5 DEF Calm, Settled
  <2> QED BY <1>1, <2>1, CalmKept DEF e, s, t, r
<1>6. CASE r.retryAt = None /\ t.phase # "Backoff"
  <2>1. ~Holds(e, account, source, now)
    BY <1>2, <1>6 DEF Holds
  <2>2. Kept(e, t, now)
    BY <1>1, <1>3, <1>4, <1>6, <2>1 DEF Kept, Settled
  <2> QED BY <2>2 DEF e, s, t, r
<1>7. CASE r.retryAt # None /\ t.phase = "Backoff" /\ t.until = r.retryAt
  <2>1. /\ r.retryAt \in Nat /\ r.retryAt <= now + MaxRetryAfter
        /\ MaxRetryAfter \in Nat
    BY <1>1, <1>2, <1>7, ProviderStateAssumption DEF Plausible, Restored
  <2>2. Kept(e, t, now)
    BY <1>1, <1>2, <1>3, <1>4, <1>7, <2>1 DEF Kept, Settled
  <2> QED BY <2>2 DEF e, s, t, r
<1> QED BY <1>4, <1>5, <1>6, <1>7

-----------------------------------------------------------------------------
(* What every step does to the slots, the cache and the clock.             *)

\* The deadlines the cache holds before the step are respected by the slots
\* after it; an entry is left alone, forgotten, or saved from its slot.
Guarded ==
  /\ \A p \in Provider : Kept(cache[p], slot'[p], now)
  /\ \A p \in Provider : \/ cache'[p] \in {cache[p], None}
                         \/ cache'[p] = EntryOf(slot'[p])
  /\ now' = now \/ now' = now + 1

LEMMA GuardedKept ==
  ASSUME CacheInv, IndInv', Guarded
  PROVE  CacheInv'
<1> SUFFICES ASSUME NEW p \in Provider
             PROVE  Kept(cache'[p], slot'[p], now')
  BY DEF CacheInv
<1>1. /\ now \in Nat /\ slot'[p] \in Slot
      /\ cache'[p] \in CacheEntry \cup {None}
  BY CacheTypes DEF IndInv, TypeOK
<1>2. Kept(cache[p], slot'[p], now)
  BY DEF Guarded
<1>3. Kept(cache'[p], slot'[p], now)
  <2>1. CASE cache'[p] = cache[p]
    BY <1>2, <2>1
  <2>2. CASE cache'[p] = None
    BY <1>2, <2>2, ForgottenKept
  <2>3. CASE cache'[p] = EntryOf(slot'[p])
    BY <1>1, <1>2, <2>3, SavedKept
  <2> QED BY <2>1, <2>2, <2>3 DEF Guarded
<1>4. CASE now' = now
  BY <1>3, <1>4
<1>5. CASE now' = now + 1
  BY <1>1, <1>3, <1>5, LaterKept
<1> QED BY <1>4, <1>5 DEF Guarded

\* Calm steps of all slots.
LEMMA CalmGuarded ==
  ASSUME CacheInv, \A p \in Provider : Calm(slot[p], slot'[p], now)
  PROVE  \A p \in Provider : Kept(cache[p], slot'[p], now)
BY CacheTypes, CalmKept

LEMMA RestingCalm ==
  ASSUME CacheInv
  PROVE  \A p \in Provider : Calm(slot[p], slot[p], now)
BY CacheTypes, CalmSelf

LEMMA InvalidatedCalm ==
  ASSUME CacheInv, NEW p \in Provider, NEW disabled \in BOOLEAN
  PROVE  LET slots == Invalidated(p, disabled)
         IN  /\ slots \in [Provider -> Slot]
             /\ \A q \in Provider : /\ Sound(slots[q])
                                    /\ Calm(slot[q], slots[q], now)
<1> DEFINE slots == Invalidated(p, disabled)
<1>1. /\ slots \in [Provider -> Slot]
      /\ \A q \in Provider : Sound(slots[q])
      /\ HoldsNothing(slots[p])
      /\ \A q \in Provider \ {p} : slots[q] = slot[q]
  BY InvalidatedSound DEF CacheInv
<1> HIDE DEF slots
<1>2. \A q \in Provider : Calm(slot[q], slots[q], now)
  BY <1>1, EmptyCalm, RestingCalm
<1> QED BY <1>1, <1>2 DEF slots

LEMMA RefreshCalm ==
  ASSUME CacheInv, NEW slots \in [Provider -> Slot],
         \A q \in Provider : Sound(slots[q]) /\ Calm(slot[q], slots[q], now),
         NEW S \in SUBSET Provider, NEW trigger, Refresh(slots, S, trigger)
  PROVE  \A q \in Provider : Calm(slot[q], slot'[q], now)
<1> SUFFICES ASSUME NEW q \in Provider
             PROVE  Calm(slot[q], slot'[q], now)
  OBVIOUS
<1> DEFINE u == Enable(slots[q], TRUE)
<1>1. \/ slot'[q] = Reserve(u, trigger) /\ CanReserve(u, trigger, now)
      \/ slot'[q] = u
      \/ slot'[q] = slots[q]
  BY DEF Refresh
<1>2. Settled(slots[q], now)
  BY DEF Calm
<1>3. Calm(slots[q], u, now) /\ Sound(u)
  BY <1>2, EnableCalm, EnableSound
<1>4. Calm(slot[q], u, now)
  BY <1>3, CalmTwice
<1> HIDE DEF u
<1>5. CanReserve(u, trigger, now) => Calm(u, Reserve(u, trigger), now)
  BY <1>3, ReserveCalm
<1> QED BY <1>1, <1>4, <1>5, CalmTwice

LEMMA PlainRefreshCalm ==
  ASSUME CacheInv, NEW S \in SUBSET Provider, NEW trigger,
         Refresh(slot, S, trigger)
  PROVE  \A q \in Provider : Calm(slot[q], slot'[q], now)
<1>1. slot \in [Provider -> Slot] /\ \A q \in Provider : Sound(slot[q])
  BY BeforeRefresh DEF CacheInv
<1> QED BY <1>1, RestingCalm, RefreshCalm

LEMMA SavedOrNot ==
  ASSUME CacheInv, NEW p \in Provider, NEW entry, SaveCache(p, entry)
  PROVE  /\ \A q \in Provider \ {p} : cache'[q] = cache[q]
         /\ cache'[p] \in {cache[p], entry}
<1>1. cache \in [Provider -> CacheEntry \cup {None}]
  BY DEF CacheInv, IndInv, TypeOK
<1> QED BY <1>1 DEF SaveCache

LEMMA RestGuarded ==
  ASSUME CacheInv, UNCHANGED <<slot, cache>>, now' = now \/ now' = now + 1
  PROVE  Guarded
<1>1. \A p \in Provider : Calm(slot[p], slot'[p], now)
  BY RestingCalm
<1> QED BY <1>1, CalmGuarded DEF Guarded

LEMMA UserGuarded ==
  ASSUME CacheInv, UserStep
  PROVE  Guarded
<1>1. now' = now
  BY DEF UserStep, RefreshAll, OpenFlyout, FinishLogin, SwitchOff, SwitchOn,
         SwitchSource
<1>2. ASSUME \E p \in Provider : SaveCache(p, None) \/ UNCHANGED cache
      PROVE  \A p \in Provider : cache'[p] \in {cache[p], None}
  BY <1>2, SavedOrNot
<1>3. CASE RefreshAll \/ OpenFlyout
  <2>1. PICK S \in SUBSET Provider, trigger \in Trigger : Refresh(slot, S, trigger)
    BY <1>3 DEF RefreshAll, OpenFlyout, RefreshForFlyout, Enabled, Trigger
  <2>2. UNCHANGED cache
    BY <1>3 DEF RefreshAll, OpenFlyout
  <2> QED BY <1>1, <2>1, <2>2, PlainRefreshCalm, CalmGuarded DEF Guarded
<1>4. ASSUME NEW p \in Provider, FinishLogin(p)
      PROVE  Guarded
  <2> DEFINE slots == Invalidated(p, FALSE)
  <2>1. PICK S \in SUBSET Provider : Refresh(slots, S, "Automatic")
    BY <1>4 DEF FinishLogin
  <2>2. /\ slots \in [Provider -> Slot]
        /\ \A q \in Provider : Sound(slots[q]) /\ Calm(slot[q], slots[q], now)
    BY InvalidatedCalm
  <2> HIDE DEF slots
  <2>3. \A q \in Provider : Calm(slot[q], slot'[q], now)
    BY <2>1, <2>2, RefreshCalm
  <2>4. \A q \in Provider : cache'[q] \in {cache[q], None}
    BY <1>2, <1>4 DEF FinishLogin
  <2> QED BY <1>1, <2>3, <2>4, CalmGuarded DEF Guarded
<1>5. ASSUME NEW p \in Provider, SwitchOn(p)
      PROVE  Guarded
  <2>1. Refresh(slot, {p}, "Manual") /\ UNCHANGED cache
    BY <1>5 DEF SwitchOn
  <2>2. \A q \in Provider : Calm(slot[q], slot'[q], now)
    BY <2>1, PlainRefreshCalm
  <2> QED BY <1>1, <2>1, <2>2, CalmGuarded DEF Guarded
<1>6. ASSUME NEW p \in Provider, slot' = Invalidated(p, TRUE), UNCHANGED cache
      PROVE  Guarded
  <2>1. \A q \in Provider : Calm(slot[q], slot'[q], now)
    BY <1>6, InvalidatedCalm
  <2> QED BY <1>1, <1>6, <2>1, CalmGuarded DEF Guarded
<1>7. ASSUME NEW p \in Provider, SwitchOff(p)
      PROVE  Guarded
  BY <1>6, <1>7 DEF SwitchOff
<1>8. ASSUME NEW p \in Provider, SwitchSource(p)
      PROVE  Guarded
  <2>1. CASE ~enabled[p]
    BY <1>6, <1>8, <2>1 DEF SwitchSource
  <2>2. CASE enabled[p]
    <3> DEFINE slots == Invalidated(p, FALSE)
    <3>1. Refresh(slots, {p}, "Manual") /\ SaveCache(p, None)
      BY <1>8, <2>2 DEF SwitchSource
    <3>2. /\ slots \in [Provider -> Slot]
          /\ \A q \in Provider : /\ Sound(slots[q])
                                 /\ Calm(slot[q], slots[q], now)
      BY InvalidatedCalm
    <3> HIDE DEF slots
    <3>3. \A q \in Provider : Calm(slot[q], slot'[q], now)
      BY <3>1, <3>2, RefreshCalm
    <3>4. \A q \in Provider : cache'[q] \in {cache[q], None}
      BY <1>2, <3>1
    <3> QED BY <1>1, <3>3, <3>4, CalmGuarded DEF Guarded
  <2> QED BY <2>1, <2>2
<1> QED BY <1>3, <1>4, <1>5, <1>7, <1>8 DEF UserStep

LEMMA HandlePreparedGuarded ==
  ASSUME CacheInv, HandlePrepared
  PROVE  Guarded
<1> DEFINE e == Head(batch)
           p == e.provider
           chosen(fresh) ==
             Prepared(slot[p], e.prep, e.account, e.source,
                      RestoredFor(p, e.account, e.source, fresh), now).slot
<1>1. TypeOK
  BY DEF CacheInv, IndInv
<1>2. e \in AppEvent /\ e.kind = "Prepared"
  BY <1>1, HandlingType DEF HandlePrepared
<1>3. /\ p \in Provider /\ e.prep \in Preparation /\ e.account \in Account
      /\ e.source \in Source
  BY <1>2 DEF AppEvent, PreparedEvent, PreparationFailedEvent, CompletedEvent
<1>4. PICK fresh \in BOOLEAN :
        slot' = [slot EXCEPT ![p] = IF Matches(slot[p], e.prep)
                                    THEN chosen(fresh) ELSE slot[p]]
  BY DEF HandlePrepared
<1>5. UNCHANGED <<cache, now>>
  BY DEF HandlePrepared
<1>6. /\ \A q \in Provider \ {p} : slot'[q] = slot[q]
      /\ slot'[p] = IF Matches(slot[p], e.prep)
                    THEN chosen(fresh) ELSE slot[p]
  <2> HIDE DEF chosen
  <2> QED BY <1>1, <1>3, <1>4 DEF TypeOK
<1>7. Matches(slot[p], e.prep) => Kept(cache[p], chosen(fresh), now)
  <2>1. Matches(slot[p], e.prep) => slot[p].pending # None
    BY DEF Matches
  <2> HIDE DEF e, p
  <2> QED BY <1>3, <2>1, PreparedKept
<1> HIDE DEF chosen, e, p
<1>8. \A q \in Provider : Kept(cache[q], slot'[q], now)
  BY <1>3, <1>6, <1>7, CacheTypes
<1> QED BY <1>5, <1>8 DEF Guarded

\* What is left to check of a step of one slot.
LEMMA OneSlotGuarded ==
  ASSUME CacheInv, NEW p \in Provider, NEW s, slot' = [slot EXCEPT ![p] = s],
         Calm(slot[p], s, now), now' = now,
         \/ UNCHANGED cache
         \/ SaveCache(p, None)
         \/ SaveCache(p, EntryOf(s))
  PROVE  Guarded
<1>1. /\ \A q \in Provider \ {p} : slot'[q] = slot[q]
      /\ slot'[p] = s
  BY DEF CacheInv, IndInv, TypeOK
<1>2. \A q \in Provider : Calm(slot[q], slot'[q], now)
  BY <1>1, RestingCalm
<1>3. \A q \in Provider : \/ cache'[q] \in {cache[q], None}
                          \/ cache'[q] = EntryOf(slot'[q])
  BY <1>1, SavedOrNot
<1> QED BY <1>2, <1>3, CalmGuarded DEF Guarded

LEMMA HandlePreparationFailedGuarded ==
  ASSUME CacheInv, HandlePreparationFailed
  PROVE  Guarded
<1> DEFINE e == Head(batch)
           p == e.provider
           s == PreparationFailed(slot[p], e.invalidates, now)
<1>1. TypeOK /\ now \in Nat
  BY DEF CacheInv, IndInv, TypeOK
<1>2. e \in AppEvent /\ e.kind = "PreparationFailed"
  BY <1>1, HandlingType DEF HandlePreparationFailed
<1>3. p \in Provider /\ e.invalidates \in BOOLEAN
  BY <1>2 DEF AppEvent, PreparedEvent, PreparationFailedEvent, CompletedEvent
<1>4. now' = now
  BY DEF HandlePreparationFailed
<1>5. CASE ~Matches(slot[p], e.prep)
  BY <1>4, <1>5, RestGuarded DEF HandlePreparationFailed
<1>6. CASE Matches(slot[p], e.prep)
  <2>1. /\ slot' = [slot EXCEPT ![p] = s]
        /\ SaveCache(p, None) \/ UNCHANGED cache
    BY <1>6 DEF HandlePreparationFailed
  <2>2. slot[p].pending # None
    BY <1>6 DEF Matches
  <2> HIDE DEF e, p
  <2>3. Calm(slot[p], s, now)
    BY <1>1, <1>3, <2>2, CacheTypes, PreparationFailedCalm
  <2> HIDE DEF s
  <2> QED BY <1>3, <1>4, <2>1, <2>3, OneSlotGuarded
<1> QED BY <1>5, <1>6

LEMMA HandleCompletedGuarded ==
  ASSUME CacheInv, HandleCompleted
  PROVE  Guarded
<1> DEFINE e == Head(batch)
           p == e.provider
           s == Completed(slot[p], e.ticket, e.result, now)
<1>1. TypeOK /\ now \in Nat
  BY DEF CacheInv, IndInv, TypeOK
<1>2. e \in AppEvent /\ e.kind = "Completed"
  BY <1>1, HandlingType DEF HandleCompleted
<1>3. p \in Provider /\ e.ticket \in Ticket /\ e.result \in Result
  BY <1>2 DEF AppEvent, PreparedEvent, PreparationFailedEvent, CompletedEvent
<1>4. now' = now
  BY DEF HandleCompleted
<1>5. CASE ~Accepts(slot[p], e.ticket, e.result)
  BY <1>4, <1>5, RestGuarded DEF HandleCompleted
<1>6. CASE Accepts(slot[p], e.ticket, e.result)
  <2>1. /\ slot' = [slot EXCEPT ![p] = s]
        /\ SaveCache(p, None) \/ SaveCache(p, EntryOf(s))
    BY <1>6 DEF HandleCompleted
  <2> HIDE DEF e, p
  <2>2. Calm(slot[p], s, now)
    BY <1>1, <1>3, CacheTypes, CompletedCalm
  <2> HIDE DEF s
  <2> QED BY <1>3, <1>4, <2>1, <2>2, OneSlotGuarded
<1> QED BY <1>5, <1>6

LEMMA SendReplyGuarded ==
  ASSUME CacheInv, SendReply
  PROVE  Guarded
<1> DEFINE p == ui.reply.provider
           t == ui.reply.ticket
           s == Completed(slot[p], t, Abandoned, now)
<1>1. TypeOK /\ now \in Nat
  BY DEF CacheInv, IndInv, TypeOK
<1>2. p \in Provider /\ t \in Ticket \cup {None}
  BY <1>1 DEF SendReply, TypeOK, Ui, Reply
<1>3. UNCHANGED <<cache, now>>
  BY DEF SendReply
<1>4. UNCHANGED slot \/ (t # None /\ slot' = [slot EXCEPT ![p] = s])
  BY DEF SendReply, Unanswered
<1>5. Abandoned \in Result
  BY DEF Abandoned, Result, Failure
<1> HIDE DEF p, t
<1>6. t # None => Calm(slot[p], s, now)
  BY <1>1, <1>2, <1>5, CacheTypes, CompletedCalm
<1> HIDE DEF s
<1> QED BY <1>2, <1>3, <1>4, <1>6, RestGuarded, OneSlotGuarded

LEMMA NextGuarded ==
  ASSUME CacheInv, [Next]_vars
  PROVE  Guarded
<1>1. CASE \E p \in Provider, o \in Operation : WorkerStep(p, o)
  <2>1. UNCHANGED <<slot, cache, now>>
    BY <1>1 DEF WorkerStep, WorkerPrepares, WorkerFailsToPrepare,
                WorkerReceives, WorkerTimesOut, WorkerHangsUp, WorkerCompletes
  <2> QED BY <2>1, RestGuarded
<1>2. CASE WakeUp \/ PollTimer \/ TimePasses \/ UNCHANGED vars
  <2>1. UNCHANGED <<slot, cache>> /\ (now' = now \/ now' = now + 1)
    BY <1>2 DEF WakeUp, PollTimer, TimePasses, vars
  <2> QED BY <2>1, RestGuarded
<1>3. CASE EndDataReady \/ EndPoll
  <2>1. UNCHANGED <<cache, now>>
    BY <1>3 DEF EndDataReady, EndPoll
  <2>2. CASE UNCHANGED slot
    BY <2>1, <2>2, RestGuarded
  <2>3. CASE \E S \in SUBSET Provider, trigger \in Trigger : Refresh(slot, S, trigger)
    BY <2>1, <2>3, PlainRefreshCalm, CalmGuarded DEF Guarded
  <2> QED BY <1>3, <2>2, <2>3
          DEF EndDataReady, EndPoll, RefreshForFlyout, Enabled, Trigger
<1>4. CASE Restart
  <2>1. \A p \in Provider : Calm(slot[p], slot'[p], now)
    BY <1>4, FreshMemory, EmptyCalm DEF Restart
  <2> QED BY <1>4, <2>1, CalmGuarded DEF Restart, Guarded
<1> QED BY <1>1, <1>2, <1>3, <1>4, UserGuarded, HandlePreparedGuarded,
           HandlePreparationFailedGuarded, HandleCompletedGuarded,
           SendReplyGuarded DEF Next, DrainStep

-----------------------------------------------------------------------------
(* The theorems.                                                           *)

LEMMA CacheInit == Init => CacheInv
<1>1. Init => \A p \in Provider : Kept(cache[p], slot[p], now)
  BY DEF Init, NewSlots, NewSlot, Kept, Holds, Settled
<1> QED BY <1>1, InitInd DEF CacheInv

\* Every entry and slot agree as far as they can.
THEOREM Agreement == Spec => []CacheInv
<1>1. CacheInv /\ [Next]_vars => CacheInv'
  BY NextInd, NextGuarded, GuardedKept DEF CacheInv
<1> QED BY <1>1, CacheInit, PTL DEF Spec

\* An account known by a process-only fingerprint never reaches the disk.
THEOREM NothingPrivateOnDisk == Spec => []MemoryOnlyStaysInMemory
<1>1. CacheInv => MemoryOnlyStaysInMemory
  BY DEF CacheInv, Kept, MemoryOnlyStaysInMemory
<1> QED BY <1>1, Agreement, PTL

\* No request starts while state.json still holds an unexpired 429 deadline
\* for its account and source: a cool-down survives restarts, failed writes,
\* sign-outs and toggles.
THEOREM NoFastRetry == Spec => DurableCooldown
<1> DEFINE Waits == \A p \in Provider : Starts(p) =>
             ~ /\ cache[p] # None
               /\ cache[p].account = slot'[p].account
               /\ cache[p].source = slot'[p].source
               /\ cache[p].retryAt # None
               /\ cache[p].retryAt > now
<1>1. CacheInv /\ [Next]_vars => [Waits]_vars
  <2> SUFFICES ASSUME CacheInv, [Next]_vars, NEW p \in Provider, Starts(p)
               PROVE  ~ /\ cache[p] # None
                        /\ cache[p].account = slot'[p].account
                        /\ cache[p].source = slot'[p].source
                        /\ cache[p].retryAt # None
                        /\ cache[p].retryAt > now
    OBVIOUS
  <2>1. Kept(cache[p], slot'[p], now)
    BY NextGuarded DEF Guarded
  <2> QED BY <2>1 DEF Kept, Holds, Starts
<1>2. DurableCooldown <=> [][Waits]_vars
  BY DEF DurableCooldown
<1> HIDE DEF Waits
<1> QED BY <1>1, <1>2, Agreement, PTL DEF Spec

-----------------------------------------------------------------------------
(***************************************************************************)
(* How requests of one session are spaced, for the timed specification of  *)
(* PollSpacing.                                                            *)
(*                                                                         *)
(* A completion is remembered by the slot as its last attempt, for as long *)
(* as the session lasts: whatever forgets the attempt also begins a new    *)
(* generation, and whatever leaves the generation alone leaves the account *)
(* and the source alone.  The distance is the one the trigger asks for     *)
(* because the preparation that is decided on is the pending one, trigger  *)
(* and all: nobody else holds its number.                                  *)
(***************************************************************************)

\* Only a slot that has adopted an account has one.
Bound(s) == s.account # None => s.generation > 0

\* The step of a slot accepts a completion.
Concluding(s, t) ==
  /\ s.phase = "Fetching"
  /\ \/ t.phase \in {"Ready", "Backoff", "Failed"}
     \/ t.phase = "Unavailable" /\ t.error = s.account

\* What a step does to the session of a slot: a request that starts within it
\* keeps its distance from the last attempt, and the last attempt is forgotten
\* with the session only.
Paces(s, t, time) ==
  /\ /\ s.phase # "Fetching" /\ t.phase = "Fetching"
     /\ t.account = s.account /\ t.source = s.source
     /\ s.lastAttempt # None
     => time - s.lastAttempt >= Spacing(s.pending.trigger)
  /\ Bound(t)
  /\ \/ /\ t.generation # s.generation
        /\ Concluding(s, t) => t.phase = "Unavailable"
     \/ /\ t.generation = s.generation
        /\ t.account = s.account
        /\ s.account # None => /\ t.source = s.source
                               /\ t.lastAttempt \in {s.lastAttempt, time}
        /\ Concluding(s, t) => t.lastAttempt = time /\ t.phase # "Unavailable"

\* The slot is left alone.
Untouched(s, t) ==
  /\ t.phase = s.phase /\ t.account = s.account /\ t.source = s.source
  /\ t.generation = s.generation /\ t.lastAttempt = s.lastAttempt
  /\ t.error \in {None, s.error}

\* The slot is emptied: its session is over.
Empties(s, t) ==
  /\ t.generation > s.generation
  /\ t.account = None
  /\ t.phase \in {"Unavailable", "Disabled"}
  /\ t.error = None \/ (t.error = s.error /\ s.phase = "Disabled")

\* What refreshes and invalidations do.
Moves(s, t) == Untouched(s, t) \/ Empties(s, t)

\* A slot that moves twice has moved.
LEMMA MovesTwice ==
  ASSUME NEW s \in Slot, NEW u \in Slot, NEW t \in Slot, Moves(s, u), Moves(u, t)
  PROVE  Moves(s, t)
<1>1. s.generation \in Nat /\ u.generation \in Nat /\ t.generation \in Nat
  BY DEF Slot
<1> QED BY <1>1 DEF Moves, Untouched, Empties

\* A slot that moves starts nothing and concludes nothing.
LEMMA MovesPaces ==
  ASSUME NEW s, Sound(s), Bound(s), NEW t \in Slot, Moves(s, t), NEW time
  PROVE  Paces(s, t, time)
<1>1. s.generation \in Nat /\ t.generation \in Nat /\ (s.phase = "Fetching" => s.account # None)
  BY DEF Sound, Slot, OneActivity
<1> QED BY <1>1 DEF Moves, Untouched, Empties, Paces, Bound, Concluding

\* Switching on, invalidating and reserving move a slot.
LEMMA EnableMoves ==
  ASSUME NEW s \in Slot
  PROVE  Moves(s, Enable(s, TRUE))
<1>1. CASE s.phase # "Disabled"
  BY <1>1 DEF Enable, Moves, Untouched
<1>2. CASE s.phase = "Disabled"
  BY <1>2 DEF Slot, Enable, Enter, ClearAccount, Moves, Empties
<1> QED BY <1>1, <1>2

\* Invalidating moves a slot.
LEMMA InvalidateMoves ==
  ASSUME NEW s \in Slot, Sound(s), NEW disabled \in BOOLEAN
  PROVE  Moves(s, Invalidate(s, disabled))
BY DEF Slot, Invalidate, Enable, BecomeUnavailable, Enter, ClearAccount, Moves, Untouched, Empties

\* Reserving an operation moves a slot.
LEMMA ReserveMoves ==
  ASSUME NEW s \in Slot, NEW trigger
  PROVE  Moves(s, Reserve(s, trigger))
BY DEF Slot, Reserve, Moves, Untouched

\* A failed preparation.
LEMMA PreparationFailedPaces ==
  ASSUME NEW s, Sound(s), Bound(s), s.pending # None, NEW invalidates \in BOOLEAN, NEW time \in Nat
  PROVE  Paces(s, PreparationFailed(s, invalidates, time), time)
<1> DEFINE x == [s EXCEPT !.pending = None, !.error = "Local"]
           t == PreparationFailed(s, invalidates, time)
<1>1. s \in Slot /\ s.generation \in Nat /\ s.phase \notin {"Fetching", "Disabled"}
  BY DEF Sound, Slot, OneActivity
<1>2. CASE invalidates
  <2>1. t = [Enter(ClearAccount(x), "Unavailable") EXCEPT !.lastAttempt = time]
    BY <1>1, <1>2 DEF PreparationFailed, FailPreparation, Slot
  <2>2. t.generation = s.generation + 1 /\ t.account = None /\ t.phase = "Unavailable"
    BY <1>1, <2>1 DEF Slot, Enter, ClearAccount
  <2> QED BY <1>1, <2>2 DEF Paces, Bound, Concluding
<1>3. CASE ~invalidates
  <2>1. t = [Enter(x, "Failed") EXCEPT !.streak = 0, !.lastAttempt = time]
    BY <1>1, <1>3 DEF PreparationFailed, FailPreparation, Slot
  <2>2. /\ t.generation = s.generation /\ t.account = s.account /\ t.source = s.source
        /\ t.phase = "Failed" /\ t.lastAttempt = time
    BY <1>1, <2>1 DEF Slot, Enter
  <2> QED BY <1>1, <2>2 DEF Paces, Bound, Concluding
<1> QED BY <1>2, <1>3

\* A completion.
LEMMA CompletedPaces ==
  ASSUME NEW s, Sound(s), Bound(s), NEW ticket \in Ticket, NEW result \in Result, NEW time \in Nat
  PROVE  Paces(s, Completed(s, ticket, result, time), time)
<1> DEFINE x == [s EXCEPT !.lastAttempt = time]
           r == Complete(s, ticket, result, time)
           e == IF result.kind = "Success" THEN None ELSE ticket.account
           t == Completed(s, ticket, result, time)
<1> SUFFICES Paces(s, t, time)
  OBVIOUS
<1>0. s \in Slot /\ s.generation \in Nat
  BY DEF Sound, Slot
<1>1. CASE ~Accepts(s, ticket, result)
  <2>1. t = s
    BY <1>1 DEF Completed
  <2>2. Moves(s, s)
    BY DEF Moves, Untouched
  <2> HIDE DEF t
  <2> QED BY <1>0, <2>1, <2>2, MovesPaces
<1>2. CASE Accepts(s, ticket, result)
  <2>0. s.phase = "Fetching" /\ s.account # None
    BY <1>2 DEF Accepts, Live, Sound, OneActivity
  <2>1. /\ x \in Slot /\ x.generation = s.generation /\ x.account = s.account
        /\ x.source = s.source /\ x.lastAttempt = time
    BY <1>0 DEF Slot
  <2>2. t = [r EXCEPT !.error = e]
    BY <1>2 DEF Completed
  <2>3. \/ r = [Enter(x, "Ready") EXCEPT !.snapshot = result.snapshot,
                                           !.cached = FALSE, !.streak = 0]
        \/ r = Enter(ClearAccount(x), "Unavailable")
        \/ r = [Enter(x, "Backoff") EXCEPT
                  !.streak = @ + 1,
                  !.until = time + RateLimitDelay(result.retryAfter,
                                                 s.streak + 1)]
        \/ r = [Enter(x, "Failed") EXCEPT !.streak = 0]
    BY <1>2 DEF Complete, Result, Failure
  <2> HIDE DEF x, r, e
  <2>4. \/ /\ r.generation = s.generation /\ r.account = s.account /\ r.source = s.source
           /\ r.lastAttempt = time /\ r.phase \in {"Ready", "Backoff", "Failed"}
        \/ r.generation = s.generation + 1 /\ r.account = None /\ r.phase = "Unavailable"
    <3>1. CASE r = Enter(ClearAccount(x), "Unavailable")
      BY <1>0, <2>1, <3>1 DEF Slot, Enter, ClearAccount
    <3>2. CASE r # Enter(ClearAccount(x), "Unavailable")
      <4>1. r.phase \in {"Ready", "Backoff", "Failed"}
        BY <2>1, <2>3, <3>2 DEF Slot, Enter
      <4>2. /\ r.generation = x.generation /\ r.account = x.account /\ r.source = x.source
            /\ r.lastAttempt = x.lastAttempt
        BY <2>1, <2>3, <3>2 DEF Slot, Enter
      <4> QED BY <2>1, <4>1, <4>2
    <3> QED BY <3>1, <3>2
  <2>5. /\ t.generation = r.generation /\ t.account = r.account /\ t.source = r.source
        /\ t.lastAttempt = r.lastAttempt /\ t.phase = r.phase
    BY <2>2, <2>3, <2>1 DEF Slot, Enter, ClearAccount
  <2> HIDE DEF t
  <2> QED BY <1>0, <2>0, <2>4, <2>5 DEF Paces, Bound, Concluding
<1> QED BY <1>1, <1>2

\* A decision: only one that leaves the session as it is can resume it.
LEMMA PreparedPaces ==
  ASSUME NEW s, Sound(s), Bound(s), s.pending # None, NEW prep \in Preparation,
         prep.trigger = s.pending.trigger,
         NEW account \in Account, NEW source \in Source, NEW restored \in Restored, NEW time \in Nat
  PROVE  Paces(s, Prepared(s, prep, account, source, restored, time).slot, time)
<1> DEFINE x == SelectSource(s, source)
           t == AdoptAccount(x, account, restored, time)
           u == StartFetch(t, time)
           r == Prepared(s, prep, account, source, restored, time).slot
<1> SUFFICES Paces(s, r, time)
  OBVIOUS
<1>0. /\ s \in Slot /\ s.generation \in Nat /\ s.phase \notin {"Fetching", "Disabled"}
      /\ account # None
  BY ProviderStateAssumption DEF Sound, Slot, OneActivity
<1>1. /\ Sound(x) /\ x \in Slot /\ x.generation \in Nat
      /\ x.phase \notin {"Fetching", "Disabled"}
      /\ \/ x.generation = s.generation /\ x.account = s.account
         \/ x.generation = s.generation + 1
      /\ s.source = source => x = s
      /\ s.source # source => x.account = None /\ x.generation = s.generation + 1
  <2>1. s.source # source => x.generation = s.generation + 1
    BY <1>0 DEF Slot, SelectSource, BecomeUnavailable, Enter, ClearAccount
  <2>2. Sound(x) /\ x.phase \notin {"Fetching", "Disabled"}
        /\ \/ x.generation = s.generation /\ x.account = s.account
           \/ x.generation = s.generation + 1
    BY SelectSourceSound
  <2>3. (s.source = source => x = s) /\ (s.source # source => x.account = None)
    BY <1>0, SelectSourceFrame
  <2> HIDE DEF x
  <2> QED BY <2>1, <2>2, <2>3 DEF Sound, Slot
<1>2. s.source # source => t.generation # s.generation
  <2> HIDE DEF x
  <2>1. /\ t.account = account
        /\ \/ t.generation = x.generation /\ x.account = account
           \/ t.generation = x.generation + 1
    BY <1>1, AdoptAccountSound
  <2> HIDE DEF t
  <2> QED BY <1>0, <1>1, <2>1
<1>3. CASE s.source = source /\ s.account = account
  <2>1. t = [s EXCEPT !.pending = None]
    BY <1>1, <1>3 DEF AdoptAccount
  <2>2. /\ t.generation = s.generation /\ t.account = s.account /\ t.source = s.source
        /\ t.lastAttempt = s.lastAttempt /\ t.phase = s.phase /\ t.error = s.error
    BY <1>0, <2>1 DEF Slot
  <2>3. CASE CanStart(t, prep.trigger, time)
    <3>1. r = u
      BY <2>3 DEF Prepared
    <3>2. /\ u.generation = s.generation /\ u.account = s.account /\ u.source = s.source
          /\ u.lastAttempt = time
      <4>1. t \in Slot
        BY <1>0, <2>1 DEF Slot
      <4> HIDE DEF t
      <4> QED BY <2>2, <4>1 DEF Slot, StartFetch
    <3>3. s.lastAttempt # None => time - s.lastAttempt >= Spacing(s.pending.trigger)
      BY <2>2, <2>3 DEF CanStart, GateReady
    <3> HIDE DEF u, r
    <3> QED BY <1>0, <3>1, <3>2, <3>3 DEF Paces, Bound, Concluding
  <2>4. CASE ~CanStart(t, prep.trigger, time)
    <3>1. r = t
      BY <2>4 DEF Prepared
    <3> HIDE DEF t, r
    <3> QED BY <1>0, <2>2, <3>1 DEF Paces, Bound, Concluding
  <2> QED BY <2>3, <2>4
<1>4. CASE ~ (s.source = source /\ s.account = account)
  <2>1. t.generation > s.generation
    <3> HIDE DEF x
    <3>1. /\ t.account = account
          /\ \/ t.generation = x.generation /\ x.account = account
             \/ t.generation = x.generation + 1
      BY <1>1, AdoptAccountSound
    <3> HIDE DEF t
    <3> QED BY <1>0, <1>1, <1>4, <3>1
  <2>2. Sound(t)
    <3> HIDE DEF x
    <3> QED BY <1>1, AdoptAccountSound
  <2>3. r.generation = t.generation
    <3>1. r = u \/ r = t
      BY DEF Prepared
    <3> HIDE DEF t
    <3>2. u.generation = t.generation
      BY <2>2 DEF Sound, Slot, StartFetch
    <3> HIDE DEF u, r
    <3> QED BY <3>1, <3>2
  <2>4. r.account = account /\ r.source = source
    BY PreparedSound, PreparedStarts
  <2>5. t.generation \in Nat
    BY <2>2 DEF Sound, Slot
  <2> HIDE DEF r, t, x
  <2> QED BY <1>0, <1>4, <2>1, <2>3, <2>4, <2>5 DEF Paces, Bound, Concluding
<1> QED BY <1>3, <1>4

-----------------------------------------------------------------------------
(* Whoever holds the number of the pending preparation holds all of it.    *)

\* The pending preparation and those its workers W and the events E carry.
HeldIn(p, W, E) ==
  {W[o].prep : o \in {x \in Operation : W[x].stage = "preparing"}}
  \cup {E[i].prep : i \in {j \in DOMAIN E : Asks(E[j], p)}}

\* A preparation that has the number of the pending one is the pending one.
AgreesWith(s, H) == \A q \in H : s.pending # None /\ q.operation = s.pending.operation => q = s.pending

\* So it is with all that workers and events hold.
HeldInv == \A p \in Provider : AgreesWith(slot[p], HeldIn(p, worker[p], Events))

\* A step that starts nothing, when nobody holds anything new.
LEMMA QuietAgrees ==
  ASSUME NEW s, NEW t, NEW H, NEW I, AgreesWith(s, H), Quiet(s, t), I \subseteq H
  PROVE  AgreesWith(t, I)
BY DEF AgreesWith, Quiet

\* A worker that moves on holds at most the preparation it held.
LEMMA WorkerHeld ==
  ASSUME NEW p, NEW W, DOMAIN W = Operation, NEW E, NEW o \in Operation, NEW x, x.stage # "preparing"
  PROVE  HeldIn(p, [W EXCEPT ![o] = x], E) \subseteq HeldIn(p, W, E)
BY DEF HeldIn

\* An event that is taken is held no more.
LEMMA TailHeld ==
  ASSUME NEW p, NEW W, NEW E \in Seq(AppEvent), E # <<>>
  PROVE  HeldIn(p, W, Tail(E)) \subseteq HeldIn(p, W, E)
<1>1. \A i \in DOMAIN Tail(E) : i + 1 \in DOMAIN E /\ Tail(E)[i] = E[i + 1]
  BY TailEvents
<1> QED BY <1>1 DEF HeldIn

\* An event that is published holds its preparation.
LEMMA AppendHeld ==
  ASSUME NEW p, NEW W, NEW E \in Seq(AppEvent), NEW e \in AppEvent
  PROVE  HeldIn(p, W, Append(E, e)) \subseteq HeldIn(p, W, E) \cup (IF Asks(e, p) THEN {e.prep} ELSE {})
BY AppendEvents DEF HeldIn

\* No step makes a second preparation of one number.
LEMMA FlightStepAgrees ==
  ASSUME FlightInv, NEW p \in Provider, FlightStep(p),
         AgreesWith(slot[p], HeldIn(p, worker[p], Events))
  PROVE  AgreesWith(slot'[p], HeldIn(p, worker'[p], Events'))
<1> DEFINE W == worker[p]
           E == Events
           s == slot[p]
           t == slot'[p]
           H == HeldIn(p, W, E)
           I == HeldIn(p, worker'[p], Events')
<1>1. W \in [Operation -> Worker] /\ E \in Seq(AppEvent) /\ DOMAIN W = Operation
  BY FlightTypes
<1>2. Quiet(s, s) /\ AgreesWith(s, H)
  BY QuietSelf
<1>3. CASE Rests(p)
  BY <1>2, <1>3, QuietAgrees DEF Rests
<1>4. CASE Spawns(p)
  <2>1. PICK n \in Operation :
          /\ n = s.nextOperation /\ t.pending.operation = n /\ t.pending # None
          /\ worker'[p] = [W EXCEPT ![n] = [NoWorker EXCEPT !.stage = "preparing",
                                                        !.prep = t.pending]]
          /\ Events' = E
    BY <1>4, ProviderSlotAssumption DEF Spawns, Quiet
  <2>2. worker'[p][n].prep = t.pending /\ \A o \in Operation \ {n} : worker'[p][o] = W[o]
    BY <1>1, <2>1 DEF NoWorker
  <2>3. I \subseteq H \cup {t.pending}
    BY <1>1, <2>1, <2>2 DEF HeldIn
  <2>4. ASSUME NEW q \in H PROVE q.operation # n
    <3>1. Numbered(p, W, E, ui.reply, s) /\ s.nextOperation \in Nat
      BY FlightTypes DEF Slot
    <3>2. q.operation \in Operation /\ q.operation < s.nextOperation
      <4>1. CASE \E o \in Operation : W[o].stage = "preparing" /\ q = W[o].prep
        BY <3>1, <4>1 DEF Numbered, WorkersNumbered
      <4>2. CASE \E j \in DOMAIN E : Asks(E[j], p) /\ q = E[j].prep
        BY <3>1, <4>2 DEF Numbered, AsksNumbered
      <4> QED BY <4>1, <4>2 DEF HeldIn
    <3> QED BY <2>1, <3>1, <3>2 DEF Operation
  <2> HIDE DEF H, I, W, E, s, t
  <2> QED BY <2>1, <2>3, <2>4 DEF AgreesWith, I, t
<1>5. CASE MovesOn(p)
  <2>1. PICK o \in Operation, x \in Worker :
          /\ worker'[p] = [W EXCEPT ![o] = x]
          /\ \/ x = NoWorker
             \/ x = [W[o] EXCEPT !.stage = "executing"]
             \/ x = [W[o] EXCEPT !.stage = "expired"]
    BY <1>5 DEF MovesOn
  <2>4. x.stage # "preparing"
    BY <1>1, <2>1 DEF NoWorker, Worker
  <2>2. Events' = E /\ t = s
    BY <1>5 DEF MovesOn
  <2>3. I \subseteq H
    BY <1>1, <2>1, <2>2, <2>4, WorkerHeld
  <2> HIDE DEF H, I, W, E, s, t
  <2> QED BY <1>2, <2>2, <2>3, QuietAgrees DEF I, t
<1>6. CASE Reports(p)
  <2>1. PICK o \in Operation, x \in Worker, e \in AppEvent :
          /\ W[o].stage = "preparing"
          /\ worker'[p] = [W EXCEPT ![o] = x]
          /\ Events' = Append(E, e)
          /\ x.stage # "preparing"
          /\ e.prep = W[o].prep
    BY <1>6 DEF Reports
  <2>2. e.prep \in H /\ t = s
    BY <1>6, <2>1 DEF HeldIn, Reports
  <2>3. I \subseteq HeldIn(p, W, Append(E, e))
    BY <1>1, <2>1, WorkerHeld
  <2>4. HeldIn(p, W, Append(E, e)) \subseteq H \cup {e.prep}
    BY <1>1, <2>1, AppendHeld
  <2> HIDE DEF H, I, W, E, s, t
  <2> QED BY <1>2, <2>2, <2>3, <2>4, QuietAgrees DEF I, t
<1>7. CASE Finishes(p)
  <2>1. PICK o \in Operation, e \in AppEvent :
          /\ worker'[p] = [W EXCEPT ![o] = NoWorker]
          /\ Events' = Append(E, e)
          /\ ~ Asks(e, p)
    BY <1>7 DEF Finishes, Answers, Asks
  <2>2. I \subseteq HeldIn(p, W, Append(E, e))
    BY <1>1, <2>1, WorkerHeld DEF NoWorker
  <2>3. HeldIn(p, W, Append(E, e)) \subseteq H
    BY <1>1, <2>1, AppendHeld
  <2>4. t = s
    BY <1>7 DEF Finishes
  <2> HIDE DEF H, I, W, E, s, t
  <2> QED BY <1>2, <2>2, <2>3, <2>4, QuietAgrees DEF I, t
<1>8. CASE Elsewhere(p)
  <2>0. t = s /\ worker'[p] = W
    BY <1>8 DEF Elsewhere
  <2>1. I \subseteq H
    <3>1. CASE \E e \in AppEvent : e.provider # p /\ Events' = Append(Events, e)
      <4>1. PICK e \in AppEvent : e.provider # p /\ Events' = Append(E, e)
        BY <3>1
      <4>2. ~ Asks(e, p)
        BY <4>1 DEF Asks
      <4> QED BY <1>1, <2>0, <4>1, <4>2, AppendHeld
    <3>2. CASE Events # <<>> /\ Events' = Tail(Events)
      BY <1>1, <2>0, <3>2, TailHeld
    <3>3. CASE Events' = Events
      BY <2>0, <3>3
    <3> QED BY <1>8, <3>1, <3>2, <3>3 DEF Elsewhere
  <2> HIDE DEF H, I, W, E, s, t
  <2> QED BY <1>2, <2>0, <2>1, QuietAgrees DEF I, t
<1>9. CASE Decides(p) \/ GivesUp(p) \/ Concludes(p)
  <2>1. /\ E # <<>> /\ Events' = Tail(E) /\ worker'[p] = W
        /\ t.pending = None \/ t = s \/ Quiet(s, t)
    BY <1>9 DEF Decides, GivesUp, Concludes, Takes
  <2>2. I \subseteq H
    BY <1>1, <2>1, TailHeld
  <2>3. CASE t.pending = None
    BY <2>3 DEF AgreesWith
  <2>4. CASE t = s \/ Quiet(s, t)
    <3> HIDE DEF H, I, W, E, s, t
    <3> QED BY <1>2, <2>2, <2>4, QuietAgrees DEF I, t
  <2> QED BY <2>1, <2>3, <2>4
<1>10. CASE Replies(p)
  <2>1. Events' = E /\ (Quiet(s, t) \/ t = s)
    BY <1>10 DEF Replies
  <2> DEFINE o == ui.reply.operation
             x == [W[o] EXCEPT !.stage = IF ui.reply.ticket = None
                                         THEN "refused" ELSE "granted",
                               !.ticket = ui.reply.ticket]
  <2>2. /\ o \in Operation
        /\ \/ worker'[p] = W
           \/ worker'[p] = [W EXCEPT ![o] = x]
    BY <1>10 DEF Replies
  <2>3. x.stage # "preparing"
    BY <1>1, <2>2 DEF Worker
  <2>4. I \subseteq H
    <3> HIDE DEF W, E, x, o
    <3> QED BY <1>1, <2>1, <2>2, <2>3, WorkerHeld
  <2> HIDE DEF H, I, W, E, s, t
  <2> QED BY <1>2, <2>1, <2>4, QuietAgrees DEF I, t
<1>11. CASE Restarts(p)
  BY <1>11 DEF Restarts, HoldsNothing, AgreesWith
<1> QED BY <1>3, <1>4, <1>5, <1>6, <1>7, <1>8, <1>9, <1>10, <1>11
        DEF FlightStep

-----------------------------------------------------------------------------
(* What every step does to the sessions.                                   *)

\* A completion that is not rejected leaves its session in the slot, which has
\* not been tried before it since.
Recorded(e, s, time) ==
  e # None => /\ e.at <= time
              /\ ~ e.rejected => /\ s.account = e.account /\ s.account # None
                                 /\ s.source = e.source
                                 /\ s.lastAttempt # None
                                 /\ e.at <= s.lastAttempt

\* The inductive invariant.
SpaceInv ==
  /\ FlightInv
  /\ HeldInv
  /\ ended \in [Provider -> Ending \cup {None}]
  /\ \A p \in Provider : Bound(slot[p]) /\ Recorded(ended[p], slot[p], now)

\* What a step is to the sessions.
Spaced ==
  /\ \A p \in Provider : Paces(slot[p], slot'[p], now)
  /\ now' = now \/ now' = now + 1

\* What the lemmas about one provider rest on.
LEMMA SpaceTypes ==
  ASSUME SpaceInv, NEW p \in Provider
  PROVE  /\ TypeOK /\ now \in Nat /\ slot[p] \in Slot /\ Sound(slot[p]) /\ Bound(slot[p])
         /\ slot \in [Provider -> Slot]
BY FlightTypes DEF SpaceInv, FlightInv, IndInv, TypeOK

\* Steps that only move the slots.
LEMMA MovesSpaced ==
  ASSUME SpaceInv, slot' \in [Provider -> Slot], \A p \in Provider : Moves(slot[p], slot'[p]), now' = now \/ now' = now + 1
  PROVE  Spaced
BY SpaceTypes, MovesPaces DEF Spaced

\* Steps that leave the slots alone.
LEMMA RestSpaced ==
  ASSUME SpaceInv, UNCHANGED slot, now' = now \/ now' = now + 1
  PROVE  Spaced
<1>1. \A p \in Provider : Moves(slot[p], slot[p])
  BY DEF Moves, Untouched
<1>2. slot' \in [Provider -> Slot]
  BY DEF SpaceInv, FlightInv, IndInv, TypeOK
<1> QED BY <1>1, <1>2, MovesSpaced

\* A refresh of slots that have moved.
LEMMA RefreshMoves ==
  ASSUME SpaceInv, slot' \in [Provider -> Slot], NEW slots \in [Provider -> Slot],
         \A q \in Provider : Sound(slots[q]) /\ Moves(slot[q], slots[q]),
         NEW S \in SUBSET Provider, NEW trigger, Refresh(slots, S, trigger)
  PROVE  \A q \in Provider : Moves(slot[q], slot'[q])
<1> SUFFICES ASSUME NEW q \in Provider
             PROVE  Moves(slot[q], slot'[q])
  OBVIOUS
<1> DEFINE u == Enable(slots[q], TRUE)
<1>1. slot'[q] \in {Reserve(u, trigger), u, slots[q]}
  BY DEF Refresh
<1>2. slot[q] \in Slot /\ slots[q] \in Slot /\ slot'[q] \in Slot
  BY SpaceTypes
<1>3. Moves(slots[q], u) /\ u \in Slot
  BY <1>2, EnableMoves, EnableSound DEF Sound
<1>4. Moves(slot[q], u)
  BY <1>2, <1>3, MovesTwice
<1> HIDE DEF u
<1>5. Moves(u, Reserve(u, trigger))
  BY <1>3, ReserveMoves
<1>6. CASE slot'[q] = Reserve(u, trigger)
  BY <1>2, <1>3, <1>4, <1>5, <1>6, MovesTwice
<1> QED BY <1>1, <1>4, <1>6

\* The slots after an invalidation have moved.
LEMMA InvalidatedMoves ==
  ASSUME SpaceInv, NEW p \in Provider, NEW disabled \in BOOLEAN
  PROVE  LET slots == Invalidated(p, disabled)
         IN  /\ slots \in [Provider -> Slot]
             /\ \A q \in Provider : Sound(slots[q]) /\ Moves(slot[q], slots[q])
<1> DEFINE slots == Invalidated(p, disabled)
<1>1. /\ slots \in [Provider -> Slot]
      /\ \A q \in Provider : Sound(slots[q])
      /\ \A q \in Provider \ {p} : slots[q] = slot[q]
  BY InvalidatedSound DEF SpaceInv, FlightInv
<1>2. slots[p] = Invalidate(slot[p], disabled)
  BY SpaceTypes DEF Invalidated
<1> HIDE DEF slots
<1>3. \A q \in Provider : Moves(slot[q], slot[q])
  BY DEF Moves, Untouched
<1>4. Moves(slot[p], slots[p])
  BY <1>2, SpaceTypes, InvalidateMoves
<1> QED BY <1>1, <1>3, <1>4 DEF slots

\* A slot that is left alone has moved.
LEMMA OwnMoves ==
  ASSUME SpaceInv
  PROVE  slot \in [Provider -> Slot] /\ \A q \in Provider : Sound(slot[q]) /\ Moves(slot[q], slot[q])
<1>1. slot \in [Provider -> Slot]
  BY DEF SpaceInv, FlightInv, IndInv, TypeOK
<1>2. \A q \in Provider : Moves(slot[q], slot[q])
  BY DEF Moves, Untouched
<1> QED BY <1>1, <1>2, SpaceTypes

\* The steps of the user.
LEMMA UserSpaced ==
  ASSUME SpaceInv, slot' \in [Provider -> Slot], UserStep
  PROVE  Spaced
<1>1. now' = now
  BY DEF UserStep, RefreshAll, OpenFlyout, FinishLogin, SwitchOff, SwitchOn,
         SwitchSource
<1>2. CASE \E S \in SUBSET Provider, trigger \in Trigger : Refresh(slot, S, trigger)
  BY <1>1, <1>2, OwnMoves, RefreshMoves, MovesSpaced
<1>3. ASSUME NEW p \in Provider, NEW S \in SUBSET Provider, NEW trigger, NEW disabled \in BOOLEAN,
             \/ Refresh(Invalidated(p, disabled), S, trigger)
             \/ slot' = Invalidated(p, disabled)
      PROVE  Spaced
  <2> DEFINE slots == Invalidated(p, disabled)
  <2>1. /\ slots \in [Provider -> Slot]
        /\ \A q \in Provider : Sound(slots[q]) /\ Moves(slot[q], slots[q])
    BY InvalidatedMoves
  <2>2. Refresh(slots, S, trigger) \/ slot' = slots
    BY <1>3
  <2> HIDE DEF slots
  <2>3. \A q \in Provider : Moves(slot[q], slot'[q])
    BY <2>1, <2>2, RefreshMoves
  <2> QED BY <1>1, <2>3, MovesSpaced
<1>4. CASE RefreshAll \/ OpenFlyout \/ \E p \in Provider : SwitchOn(p)
  BY <1>2, <1>4 DEF RefreshAll, OpenFlyout, RefreshForFlyout, Enabled, Trigger, SwitchOn
<1>5. ASSUME NEW p \in Provider, FinishLogin(p) \/ SwitchOff(p) \/ SwitchSource(p) PROVE Spaced
  <2>1. \/ \E S \in SUBSET Provider, trigger \in Trigger : Refresh(Invalidated(p, FALSE), S, trigger)
        \/ slot' = Invalidated(p, TRUE)
    BY <1>5 DEF FinishLogin, SwitchOff, SwitchSource, Trigger
  <2> QED BY <1>3, <2>1
<1> QED BY <1>4, <1>5 DEF UserStep

\* What is left to check of a step of one slot.
LEMMA OneSlotSpaced ==
  ASSUME SpaceInv, NEW p \in Provider, NEW s, slot' = [slot EXCEPT ![p] = s],
         Paces(slot[p], s, now), now' = now
  PROVE  Spaced
<1>1. /\ \A q \in Provider \ {p} : slot'[q] = slot[q]
      /\ slot'[p] = s
  BY SpaceTypes
<1>2. \A q \in Provider : Paces(slot[q], slot[q], now)
  BY OwnMoves, SpaceTypes, MovesPaces
<1> QED BY <1>1, <1>2 DEF Spaced

\* A decision on a preparation: the pending one is the one decided on.
LEMMA HandlePreparedSpaced ==
  ASSUME SpaceInv, HandlePrepared
  PROVE  Spaced
<1> DEFINE e == Head(batch)
           p == e.provider
           chosen(fresh) ==
             Prepared(slot[p], e.prep, e.account, e.source,
                      RestoredFor(p, e.account, e.source, fresh), now).slot
<1>1. TypeOK
  BY DEF SpaceInv, FlightInv, IndInv
<1>2. e \in AppEvent /\ e.kind = "Prepared" /\ batch # <<>>
  BY <1>1, HandlingType DEF HandlePrepared, Handling
<1>3. /\ p \in Provider /\ e.prep \in Preparation /\ e.account \in Account
      /\ e.source \in Source
  BY <1>2 DEF AppEvent, PreparedEvent, PreparationFailedEvent, CompletedEvent
<1>4. PICK fresh \in BOOLEAN :
        slot' = [slot EXCEPT ![p] = IF Matches(slot[p], e.prep)
                                    THEN chosen(fresh) ELSE slot[p]]
  BY DEF HandlePrepared
<1>5. now' = now
  BY DEF HandlePrepared
<1>6. CASE ~Matches(slot[p], e.prep)
  <2>1. Paces(slot[p], slot[p], now)
    BY <1>3, OwnMoves, SpaceTypes, MovesPaces
  <2>2. slot' = [slot EXCEPT ![p] = slot[p]]
    BY <1>4, <1>6
  <2> HIDE DEF e, p
  <2> QED BY <1>3, <1>5, <2>1, <2>2, OneSlotSpaced
<1>7. CASE Matches(slot[p], e.prep)
  <2>1. e.prep \in HeldIn(p, worker[p], Events)
    <3>1. batch \in Seq(AppEvent) /\ queue \in Seq(AppEvent)
      BY <1>1 DEF TypeOK
    <3>2. 1 \in DOMAIN Events /\ Events[1] = e
      BY <1>2, <3>1, ConcatProperties, TailEvents DEF Events
    <3>3. Asks(Events[1], p)
      BY <1>2, <3>2 DEF Asks
    <3> QED BY <3>2, <3>3 DEF HeldIn
  <2>2. slot[p].pending # None /\ e.prep.trigger = slot[p].pending.trigger
    BY <1>3, <1>7, <2>1 DEF Matches, SpaceInv, HeldInv, AgreesWith
  <2>3. RestoredFor(p, e.account, e.source, fresh) \in Restored
    <3> HIDE DEF e, p
    <3> QED BY <1>1, <1>3, RestoredForType DEF TypeOK
  <2> HIDE DEF e, p
  <2>4. Paces(slot[p], chosen(fresh), now)
    BY <1>3, <2>2, <2>3, SpaceTypes, PreparedPaces
  <2>5. slot' = [slot EXCEPT ![p] = chosen(fresh)]
    BY <1>4, <1>7
  <2> HIDE DEF chosen
  <2> QED BY <1>3, <1>5, <2>4, <2>5, OneSlotSpaced
<1> QED BY <1>6, <1>7

\* A preparation that failed.
LEMMA HandlePreparationFailedSpaced ==
  ASSUME SpaceInv, HandlePreparationFailed
  PROVE  Spaced
<1> DEFINE e == Head(batch)
           p == e.provider
           s == PreparationFailed(slot[p], e.invalidates, now)
<1>1. TypeOK /\ now \in Nat
  BY DEF SpaceInv, FlightInv, IndInv, TypeOK
<1>2. e \in AppEvent /\ e.kind = "PreparationFailed"
  BY <1>1, HandlingType DEF HandlePreparationFailed
<1>3. p \in Provider /\ e.invalidates \in BOOLEAN
  BY <1>2 DEF AppEvent, PreparedEvent, PreparationFailedEvent, CompletedEvent
<1>4. now' = now
  BY DEF HandlePreparationFailed
<1>5. CASE ~Matches(slot[p], e.prep)
  BY <1>4, <1>5, RestSpaced DEF HandlePreparationFailed
<1>6. CASE Matches(slot[p], e.prep)
  <2>1. slot' = [slot EXCEPT ![p] = s]
    BY <1>6 DEF HandlePreparationFailed
  <2>2. slot[p].pending # None
    BY <1>6 DEF Matches
  <2> HIDE DEF e, p
  <2>3. Paces(slot[p], s, now)
    BY <1>1, <1>3, <2>2, SpaceTypes, PreparationFailedPaces
  <2> HIDE DEF s
  <2> QED BY <1>3, <1>4, <2>1, <2>3, OneSlotSpaced
<1> QED BY <1>5, <1>6

\* A completion.
LEMMA HandleCompletedSpaced ==
  ASSUME SpaceInv, HandleCompleted
  PROVE  Spaced
<1> DEFINE e == Head(batch)
           p == e.provider
           s == Completed(slot[p], e.ticket, e.result, now)
<1>1. TypeOK /\ now \in Nat
  BY DEF SpaceInv, FlightInv, IndInv, TypeOK
<1>2. e \in AppEvent /\ e.kind = "Completed"
  BY <1>1, HandlingType DEF HandleCompleted
<1>3. p \in Provider /\ e.ticket \in Ticket /\ e.result \in Result
  BY <1>2 DEF AppEvent, PreparedEvent, PreparationFailedEvent, CompletedEvent
<1>4. now' = now
  BY DEF HandleCompleted
<1>5. slot' = [slot EXCEPT ![p] = s] \/ UNCHANGED slot
  BY DEF HandleCompleted
<1> HIDE DEF e, p
<1>6. Paces(slot[p], s, now)
  BY <1>1, <1>3, SpaceTypes, CompletedPaces
<1> HIDE DEF s
<1> QED BY <1>3, <1>4, <1>5, <1>6, OneSlotSpaced, RestSpaced

\* A reply, which may fail a request on the spot.
LEMMA SendReplySpaced ==
  ASSUME SpaceInv, SendReply
  PROVE  Spaced
<1> DEFINE p == ui.reply.provider
           t == ui.reply.ticket
           s == Completed(slot[p], t, Abandoned, now)
<1>1. TypeOK /\ now \in Nat
  BY DEF SpaceInv, FlightInv, IndInv, TypeOK
<1>2. p \in Provider /\ t \in Ticket \cup {None}
  BY <1>1 DEF SendReply, TypeOK, Ui, Reply
<1>3. now' = now
  BY DEF SendReply
<1>4. UNCHANGED slot \/ (t # None /\ slot' = [slot EXCEPT ![p] = s])
  BY DEF SendReply, Unanswered
<1>5. Abandoned \in Result
  BY DEF Abandoned, Result, Failure
<1> HIDE DEF p, t
<1>6. t # None => Paces(slot[p], s, now)
  BY <1>1, <1>2, <1>5, SpaceTypes, CompletedPaces
<1> HIDE DEF s
<1> QED BY <1>2, <1>3, <1>4, <1>6, RestSpaced, OneSlotSpaced

\* Every step.
LEMMA NextSpaced ==
  ASSUME SpaceInv, IndInv', Next
  PROVE  Spaced
<1>0. slot' \in [Provider -> Slot]
  BY DEF IndInv, TypeOK
<1>1. CASE \E p \in Provider, o \in Operation : WorkerStep(p, o)
  <2>1. UNCHANGED <<slot, now>>
    BY <1>1 DEF WorkerStep, WorkerPrepares, WorkerFailsToPrepare,
                WorkerReceives, WorkerTimesOut, WorkerHangsUp, WorkerCompletes
  <2> QED BY <2>1, RestSpaced
<1>2. CASE WakeUp \/ PollTimer \/ TimePasses
  <2>1. UNCHANGED slot /\ (now' = now \/ now' = now + 1)
    BY <1>2 DEF WakeUp, PollTimer, TimePasses
  <2> QED BY <2>1, RestSpaced
<1>3. CASE EndDataReady \/ EndPoll
  <2>1. now' = now
    BY <1>3 DEF EndDataReady, EndPoll
  <2>2. CASE UNCHANGED slot
    BY <2>1, <2>2, RestSpaced
  <2>3. CASE \E S \in SUBSET Provider, trigger \in Trigger : Refresh(slot, S, trigger)
    BY <1>0, <2>1, <2>3, OwnMoves, RefreshMoves, MovesSpaced
  <2> QED BY <1>3, <2>2, <2>3
          DEF EndDataReady, EndPoll, RefreshForFlyout, Enabled, Trigger
<1>4. CASE Restart
  <2>1. now' = now /\ slot' = NewSlots
    BY <1>4 DEF Restart
  <2>2. ASSUME NEW p \in Provider PROVE Paces(slot[p], slot'[p], now)
    <3>1. /\ slot'[p].phase = "Unavailable" /\ slot'[p].error = None /\ slot'[p].account = None
          /\ slot'[p].generation = 0 /\ slot'[p].lastAttempt = None
      BY <2>1 DEF NewSlots, NewSlot
    <3>2. slot[p].generation \in Nat /\ (slot[p].phase = "Fetching" => slot[p].account # None)
          /\ (slot[p].account # None => slot[p].generation > 0)
      BY SpaceTypes DEF Slot, Sound, OneActivity, Bound
    <3> QED BY <3>1, <3>2 DEF Paces, Bound, Concluding
  <2> QED BY <2>1, <2>2 DEF Spaced
<1> QED BY <1>0, <1>1, <1>2, <1>3, <1>4, UserSpaced, HandlePreparedSpaced,
           HandlePreparationFailedSpaced, HandleCompletedSpaced,
           SendReplySpaced DEF Next, DrainStep

-----------------------------------------------------------------------------
(* The theorem.                                                            *)

\* Nothing is recorded at the start.
LEMMA SpaceInit == TimedInit => SpaceInv
<1> SUFFICES ASSUME TimedInit PROVE SpaceInv
  OBVIOUS
<1>1. FlightInv
  BY FlightInit DEF TimedInit
<1>2. ended \in [Provider -> Ending \cup {None}] /\ \A p \in Provider : Recorded(ended[p], slot[p], now)
  BY DEF TimedInit, Recorded
<1>3. ASSUME NEW p \in Provider PROVE Bound(slot[p]) /\ slot[p].pending = None
  BY DEF TimedInit, Init, NewSlots, NewSlot, Bound
<1>4. HeldInv
  BY <1>3 DEF HeldInv, AgreesWith
<1> QED BY <1>1, <1>2, <1>3, <1>4 DEF SpaceInv

\* What is recorded of the sessions after a step.
LEMMA RecordedStep ==
  ASSUME SpaceInv, NEW p \in Provider, Paces(slot[p], slot'[p], now), now' = now \/ now' = now + 1,
         ended'[p] = IF Ends(p) THEN EndingOf(p)
                     ELSE IF slot'[p].generation # slot[p].generation THEN None
                     ELSE ended[p]
  PROVE  Recorded(ended'[p], slot'[p], now')
<1>1. /\ now \in Nat /\ Recorded(ended[p], slot[p], now) /\ ended[p] \in Ending \cup {None}
      /\ slot[p].phase = "Fetching" => slot[p].account # None
  BY SpaceTypes DEF SpaceInv, Sound, OneActivity
<1>2. Ends(p) <=> Concluding(slot[p], slot'[p])
  BY DEF Ends, Rejects, Concluding
<1>3. CASE Ends(p)
  <2>1. /\ ended'[p].at = now /\ ended'[p].account = slot[p].account /\ ended'[p].source = slot[p].source
        /\ ended'[p].rejected = Rejects(p)
    BY <1>3 DEF EndingOf
  <2>2. ~ Rejects(p) => slot'[p].phase # "Unavailable"
    BY <1>3 DEF Ends
  <2>3. slot[p].account # None /\ None \notin Nat
    BY <1>1, <1>3, ProviderStateAssumption DEF Ends, Rejects
  <2> QED BY <1>1, <1>2, <1>3, <2>1, <2>2, <2>3 DEF Paces, Recorded
<1>4. CASE ~ Ends(p) /\ slot'[p].generation # slot[p].generation
  BY <1>4 DEF Recorded
<1>5. CASE ~ Ends(p) /\ slot'[p].generation = slot[p].generation
  <2>1. ended'[p] = ended[p]
    BY <1>5
  <2>2. ended[p] # None => ended[p].at \in Nat
    BY <1>1 DEF Ending
  <2>3. None \notin Nat
    BY ProviderStateAssumption
  <2> QED BY <1>1, <1>5, <2>1, <2>2, <2>3 DEF Paces, Recorded
<1> QED BY <1>3, <1>4, <1>5

\* The invariant is kept.
LEMMA SpaceNext ==
  ASSUME SpaceInv, [TimedNext]_<<vars, ended>>
  PROVE  SpaceInv'
<1>1. FlightInv' /\ IndInv'
  BY FlightNext DEF SpaceInv, TimedNext, FlightInv
<1>2. CASE UNCHANGED <<vars, ended>>
  BY <1>1, <1>2 DEF SpaceInv, HeldInv, AgreesWith, HeldIn, Events, vars, Recorded, Bound, Asks
<1>3. CASE TimedNext
  <2>1. Next /\ Spaced
    BY <1>1, <1>3, NextSpaced DEF TimedNext
  <2>2. ASSUME NEW p \in Provider PROVE AgreesWith(slot'[p], HeldIn(p, worker'[p], Events'))
    <3>1. FlightStep(p)
      BY <2>1, NextProgress DEF Progress, SpaceInv
    <3> QED BY <3>1, FlightStepAgrees DEF SpaceInv, HeldInv
  <2>3. \A p \in Provider :
          ended'[p] = IF Ends(p) THEN EndingOf(p)
                      ELSE IF slot'[p].generation # slot[p].generation THEN None
                      ELSE ended[p]
    BY <1>3 DEF TimedNext
  <2>4. ASSUME NEW p \in Provider PROVE Bound(slot'[p]) /\ Recorded(ended'[p], slot'[p], now')
    BY <2>1, <2>3, RecordedStep DEF Spaced, Paces
  <2>5. ended' \in [Provider -> Ending \cup {None}]
    <3>1. ASSUME NEW p \in Provider, Ends(p) PROVE EndingOf(p) \in Ending
      <4>1. /\ now \in Nat /\ slot[p] \in Slot /\ slot[p].source \in Source
            /\ slot[p].account \in Account
        BY <3>1, SpaceTypes DEF Slot, Ends, Rejects, Sound, OneActivity
      <4> QED BY <4>1 DEF EndingOf, Ending, Rejects
    <3>2. ended \in [Provider -> Ending \cup {None}]
      BY DEF SpaceInv
    <3> QED BY <1>3, <3>1, <3>2 DEF TimedNext
  <2>6. HeldInv'
    BY <2>2 DEF HeldInv
  <2> QED BY <1>1, <2>4, <2>5, <2>6 DEF SpaceInv
<1> QED BY <1>2, <1>3

\* Requests of one session keep the distance their trigger asks for, counted
\* from the completion, whatever refreshes, toggles, switches of the account
\* and restarts lie between them (state.rs, refresh_gate and complete).
THEOREM RequestsKeepDistance == TimedSpec => SpacedRequests
<1> DEFINE Apart == \A p \in Provider :
             Repeats(p) /\ ~ended[p].rejected =>
               now - ended[p].at >= Spacing(slot[p].pending.trigger)
<1>1. SpaceInv /\ [TimedNext]_<<vars, ended>> => [Apart]_<<vars, ended>>
  <2> SUFFICES ASSUME SpaceInv, TimedNext, NEW p \in Provider, Repeats(p), ~ended[p].rejected
               PROVE  now - ended[p].at >= Spacing(slot[p].pending.trigger)
    OBVIOUS
  <2>1. Spaced
    <3>1. IndInv'
      BY FlightNext DEF SpaceInv, TimedNext, FlightInv
    <3> QED BY <3>1, NextSpaced DEF TimedNext
  <2>2. /\ slot[p].phase # "Fetching" /\ slot'[p].phase = "Fetching"
        /\ ended[p] # None /\ ended[p].account = slot'[p].account /\ ended[p].source = slot'[p].source
    BY DEF Repeats, Starts
  <2>3. /\ slot[p].account = ended[p].account /\ slot[p].source = ended[p].source
        /\ slot[p].lastAttempt # None /\ ended[p].at <= slot[p].lastAttempt
    BY <2>2 DEF SpaceInv, Recorded
  <2>4. now - slot[p].lastAttempt >= Spacing(slot[p].pending.trigger)
    BY <2>1, <2>2, <2>3 DEF Spaced, Paces
  <2>5. /\ now \in Nat /\ ended[p].at \in Nat /\ slot[p].lastAttempt \in Nat
        /\ Spacing(slot[p].pending.trigger) \in Nat
    <3>1. ended[p] \in Ending
      BY <2>2 DEF SpaceInv
    <3> QED BY <2>3, <3>1, SpaceTypes, ProviderStateAssumption DEF Ending, Slot, Spacing
  <2> QED BY <2>3, <2>4, <2>5
<1>2. SpacedRequests <=> [][Apart]_<<vars, ended>>
  BY DEF SpacedRequests
<1> HIDE DEF Apart
<1> QED BY <1>1, <1>2, SpaceInit, SpaceNext, PTL DEF TimedSpec
=============================================================================
