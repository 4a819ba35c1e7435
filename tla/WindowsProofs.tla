------------------------------ MODULE WindowsProofs ------------------------------
(***************************************************************************)
(* Proofs about Windows, for every layout of the sections, every height of *)
(* the windows and every refresh interval: the settings window's cards are *)
(* found by one order, and a click, a key or an assistive client reaches   *)
(* in the flyout what is drawn there.                                      *)
(*                                                                         *)
(* Most of the flyout's argument is about its layout.  The four walks over *)
(* a view are each shown to visit the same sections at the same heights    *)
(* (SectionEnd), which gives what is drawn as the controls, the texts and  *)
(* the captions of one set of lines (AllTexts, AllLines).  A click is then *)
(* a comparison of numbers.  The state contributes one fact: the kept top  *)
(* of the Vibecode row is that of the view drawn last (FlyInv).            *)
(***************************************************************************)
EXTENDS Windows, WellFoundedInduction, TLAPS

\* A set of naturals has a least element.
LEMMA Least ==
  ASSUME NEW T, T \subseteq Nat, T # {}
  PROVE  \E x \in T : \A y \in T : x <= y
<1> DEFINE R == OpToRel(<, Nat)
<1>1. IsWellFoundedOn(R, Nat)
  BY NatLessThanWellFounded
<1>2. \A x, y \in Nat : x < y => <<x,y>> \in R
  BY DEF OpToRel
<1> HIDE DEF R
<1>3. PICK x \in T : \A y \in T : ~ (<<y, x>> \in R)
  BY <1>1, WFMin
<1>4. \A y \in T : ~ (y < x)
  BY <1>2, <1>3
<1> QED BY <1>3, <1>4

-----------------------------------------------------------------------------
(* The settings window.                                                     *)

\* Cards are numbered from 0.
CardNo == 0..15

\* Where a card lies.
TopOf(i) == 24 + 60 * i + (IF i > 11 THEN 72 ELSE 0) + (IF i > 12 THEN 24 ELSE 0)
HeightOf(i) == IF i = 11 THEN 128 ELSE IF i = 12 THEN 80 ELSE 56

\* A card has the height of its number.
LEMMA CardHeights ==
  ASSUME NEW i \in Int PROVE Cards!CardHeight(i) = HeightOf(i)
BY DEF Cards!CardHeight, Cards!Card, HeightOf

\* The cards follow each other.
LEMMA CardRects ==
  /\ \A i \in CardNo : Cards!RectOf(i) = [top |-> TopOf(i), bottom |-> TopOf(i) + HeightOf(i)]
  /\ Cards!SettingsHeight = 1100
<1> DEFINE Walk(f) == f = [i \in CardNo |-> IF i = 0 THEN 24 ELSE f[i-1] + HeightOf(i-1) + 4]
           g == [i \in CardNo |-> TopOf(i)]
           top == CHOOSE f : Walk(f)
<1>1. Walk(g)
  BY DEF CardNo, TopOf, HeightOf
<1>2. Walk(top)
  BY <1>1
<1> HIDE DEF top
<1>3. \A i \in CardNo : top[i] = IF i = 0 THEN 24 ELSE top[i-1] + HeightOf(i-1) + 4
  BY <1>2
<1>4. /\ top[0] = TopOf(0) /\ top[1] = TopOf(1) /\ top[2] = TopOf(2) /\ top[3] = TopOf(3)
      /\ top[4] = TopOf(4) /\ top[5] = TopOf(5) /\ top[6] = TopOf(6) /\ top[7] = TopOf(7)
      /\ top[8] = TopOf(8) /\ top[9] = TopOf(9) /\ top[10] = TopOf(10) /\ top[11] = TopOf(11)
      /\ top[12] = TopOf(12) /\ top[13] = TopOf(13) /\ top[14] = TopOf(14) /\ top[15] = TopOf(15)
  BY <1>3 DEF CardNo, TopOf, HeightOf
<1>5. \A i \in CardNo : top[i] = TopOf(i)
  BY <1>4 DEF CardNo
<1>6. Cards!Rects = [i \in CardNo |-> [top |-> top[i], bottom |-> top[i] + HeightOf(i)]]
  <2>1. \A f : f = [i \in 0..(Cards!NCards - 1) |->
                      IF i = 0 THEN Cards!SetPad ELSE f[i-1] + Cards!CardHeight(i-1) + Cards!CardGap]
               <=> Walk(f)
    BY CardHeights DEF CardNo, Cards!NCards, Cards!SetPad, Cards!CardGap
  <2>2. top = CHOOSE f : f = [i \in 0..(Cards!NCards - 1) |->
                      IF i = 0 THEN Cards!SetPad ELSE f[i-1] + Cards!CardHeight(i-1) + Cards!CardGap]
    BY <2>1 DEF top
  <2>3. Cards!Rects = [i \in 0..(Cards!NCards - 1) |->
                         [top |-> top[i], bottom |-> top[i] + Cards!CardHeight(i)]]
    BY <2>2 DEF Cards!Rects
  <2> QED BY <2>3, CardHeights DEF CardNo, Cards!NCards
<1>7. \A i \in CardNo : Cards!RectOf(i) = [top |-> TopOf(i), bottom |-> TopOf(i) + HeightOf(i)]
  BY <1>5, <1>6 DEF Cards!RectOf
<1>8. Cards!SettingsHeight = 1100
  BY <1>7 DEF Cards!SettingsHeight, Cards!NCards, Cards!SetPad, CardNo, TopOf, HeightOf
<1> QED BY <1>7, <1>8

\* Cards lie in order, four apart.
LEMMA CardsApart ==
  /\ \A i \in CardNo : TopOf(i) \in Nat /\ TopOf(i) >= 24 /\ HeightOf(i) \in 56..128
                       /\ TopOf(i) + HeightOf(i) <= 1076
  /\ \A i, j \in CardNo : i < j => TopOf(i) + HeightOf(i) < TopOf(j)
BY DEF CardNo, TopOf, HeightOf

\* The largest and the smallest of two numbers.
LEMMA MaxOfTwo ==
  ASSUME NEW a \in Int, NEW b \in Int
  PROVE  /\ Cards!Max({a, b}) = IF a < b THEN b ELSE a
         /\ Cards!Min({a, b}) = IF a < b THEN a ELSE b
<1>1. /\ \E x \in {a, b} : \A y \in {a, b} : x >= y
      /\ \E x \in {a, b} : \A y \in {a, b} : x <= y
  OBVIOUS
<1>2. /\ Cards!Max({a, b}) \in {a, b} /\ \A y \in {a, b} : Cards!Max({a, b}) >= y
      /\ Cards!Min({a, b}) \in {a, b} /\ \A y \in {a, b} : Cards!Min({a, b}) <= y
  BY <1>1 DEF Cards!Max, Cards!Min
<1> QED BY <1>2

\* What a scroll is clamped to.
LEMMA Clamped ==
  ASSUME NEW x \in Int, NEW h \in Nat
  PROVE  /\ Cards!Limit(h) = IF h < 1100 THEN 1100 - h ELSE 0
         /\ Cards!Clamp(x, Cards!Limit(h)) = IF x < 0 THEN 0
                                             ELSE IF x < Cards!Limit(h) THEN x ELSE Cards!Limit(h)
         /\ Cards!Clamp(x, Cards!Limit(h)) \in Nat
<1>1. Cards!Limit(h) = IF h < 1100 THEN 1100 - h ELSE 0
  BY CardRects, MaxOfTwo DEF Cards!Limit
<1> DEFINE l == Cards!Limit(h)
<1>2. l \in Nat
  BY <1>1
<1> HIDE DEF l
<1>3. Cards!Min({x, l}) = IF x < l THEN x ELSE l
  BY <1>2, MaxOfTwo
<1>4. Cards!Clamp(x, l) = IF Cards!Min({x, l}) > 0 THEN Cards!Min({x, l}) ELSE 0
  BY <1>2, <1>3, MaxOfTwo DEF Cards!Clamp
<1> QED BY <1>1, <1>2, <1>3, <1>4 DEF l

\* What is spoken in places from, from + 1, ... is numbered so.
Numbered(s, from) ==
    \A k \in 1..Len(s) : s[k].card = from + k - 1 /\ Cards!Card[s[k].name] = from + k - 1

\* Items numbered on from those before them are numbered together.
LEMMA NumberedOn ==
  ASSUME NEW T, NEW s \in Seq(T), NEW more \in Seq(T), NEW from \in Nat,
         Numbered(s, from), Numbered(more, from + Len(s))
  PROVE  /\ Numbered(s \o more, from) /\ s \o more \in Seq(T)
         /\ Len(s \o more) = Len(s) + Len(more)
<1>1. s \o more \in Seq(T) /\ Len(s \o more) = Len(s) + Len(more)
  OBVIOUS
<1>2. ASSUME NEW k \in 1..Len(s \o more)
      PROVE  /\ (s \o more)[k].card = from + k - 1
             /\ Cards!Card[(s \o more)[k].name] = from + k - 1
  <2>1. CASE k <= Len(s)
    <3>1. (s \o more)[k] = s[k] /\ k \in 1..Len(s)
      BY <1>1, <2>1
    <3> QED BY <3>1 DEF Numbered
  <2>2. CASE k > Len(s)
    <3>1. (s \o more)[k] = more[k - Len(s)] /\ k - Len(s) \in 1..Len(more)
      BY <1>1, <2>2
    <3>2. from + Len(s) + (k - Len(s)) - 1 = from + k - 1
      BY <1>1
    <3> QED BY <3>1, <3>2 DEF Numbered
  <2> QED BY <1>1, <2>1, <2>2
<1> QED BY <1>1, <1>2 DEF Numbered

\* The four places that number the cards agree.
LEMMA CardsNumbered == Cards!OneOrder
<1>1. Cards!Name = {"account", "caps", "autostart", "codex", "alerts", "updates", "lid", "interval",
                    "refresh", "about", "quit", "diagnostics", "server", "pace", "quota", "reset"}
  BY DEF Cards!Name, Cards!Card
<1>2. \A name \in Cards!Name : Cards!Labels[Cards!Card[name] + 1] = name
  BY <1>1 DEF Cards!Labels, Cards!Card
<1> DEFINE Item(name, card) == [name |-> name, card |-> card]
           first == <<Item("account", Cards!Card.account), Item("caps", Cards!Card.caps)>>
           second == <<Item("autostart", Cards!Card.autostart), Item("codex", Cards!Card.codex),
                       Item("alerts", Cards!Card.alerts), Item("updates", Cards!Card.updates)>>
           third == <<Item("lid", Cards!Card.lid), Item("interval", Cards!Card.interval),
                      Item("refresh", Cards!Card.refresh), Item("about", Cards!Card.about),
                      Item("quit", Cards!Card.quit), Item("diagnostics", Cards!Card.diagnostics),
                      Item("server", Cards!Card.server), Item("pace", Cards!Card.pace)>>
           last == <<Item("quota", Cards!Card.quota), Item("reset", Cards!Card.reset)>>
<1>3. /\ Numbered(first, 0) /\ Len(first) = 2
      /\ Numbered(second, 2) /\ Len(second) = 4
      /\ Numbered(third, 6) /\ Len(third) = 8
      /\ Numbered(last, 14) /\ Len(last) = 2
  BY DEF Numbered, Cards!Card
<1> DEFINE T == [name : Cards!Name, card : Nat]
<1>4. first \in Seq(T) /\ second \in Seq(T) /\ third \in Seq(T) /\ last \in Seq(T)
  <2>1. \A name \in Cards!Name, card \in Nat : Item(name, card) \in T
    OBVIOUS
  <2>2. \A a, b \in T : <<a, b>> \in Seq(T)
    OBVIOUS
  <2>3. \A a, b, c, d \in T : <<a, b, c, d>> \in Seq(T)
    OBVIOUS
  <2>4. \A a, b, c, d, e, f, g, h \in T : <<a, b, c, d, e, f, g, h>> \in Seq(T)
    OBVIOUS
  <2>5. \A name \in Cards!Name : Cards!Card[name] \in Nat
    BY <1>1 DEF Cards!Card
  <2>6. \A name \in Cards!Name : Item(name, Cards!Card[name]) \in T
    BY <2>1, <2>5
  <2> HIDE DEF Item, T
  <2>7. first \in Seq(T)
    BY <1>1, <2>2, <2>6
  <2>8. second \in Seq(T)
    BY <1>1, <2>3, <2>6
  <2>9. third \in Seq(T)
    BY <1>1, <2>4, <2>6
  <2>10. last \in Seq(T)
    BY <1>1, <2>2, <2>6
  <2> QED BY <2>7, <2>8, <2>9, <2>10
<1>5. Cards!Spoken = ((first \o second) \o third) \o last
  BY DEF Cards!Spoken
<1> HIDE DEF first, second, third, last, T
<1>6. /\ Numbered(first \o second, 0) /\ first \o second \in Seq(T)
      /\ Len(first \o second) = Len(first) + Len(second)
  <2>1. Numbered(second, 0 + Len(first))
    BY <1>3
  <2> QED BY <1>3, <1>4, <2>1, NumberedOn
<1>7. /\ Numbered((first \o second) \o third, 0) /\ (first \o second) \o third \in Seq(T)
      /\ Len((first \o second) \o third) = Len(first \o second) + Len(third)
  <2>1. 0 + Len(first \o second) = 6
    BY <1>3, <1>6
  <2>2. Numbered(third, 0 + Len(first \o second))
    BY <1>3, <2>1
  <2> QED BY <1>4, <1>6, <2>2, NumberedOn
<1>8. Numbered(Cards!Spoken, 0) /\ Cards!Spoken \in Seq(T)
  <2>1. 0 + Len((first \o second) \o third) = 14
    BY <1>3, <1>6, <1>7
  <2>2. Numbered(last, 0 + Len((first \o second) \o third))
    BY <1>3, <2>1
  <2> QED BY <1>4, <1>5, <1>7, <2>2, NumberedOn
<1>9. \A k \in DOMAIN Cards!Spoken : Cards!Spoken[k].card = k - 1 /\ Cards!Card[Cards!Spoken[k].name] = k - 1
  <2>1. DOMAIN Cards!Spoken = 1..Len(Cards!Spoken)
    BY <1>8
  <2> QED BY <1>8, <2>1 DEF Numbered
<1> QED BY <1>2, <1>9 DEF Cards!OneOrder

\* A line on the edge of a card hits that card.
LEMMA EdgeHits ==
  ASSUME win.scroll \in Nat, NEW i \in CardNo,
         NEW y \in {Cards!RectOf(i).top - win.scroll, Cards!RectOf(i).bottom - win.scroll}
  PROVE  Cards!SettingsHit(y) = i
<1> DEFINE hit == {j \in 0..(Cards!NCards - 1) : Cards!RectOf(j).top - win.scroll <= y
                                               /\ y <= Cards!RectOf(j).bottom - win.scroll}
<1>1. \A j \in CardNo : /\ Cards!RectOf(j).top = TopOf(j)
                       /\ Cards!RectOf(j).bottom = TopOf(j) + HeightOf(j)
                       /\ TopOf(j) \in Nat /\ HeightOf(j) \in Nat
  BY CardRects, CardsApart
<1>2. ASSUME NEW j \in CardNo PROVE j \in hit <=> j = i
  <2>1. CASE j = i
    BY <1>1, <2>1 DEF Cards!NCards, CardNo
  <2>2. CASE j < i
    BY <1>1, <2>2, CardsApart
  <2>3. CASE i < j
    BY <1>1, <2>3, CardsApart
  <2> QED BY <2>1, <2>2, <2>3 DEF CardNo
<1>3. hit = {i}
  <2>1. hit \subseteq CardNo
    BY DEF Cards!NCards, CardNo
  <2> HIDE DEF hit
  <2> QED BY <1>2, <2>1
<1>4. Cards!Min({i}) = i
  BY DEF Cards!Min, CardNo
<1>5. Cards!SettingsHit(y) = IF hit = {} THEN Cards!NoCard ELSE Cards!Min(hit)
  BY DEF Cards!SettingsHit
<1> HIDE DEF hit
<1> QED BY <1>3, <1>4, <1>5

\* A line that hits a card lies on it.
LEMMA HitLiesOnCard ==
  ASSUME NEW y \in Int, Cards!SettingsHit(y) # Cards!NoCard
  PROVE  /\ Cards!SettingsHit(y) \in CardNo
         /\ Cards!RectOf(Cards!SettingsHit(y)).top - win.scroll <= y
         /\ y <= Cards!RectOf(Cards!SettingsHit(y)).bottom - win.scroll
<1> DEFINE hit == {j \in 0..(Cards!NCards - 1) : Cards!RectOf(j).top - win.scroll <= y
                                               /\ y <= Cards!RectOf(j).bottom - win.scroll}
<1>1. hit # {} /\ Cards!SettingsHit(y) = Cards!Min(hit)
  BY DEF Cards!SettingsHit
<1>2. hit \subseteq 0..15
  BY DEF Cards!NCards
<1>3. \E j \in hit : \A k \in hit : j <= k
  <2> HIDE DEF hit
  <2>1. hit \in SUBSET Nat
    BY <1>2
  <2> QED BY <1>1, <2>1, Least
<1>4. Cards!Min(hit) \in hit
  <2> HIDE DEF hit
  <2> QED BY <1>3 DEF Cards!Min
<1> QED BY <1>1, <1>4 DEF CardNo, Cards!NCards
-----------------------------------------------------------------------------
\* What the settings window keeps: it only has a size it can be given, and a
\* visible one has drawn its scroll, its focus and the interval in force.
CardsInv ==
  /\ Cards!TypeOK
  /\ poll.saved = poll.secs /\ poll.timer = poll.secs
  /\ win.exists => win.height \in Heights
  /\ win.visible => /\ win.exists
                    /\ shown = [scroll |-> win.scroll, focus |-> win.focus, secs |-> poll.secs]

\* Drawing completes what a step has done to the window.
LEMMA RenderDraws ==
  ASSUME win' \in [exists : BOOLEAN, visible : BOOLEAN, height : Nat, scroll : Nat, focus : -1..15],
         poll' \in [saved : Nat, secs : Nat, timer : Nat],
         poll'.saved = poll'.secs, poll'.timer = poll'.secs,
         win'.exists => win'.height \in Heights,
         win'.visible => win'.exists,
         CardsInv, Cards!Render
  PROVE  CardsInv'
<1>1. shown' = IF win'.exists THEN [scroll |-> win'.scroll, focus |-> win'.focus, secs |-> poll'.secs]
               ELSE shown
  BY DEF Cards!Render
<1>2. shown' = None \/ shown' \in [scroll : Nat, focus : -1..15, secs : Nat]
  <2>1. CASE win'.exists
    BY <1>1, <2>1
  <2>2. CASE ~win'.exists
    BY <1>1, <2>2 DEF CardsInv, Cards!TypeOK, Cards!NoCard, Cards!NCards
  <2> QED BY <2>1, <2>2
<1>3. Cards!TypeOK'
  BY <1>2 DEF Cards!TypeOK, Cards!NoCard, Cards!NCards
<1> QED BY <1>1, <1>3 DEF CardsInv

\* What an interval card may do to the interval.
LEMMA IntervalKept ==
  ASSUME CardsInv, NEW secs \in Nat, Cards!ApplyInterval(secs)
  PROVE  /\ poll' \in [saved : Nat, secs : Nat, timer : Nat]
         /\ poll'.saved = poll'.secs /\ poll'.timer = poll'.secs
BY DEF CardsInv, Cards!TypeOK, Cards!ApplyInterval

\* The interval in force is at one of the pills or taken for the second.
LEMMA PositionIsPill == Cards!Position \in 1..4
<1> DEFINE at == {i \in DOMAIN Cards!Intervals : Cards!Intervals[i] = poll.secs}
<1>1. at \subseteq 1..4
  BY DEF Cards!Intervals
<1>2. Cards!Position = IF at = {} THEN 2 ELSE Cards!Min(at)
  BY DEF Cards!Position
<1> HIDE DEF at
<1>3. CASE at # {}
  <2>1. at \in SUBSET Nat
    BY <1>1
  <2>2. \E x \in at : \A y \in at : x <= y
    BY <1>3, <2>1, Least
  <2>3. Cards!Min(at) \in at
    BY <2>2 DEF Cards!Min
  <2> QED BY <1>1, <1>2, <1>3, <2>3
<1> QED BY <1>2, <1>3

\* A key that moves the interval keeps its three places alike.
LEMMA StepKeeps ==
  ASSUME CardsInv, NEW n \in {-1, 1}, Cards!Step(n)
  PROVE  /\ poll' \in [saved : Nat, secs : Nat, timer : Nat]
         /\ poll'.saved = poll'.secs /\ poll'.timer = poll'.secs
<1>1. Cards!Position \in 1..4
  BY PositionIsPill
<1> DEFINE p == Cards!Position
<1> HIDE DEF p
<1>2. p \in 1..4
  BY <1>1 DEF p
<1>3. Cards!Min({p + n, 4}) \in Int /\ Cards!Min({p + n, 4}) <= 4
  <2> DEFINE q == p + n
  <2>1. q \in Int
    BY <1>2
  <2> HIDE DEF q
  <2>2. Cards!Min({q, 4}) = IF q < 4 THEN q ELSE 4
    BY <2>1, MaxOfTwo
  <2>3. Cards!Min({q, 4}) \in Int /\ Cards!Min({q, 4}) <= 4
    BY <2>1, <2>2
  <2> QED BY <2>3 DEF q
<1>4. Cards!Max({1, Cards!Min({p + n, 4})}) \in 1..4
  BY <1>3, MaxOfTwo
<1>5. Len(Cards!Intervals) = 4
  BY DEF Cards!Intervals
<1>6. Cards!Intervals[Cards!Max({1, Cards!Min({p + n, Len(Cards!Intervals)})})] \in Nat
  BY <1>4, <1>5 DEF Cards!Intervals
<1> QED BY <1>6, IntervalKept DEF Cards!Step, p

\* Whatever card a client or a key works.
LEMMA ActivateKeeps ==
  ASSUME CardsInv, NEW i \in CardNo, Cards!Activate(i)
  PROVE  CardsInv' /\ win' = win
<1>1. CASE i = 7
  <2>1. PICK secs \in Nat : Cards!ApplyInterval(secs)
    <3>1. Cards!ApplyInterval(Cards!Intervals[(Cards!Position % Len(Cards!Intervals)) + 1])
      BY <1>1 DEF Cards!Activate, Cards!Card
    <3>2. Len(Cards!Intervals) = 4
      BY DEF Cards!Intervals
    <3>3. Cards!Position \in Int
      BY PositionIsPill
    <3>4. (Cards!Position % Len(Cards!Intervals)) + 1 \in 1..4
      BY <3>2, <3>3
    <3>5. Cards!Intervals[(Cards!Position % Len(Cards!Intervals)) + 1] \in Nat
      BY <3>4 DEF Cards!Intervals
    <3> QED BY <3>1, <3>5
  <2>2. UNCHANGED win /\ Cards!Render
    BY <1>1 DEF Cards!Activate, Cards!Card
  <2> QED BY <2>1, <2>2, IntervalKept, RenderDraws
          DEF CardsInv, Cards!TypeOK, Cards!NoCard, Cards!NCards
<1>2. CASE i = 10
  BY <1>2 DEF Cards!Activate, Cards!Card, Cards!vars, CardsInv, Cards!TypeOK
<1>3. CASE i \in {14, 15}
  <2>1. UNCHANGED <<win, poll>> /\ (Cards!Render \/ (UNCHANGED shown))
    BY <1>3 DEF Cards!Activate, Cards!Card
  <2>2. CASE Cards!Render
    BY <2>1, <2>2, RenderDraws DEF CardsInv, Cards!TypeOK, Cards!NoCard, Cards!NCards
  <2>3. CASE UNCHANGED shown
    BY <2>1, <2>3 DEF CardsInv, Cards!TypeOK
  <2> QED BY <2>1, <2>2, <2>3
<1>4. CASE i \notin {7, 10, 14, 15}
  <2>1. UNCHANGED <<win, poll>> /\ Cards!Render
    BY <1>4 DEF Cards!Activate, Cards!Card
  <2> QED BY <2>1, RenderDraws DEF CardsInv, Cards!TypeOK, Cards!NoCard, Cards!NCards
<1> QED BY <1>1, <1>2, <1>3, <1>4
-----------------------------------------------------------------------------
\* Where a card that gets the focus is scrolled to: the whole of it is in the
\* window, which is at least as tall as the tallest card and its margin.
LEMMA ScrollShows ==
  ASSUME CardsInv, win.height >= 136, NEW i \in CardNo
  PROVE  /\ Cards!ScrolledTo(i) \in Nat
         /\ Cards!RectOf(i).top >= Cards!ScrolledTo(i)
         /\ Cards!RectOf(i).bottom <= Cards!ScrolledTo(i) + win.height
<1>1. /\ win.scroll \in Nat /\ win.height \in Nat
  BY DEF CardsInv, Cards!TypeOK
<1> DEFINE s == win.scroll
           h == win.height
           moved == IF TopOf(i) < s + 8 \/ i = 11 THEN TopOf(i) - 8
                    ELSE IF TopOf(i) + HeightOf(i) > s + h - 8
                         THEN TopOf(i) + HeightOf(i) - h + 8
                    ELSE s
<1>2. TopOf(i) \in Nat /\ TopOf(i) >= 24 /\ HeightOf(i) \in 56..128 /\ TopOf(i) + HeightOf(i) <= 1076
  BY CardsApart
<1>3. Cards!ScrolledTo(i) = Cards!Clamp(moved, Cards!Limit(h))
  <2>1. Cards!RectOf(i).top = TopOf(i) /\ Cards!RectOf(i).bottom = TopOf(i) + HeightOf(i)
    BY CardRects
  <2>2. Cards!Card.diagnostics = 11
    BY DEF Cards!Card
  <2> DEFINE was == IF Cards!RectOf(i).top < s + 8 \/ i = Cards!Card.diagnostics
                    THEN Cards!RectOf(i).top - 8
                    ELSE IF Cards!RectOf(i).bottom > s + h - 8
                         THEN Cards!RectOf(i).bottom - h + 8
                    ELSE s
  <2>3. was = moved
    <3>1. i \in Int
      BY DEF CardNo
    <3> QED BY <1>1, <1>2, <2>1, <2>2, <3>1
  <2>4. Cards!ScrolledTo(i) = Cards!Clamp(was, Cards!Limit(h))
    BY DEF Cards!ScrolledTo
  <2> HIDE DEF was, moved
  <2> QED BY <2>3, <2>4
<1>4. moved \in Int
  BY <1>1, <1>2
<1> HIDE DEF moved, h
<1>5. /\ Cards!Limit(h) = IF h < 1100 THEN 1100 - h ELSE 0
      /\ Cards!Clamp(moved, Cards!Limit(h)) = IF moved < 0 THEN 0
                                              ELSE IF moved < Cards!Limit(h) THEN moved ELSE Cards!Limit(h)
      /\ Cards!Clamp(moved, Cards!Limit(h)) \in Nat
  <2>1. h \in Nat
    BY <1>1 DEF h
  <2> QED BY <1>4, <2>1, Clamped
<1>6. Cards!RectOf(i).top = TopOf(i) /\ Cards!RectOf(i).bottom = TopOf(i) + HeightOf(i)
  BY CardRects
<1> QED BY <1>1, <1>2, <1>3, <1>5, <1>6 DEF moved, h

\* However tall the window is, a scroll is a number.
LEMMA ScrollIsNat ==
  ASSUME CardsInv, NEW i \in CardNo
  PROVE  Cards!ScrolledTo(i) \in Nat
<1>1. /\ win.scroll \in Nat /\ win.height \in Nat
  BY DEF CardsInv, Cards!TypeOK
<1>2. TopOf(i) \in Nat /\ HeightOf(i) \in Nat
  BY CardsApart
<1>3. PICK x \in Int : Cards!ScrolledTo(i) = Cards!Clamp(x, Cards!Limit(win.height))
  BY <1>1, <1>2, CardRects DEF Cards!ScrolledTo
<1> QED BY <1>1, <1>3, Clamped

\* A scroll by any distance, and a new size.
LEMMA ClampIsNat ==
  ASSUME NEW scroll \in Nat, NEW x \in Int, NEW h \in Nat
  PROVE  Cards!Clamp(scroll + x, Cards!Limit(h)) \in Nat
<1>1. scroll + x \in Int
  OBVIOUS
<1> QED BY <1>1, Clamped

\* The settings scroll from the top.
LEMMA LimitIsNat ==
  ASSUME NEW h \in Nat PROVE Cards!Limit(h) \in Nat
<1>1. Cards!Limit(h) = IF h < 1100 THEN 1100 - h ELSE 0
  BY Clamped, 0 \in Int
<1> QED BY <1>1

\* A step that only scrolls.
LEMMA ScrollByKeeps ==
  ASSUME CardsInv, NEW x \in Int, Cards!ScrollBy(x)
  PROVE  CardsInv' /\ win'.focus = win.focus
<1> USE DEF Cards!NoCard, Cards!NCards
<1>1. win' = [win EXCEPT !.scroll = Cards!Clamp(@ + x, Cards!Limit(win.height))]
      /\ UNCHANGED poll /\ Cards!Render
  BY DEF Cards!ScrollBy
<1>2. Cards!Clamp(win.scroll + x, Cards!Limit(win.height)) \in Nat
  BY ClampIsNat DEF CardsInv, Cards!TypeOK
<1>3. win' \in [exists : BOOLEAN, visible : BOOLEAN, height : Nat, scroll : Nat, focus : -1..15]
      /\ win'.exists = win.exists /\ win'.visible = win.visible /\ win'.height = win.height
      /\ win'.focus = win.focus
  BY <1>1, <1>2 DEF CardsInv, Cards!TypeOK
<1> QED BY <1>1, <1>3, RenderDraws DEF CardsInv, Cards!TypeOK

\* A step that gives a card the focus and scrolls it into the window.
LEMMA FocusKeeps ==
  ASSUME CardsInv, NEW i \in CardNo, Cards!Render, UNCHANGED poll,
         win' = [win EXCEPT !.focus = i, !.scroll = Cards!ScrolledTo(i)]
  PROVE  /\ CardsInv'
         /\ win.visible => Cards!FocusInView'
<1> USE DEF Cards!NoCard, Cards!NCards
<1>1. Cards!ScrolledTo(i) \in Nat
  BY ScrollIsNat
<1>2. win' \in [exists : BOOLEAN, visible : BOOLEAN, height : Nat, scroll : Nat, focus : -1..15]
      /\ win'.exists = win.exists /\ win'.visible = win.visible /\ win'.height = win.height
      /\ win'.focus = i /\ win'.scroll = Cards!ScrolledTo(i)
  <2> DEFINE scroll == Cards!ScrolledTo(i)
  <2> HIDE DEF scroll
  <2>1. scroll \in Nat /\ win' = [win EXCEPT !.focus = i, !.scroll = scroll]
    BY <1>1 DEF scroll
  <2>2. win \in [exists : BOOLEAN, visible : BOOLEAN, height : Nat, scroll : Nat, focus : -1..15]
    BY DEF CardsInv, Cards!TypeOK
  <2>3. i \in -1..15
    BY DEF CardNo
  <2>4. win' \in [exists : BOOLEAN, visible : BOOLEAN, height : Nat, scroll : Nat, focus : -1..15]
        /\ win'.exists = win.exists /\ win'.visible = win.visible /\ win'.height = win.height
        /\ win'.focus = i /\ win'.scroll = scroll
    BY <2>1, <2>2, <2>3
  <2> QED BY <2>4 DEF scroll
<1>3. CardsInv'
  BY <1>2, RenderDraws DEF CardsInv, Cards!TypeOK
<1>4. ASSUME win.visible PROVE Cards!FocusInView'
  <2>1. win.height >= 136
    BY <1>4, CardsAssumption DEF CardsInv
  <2> QED BY <1>2, <2>1, ScrollShows DEF Cards!FocusInView
<1> QED BY <1>3, <1>4

\* Every step of the settings window keeps what it keeps, and a card that it
\* focuses in a visible window is seen there.
LEMMA CardsKeep ==
  ASSUME CardsInv, SettingsStep
  PROVE  /\ CardsInv'
         /\ (win.visible /\ win'.visible /\ win'.focus # win.focus /\ win'.focus >= 0)
              => \/ Cards!FocusInView'
                 \/ win'.scroll = win.scroll /\ Cards!PartlyInView'
<1> USE DEF Cards!NoCard, Cards!NCards
<1> DEFINE Win == [exists : BOOLEAN, visible : BOOLEAN, height : Nat, scroll : Nat, focus : -1..15]
           Poll == [saved : Nat, secs : Nat, timer : Nat]
<1>0. win \in Win /\ poll \in Poll /\ poll.saved = poll.secs /\ poll.timer = poll.secs
  BY DEF CardsInv, Cards!TypeOK
<1>1. CASE Cards!Open
  <2>1. PICK height \in (IF win.exists THEN {win.height} ELSE Heights) :
          win' = [exists |-> TRUE, visible |-> TRUE, height |-> height, scroll |-> 0, focus |-> -1]
    BY <1>1 DEF Cards!Open
  <2>2. height \in Heights /\ height \in Nat
    BY <2>1, CardsAssumption DEF CardsInv
  <2>3. win' \in Win
    BY <2>1, <2>2
  <2>4. UNCHANGED poll /\ Cards!Render
    BY <1>1 DEF Cards!Open
  <2>5. CardsInv'
    BY <1>0, <2>1, <2>2, <2>3, <2>4, RenderDraws
  <2> QED BY <2>1, <2>5
<1>2. CASE Cards!Close
  <2>1. win' = [win EXCEPT !.visible = FALSE] /\ shown' = None /\ UNCHANGED poll
    BY <1>2 DEF Cards!Close
  <2>2. win' \in Win /\ ~win'.visible /\ win'.exists = win.exists /\ win'.height = win.height
    BY <1>0, <2>1
  <2> QED BY <1>0, <2>1, <2>2 DEF CardsInv, Cards!TypeOK
<1>3. ASSUME NEW back \in BOOLEAN, Cards!Tab(back) PROVE CardsInv' /\ Cards!FocusInView'
  <2> DEFINE i == IF win.focus < 0 THEN (IF back THEN 15 ELSE 0)
                  ELSE IF back THEN (win.focus - 1 + 16) % 16
                  ELSE (win.focus + 1) % 16
  <2>1. win' = [win EXCEPT !.focus = i, !.scroll = Cards!ScrolledTo(i)]
    BY <1>3 DEF Cards!Tab
  <2>2. win.focus \in -1..15
    BY <1>0
  <2>3. i \in CardNo
    BY <2>2 DEF CardNo
  <2> HIDE DEF i
  <2>4. win.visible /\ UNCHANGED poll /\ Cards!Render
    BY <1>3 DEF Cards!Tab
  <2> QED BY <2>1, <2>3, <2>4, FocusKeeps
<1>4. CASE Cards!Wheel
  <2>1. PICK notches \in Notches : Cards!ScrollBy(-notches * 48)
    BY <1>4 DEF Cards!Wheel
  <2>2. -notches * 48 \in Int
    BY FlyoutAssumption
  <2>3. PICK x \in Int : Cards!ScrollBy(x)
    BY <2>1, <2>2
  <2> QED BY <2>3, ScrollByKeeps
<1>5. CASE Cards!Page
  <2>1. PICK direction \in {-1, 1} : Cards!ScrollBy(direction * ((win.height * 4) \div 5))
    BY <1>5 DEF Cards!Page
  <2>2. direction * ((win.height * 4) \div 5) \in Int
    <3>1. (win.height * 4) \div 5 \in Int
      BY <1>0
    <3> QED BY <3>1
  <2>3. PICK x \in Int : Cards!ScrollBy(x)
    BY <2>1, <2>2
  <2> QED BY <2>3, ScrollByKeeps
<1>6. CASE Cards!HomeOrEnd
  <2>1. PICK scroll \in {0, Cards!Limit(win.height)} : win' = [win EXCEPT !.scroll = scroll]
    BY <1>6 DEF Cards!HomeOrEnd
  <2>2. UNCHANGED poll /\ Cards!Render
    BY <1>6 DEF Cards!HomeOrEnd
  <2>3. Cards!Limit(win.height) \in Nat
    BY <1>0, LimitIsNat
  <2>4. win' \in Win /\ win'.exists = win.exists /\ win'.visible = win.visible
        /\ win'.height = win.height /\ win'.focus = win.focus
    BY <1>0, <2>1, <2>3
  <2>5. CardsInv'
    BY <1>0, <2>2, <2>4, RenderDraws DEF CardsInv
  <2> QED BY <2>4, <2>5
<1>7. CASE Cards!LeftOrRight
  <2>1. UNCHANGED win /\ Cards!Render
    BY <1>7 DEF Cards!LeftOrRight
  <2>2. PICK direction \in {-1, 1} : Cards!Step(direction)
    BY <1>7 DEF Cards!LeftOrRight
  <2>3. CardsInv'
    BY <1>0, <2>1, <2>2, StepKeeps, RenderDraws DEF CardsInv
  <2> QED BY <2>1, <2>3
<1>8. CASE Cards!Press
  <2>1. win.focus \in CardNo /\ Cards!Activate(win.focus)
    BY <1>0, <1>8 DEF Cards!Press, CardNo
  <2> QED BY <2>1, ActivateKeeps
<1>9. CASE Cards!Click
  <2>1. PICK y \in Cards!EdgesInWindow :
             /\ Cards!SettingsHit(y) # -1
             /\ win' = [win EXCEPT !.focus = Cards!SettingsHit(y)]
    BY <1>9 DEF Cards!Click
  <2>2. Cards!Render /\ win.visible
    BY <1>9 DEF Cards!Click
  <2> DEFINE i == Cards!SettingsHit(y)
  <2>3. /\ \/ \E secs \in {Cards!Intervals[k] : k \in DOMAIN Cards!Intervals} : Cards!ApplyInterval(secs)
           \/ UNCHANGED poll
    BY <1>9 DEF Cards!Click
  <2>4. poll' \in Poll /\ poll'.saved = poll'.secs /\ poll'.timer = poll'.secs
    <3>1. \A k \in DOMAIN Cards!Intervals : Cards!Intervals[k] \in Nat
      BY DEF Cards!Intervals
    <3> QED BY <1>0, <2>3, <3>1, IntervalKept
  <2>5. y \in 0..(win.height - 1)
    BY <2>1 DEF Cards!EdgesInWindow
  <2>6. /\ i \in CardNo
        /\ Cards!RectOf(i).top - win.scroll <= y
        /\ y <= Cards!RectOf(i).bottom - win.scroll
    BY <1>0, <2>1, <2>5, HitLiesOnCard
  <2> HIDE DEF i
  <2>7. win' \in Win /\ win'.exists = win.exists /\ win'.visible = win.visible
        /\ win'.height = win.height /\ win'.scroll = win.scroll /\ win'.focus = i
    BY <1>0, <2>1, <2>6 DEF i, CardNo
  <2>8. CardsInv'
    BY <2>2, <2>4, <2>7, RenderDraws DEF CardsInv
  <2>9. Cards!PartlyInView'
    <3>1. Cards!RectOf(i).top \in Int /\ Cards!RectOf(i).bottom \in Int
      BY <2>6, CardRects, CardsApart
    <3>2. /\ Cards!RectOf(i).bottom >= win.scroll
          /\ Cards!RectOf(i).top <= win.scroll + win.height
      BY <1>0, <2>5, <2>6, <3>1
    <3> QED BY <2>7, <3>2 DEF Cards!PartlyInView
  <2> QED BY <2>7, <2>8, <2>9
<1>10. CASE Cards!UiaFocus
  <2>1. PICK i \in CardNo : win' = [win EXCEPT !.focus = i, !.scroll = Cards!ScrolledTo(i)]
    <3>1. \E i \in 0..(Cards!NCards - 1) : win' = [win EXCEPT !.focus = i, !.scroll = Cards!ScrolledTo(i)]
      BY <1>10, Zenon DEF Cards!UiaFocus
    <3>2. 0..(Cards!NCards - 1) = CardNo
      BY DEF CardNo
    <3> QED BY <3>1, <3>2, Zenon
  <2>2. UNCHANGED poll /\ Cards!Render
    BY <1>10 DEF Cards!UiaFocus
  <2> QED BY <2>1, <2>2, FocusKeeps
<1>11. CASE Cards!UiaInvoke
  <2>1. PICK i \in CardNo : Cards!Activate(i)
    BY <1>11 DEF Cards!UiaInvoke, CardNo
  <2> QED BY <2>1, ActivateKeeps
<1>12. CASE Cards!Resize
  <2>1. PICK height \in Heights :
          win' = [win EXCEPT !.height = height, !.scroll = Cards!Clamp(@, Cards!Limit(height))]
    BY <1>12 DEF Cards!Resize
  <2>2. UNCHANGED poll /\ Cards!Render
    BY <1>12 DEF Cards!Resize
  <2>3. height \in Nat /\ Cards!Clamp(win.scroll, Cards!Limit(height)) \in Nat
    BY <1>0, CardsAssumption, Clamped
  <2>4. win' \in Win /\ win'.exists = win.exists /\ win'.visible = win.visible
        /\ win'.height \in Heights /\ win'.focus = win.focus
    BY <1>0, <2>1, <2>3
  <2>5. CardsInv'
    BY <1>0, <2>2, <2>4, RenderDraws DEF CardsInv
  <2> QED BY <2>4, <2>5
<1>13. CASE Cards!Repaint
  <2>1. UNCHANGED <<win, poll>> /\ Cards!Render
    BY <1>13 DEF Cards!Repaint
  <2>2. CardsInv'
    BY <1>0, <2>1, RenderDraws DEF CardsInv
  <2> QED BY <2>1, <2>2
<1> QED BY <1>1, <1>2, <1>3, <1>4, <1>5, <1>6, <1>7, <1>8, <1>9, <1>10, <1>11, <1>12, <1>13
        DEF SettingsStep

-----------------------------------------------------------------------------
\* The settings window as a whole.
LEMMA CardsStart == WindowsInit => CardsInv
<1> SUFFICES ASSUME WindowsInit PROVE CardsInv
  OBVIOUS
<1>1. PICK secs \in Saved : poll = [saved |-> secs, secs |-> secs, timer |-> secs]
  BY DEF WindowsInit, Cards!Init
<1>2. win = [exists |-> FALSE, visible |-> FALSE, height |-> 0, scroll |-> 0, focus |-> -1]
      /\ shown = None
  BY DEF WindowsInit, Cards!Init, Cards!NoCard
<1> QED BY <1>1, <1>2, CardsAssumption DEF CardsInv, Cards!TypeOK, Cards!NoCard, Cards!NCards

\* Every step keeps the invariant of the settings window.
LEMMA CardsStepKeeps == CardsInv /\ [WindowsNext]_windowsVars => CardsInv'
<1> SUFFICES ASSUME CardsInv, [WindowsNext]_windowsVars PROVE CardsInv'
  OBVIOUS
<1>1. CASE SettingsStep
  BY <1>1, CardsKeep
<1>2. CASE UNCHANGED <<win, poll, shown>>
  BY <1>2 DEF CardsInv, Cards!TypeOK
<1>3. CASE FlyoutStep
  BY <1>2, <1>3 DEF FlyoutStep, InFlyout, cardsVars
<1> QED BY <1>1, <1>2, <1>3 DEF WindowsNext, windowsVars, cardsVars

\* The settings window keeps its invariant.
LEMMA CardsAlways == WindowsSpec => []CardsInv
<1> QED BY CardsStart, CardsStepKeeps, PTL DEF WindowsSpec

\* A card of the settings window is one card to the mouse, the keys and the
\* clients, and the interval it shows is the one saved and in force
\* (render_settings, settings_hit, settings_items, apply_interval).
THEOREM CardsAreOne == WindowsSpec => []CardsAreTrue
<1>1. CardsInv => CardsAreTrue
  <2> SUFFICES ASSUME CardsInv PROVE CardsAreTrue
    OBVIOUS
  <2>1. ASSUME win.visible, NEW i \in CardNo,
               NEW y \in {Cards!RectOf(i).top - shown.scroll, Cards!RectOf(i).bottom - shown.scroll}
        PROVE  Cards!SettingsHit(y) = i
    <3>1. shown.scroll = win.scroll /\ win.scroll \in Nat
      BY <2>1 DEF CardsInv, Cards!TypeOK
    <3> QED BY <2>1, <3>1, EdgeHits
  <2>2. Cards!CardsReachTheirs
    BY <2>1, CardsNumbered DEF CardsInv, Cards!CardsReachTheirs, CardNo, Cards!NCards
  <2> QED BY <2>2 DEF CardsInv, CardsAreTrue
<1> QED BY <1>1, CardsAlways, PTL

-----------------------------------------------------------------------------
(* The flyout's layout.                                                     *)

\* A section as it is kept: what it shows is a note or rows.
ASections == [status : BOOLEAN, body : {Note} \cup Seq(BOOLEAN)]

\* Where the body of a section begins that follows y, and where it ends.
BodyTop(y, s, k) == y + (IF k = 1 THEN 36 ELSE 69) + (IF s.status THEN 24 ELSE 0)
BodyEnd(top, body) == IF body = Note THEN top + 16
                      ELSE IF Len(body) = 0 THEN top ELSE top + (Len(body) - 1) * 72 + 56
SectionEnd(y, s, k) == BodyEnd(BodyTop(y, s, k), s.body)

\* The texts of a section, and its caption lines with what is drawn on them.
StatusOf(top, s) == IF s.status THEN {Thing("status", Rect(16, top - 24, 312, top - 8))} ELSE {}
RowText(top, i) == Thing("row", Rect(16, top + (i - 1) * 72, 312, top + (i - 1) * 72 + 56))
BodyTexts(top, body) == IF body = Note THEN {Thing("note", Rect(16, top, 312, top + 16))}
                        ELSE {RowText(top, i) : i \in DOMAIN body}
BodyLines(top, body) == IF body = Note THEN {}
                        ELSE {[top |-> top + (i - 1) * 72 + 40, reset |-> body[i]] : i \in DOMAIN body}
Marks(lines) == {Thing("quota", Rect(16, c.top, 112, c.top + 16)) : c \in lines}
                \cup {Thing("reset", Rect(112, c.top, 312, c.top + 16)) : c \in {d \in lines : d.reset}}

Texts(y, s, k) == StatusOf(BodyTop(y, s, k), s) \cup BodyTexts(BodyTop(y, s, k), s.body)
LinesOf(y, s, k) == BodyLines(BodyTop(y, s, k), s.body)

\* The numbers of the layout.
LEMMA Numbers ==
  /\ Pad = 16 /\ TitleH = 20 /\ SectionGap = 16 /\ Gap = 8 /\ CaptionH = 16 /\ RowGap = 16
  /\ SecGap = 16 /\ RowBlock = 56 /\ FlyoutW = 328 /\ VibeH = 60 /\ VibeGap = 12
  /\ LabelH = 20 /\ BarH = 4
  /\ GearRect = Rect(284, 12, 312, 40) /\ RefreshRect = Rect(252, 12, 280, 40)
<1> USE DEF Pad, TitleH, SectionGap, Gap, CaptionH, RowGap, SecGap, RowBlock, FlyoutW, VibeH, VibeGap,
            LabelH, BarH, Btn
<1>1. HeaderTop = 12
  BY DEF HeaderTop
<1>2. GearRect = Rect(284, 12, 312, 40)
  BY <1>1 DEF GearRect
<1>3. GearRect.left = 284
  BY <1>2 DEF Rect
<1>4. RefreshRect = Rect(252, 12, 280, 40)
  BY <1>1, <1>3 DEF RefreshRect
<1> QED BY <1>2, <1>4

\* One row is drawn as its text and the two captions under it.
LEMMA RowDrawn ==
  ASSUME NEW y \in Int, NEW reset
  PROVE  DrawRow(y, reset) = {Thing("row", Rect(16, y, 312, y + 56))}
                             \cup Marks({[top |-> y + 40, reset |-> reset]})
<1> DEFINE c == [top |-> y + 40, reset |-> reset]
<1>1. y + LabelH + Gap + BarH + Gap = y + 40 /\ (y + 40) + CaptionH = y + 56
      /\ Pad + 96 = 112 /\ FlyoutW - Pad = 312 /\ Pad = 16
  BY Numbers
<1>2. DrawRow(y, reset) = {Thing("row", Rect(16, y, 312, y + 56)),
                           Thing("quota", Rect(16, y + 40, 112, y + 56))}
                          \cup (IF reset THEN {Thing("reset", Rect(112, y + 40, 312, y + 56))} ELSE {})
  BY <1>1 DEF DrawRow
<1>3. c.top = y + 40 /\ c.reset = reset /\ c.top + 16 = y + 56
  OBVIOUS
<1> HIDE DEF c
<1>4. Marks({c}) = {Thing("quota", Rect(16, c.top, 112, c.top + 16))}
                   \cup (IF c.reset THEN {Thing("reset", Rect(112, c.top, 312, c.top + 16))} ELSE {})
  <2>1. {d \in {c} : d.reset} = IF c.reset THEN {c} ELSE {}
    OBVIOUS
  <2> QED BY <2>1 DEF Marks
<1> QED BY <1>2, <1>3, <1>4 DEF c

\* Where a body ends, as it is computed for the drawing, the spoken texts and
\* the captions.
LEMMA EndIsBodyEnd ==
  ASSUME NEW y \in Int, NEW body \in {Note} \cup Seq(BOOLEAN)
  PROVE  /\ (IF body = Note THEN y + CaptionH
             ELSE IF Len(body) = 0 THEN y
             ELSE y + (Len(body) - 1) * (RowBlock + RowGap) + RowBlock) = BodyEnd(y, body)
         /\ BodyEnd(y, body) \in Int
         /\ BodyEnd(y, body) >= y
<1>1. CASE body = Note
  BY <1>1, Numbers DEF BodyEnd
<1>2. CASE body # Note
  <2>1. Len(body) \in Nat
    BY <1>2
  <2>2. RowBlock + RowGap = 72 /\ RowBlock = 56
    BY Numbers
  <2> QED BY <1>2, <2>1, <2>2 DEF BodyEnd
<1> QED BY <1>1, <1>2

\* What is drawn on several lines is drawn on each.
LEMMA MarksOfUnion ==
  ASSUME NEW lines
  PROVE  \A x : x \in Marks(lines) <=> \E c \in lines : x \in Marks({c})
<1>1. \A c \in lines : Marks({c}) = {Thing("quota", Rect(16, c.top, 112, c.top + 16))}
                   \cup (IF c.reset THEN {Thing("reset", Rect(112, c.top, 312, c.top + 16))} ELSE {})
  BY DEF Marks
<1> QED BY <1>1 DEF Marks

\* A section's body is drawn as its texts and the marks of its lines.
LEMMA BodyDrawn ==
  ASSUME NEW y \in Int, NEW things, NEW body \in {Note} \cup Seq(BOOLEAN)
  PROVE  DrawBody([y |-> y, things |-> things], body)
           = [y |-> BodyEnd(y, body), things |-> things \cup (BodyTexts(y, body) \cup Marks(BodyLines(y, body)))]
<1> DEFINE at == [y |-> y, things |-> things]
           Top(i) == at.y + (i - 1) * (RowBlock + RowGap)
<1>1. CASE body = Note
  <2>1. Marks({}) = {}
    BY DEF Marks
  <2>2. BodyTexts(y, body) \cup Marks(BodyLines(y, body)) = {Thing("note", Rect(16, y, 312, y + 16))}
    BY <1>1, <2>1 DEF BodyTexts, BodyLines
  <2>3. DrawBody(at, body) = [y |-> y + CaptionH,
                              things |-> things \cup {Thing("note", Rect(Pad, y, FlyoutW - Pad, y + CaptionH))}]
    BY <1>1 DEF DrawBody
  <2>4. Pad = 16 /\ FlyoutW - Pad = 312 /\ CaptionH = 16
    BY Numbers
  <2> QED BY <1>1, <2>2, <2>3, <2>4 DEF BodyEnd
<1>2. CASE body # Note
  <2> DEFINE rows == UNION {DrawRow(Top(i), body[i]) : i \in DOMAIN body}
             lines == BodyLines(y, body)
  <2>1. DrawBody(at, body) = [y |-> IF Len(body) = 0 THEN at.y ELSE Top(Len(body)) + RowBlock,
                              things |-> at.things \cup rows]
    BY <1>2 DEF DrawBody
  <2>2. (IF Len(body) = 0 THEN at.y ELSE Top(Len(body)) + RowBlock) = BodyEnd(y, body)
    BY <1>2, EndIsBodyEnd
  <2>3. \A i \in DOMAIN body : DrawRow(Top(i), body[i])
           = {RowText(y, i)} \cup Marks({[top |-> y + (i - 1) * 72 + 40, reset |-> body[i]]})
    <3> SUFFICES ASSUME NEW i \in DOMAIN body
                 PROVE  DrawRow(Top(i), body[i])
                          = {RowText(y, i)} \cup Marks({[top |-> y + (i - 1) * 72 + 40, reset |-> body[i]]})
      OBVIOUS
    <3>1. i \in Int /\ body[i] \in BOOLEAN
      BY <1>2
    <3>2. Top(i) = y + (i - 1) * 72 /\ Top(i) \in Int
      <4>1. RowBlock + RowGap = 72
        BY Numbers
      <4> QED BY <3>1, <4>1
    <3> DEFINE z == Top(i)
               b == body[i]
    <3>3. z \in Int /\ b \in BOOLEAN /\ z = y + (i - 1) * 72
      BY <3>1, <3>2
    <3> HIDE DEF z, b
    <3>4. DrawRow(z, b) = {Thing("row", Rect(16, z, 312, z + 56))} \cup Marks({[top |-> z + 40, reset |-> b]})
      BY <3>3, RowDrawn
    <3>5. RowText(y, i) = Thing("row", Rect(16, z, 312, z + 56))
      BY <3>3 DEF RowText
    <3> QED BY <3>3, <3>4, <3>5 DEF z, b
  <2>4. lines = {[top |-> y + (i - 1) * 72 + 40, reset |-> body[i]] : i \in DOMAIN body}
    BY <1>2 DEF BodyLines
  <2> DEFINE Line(i) == [top |-> y + (i - 1) * 72 + 40, reset |-> body[i]]
             Row(i) == DrawRow(Top(i), body[i])
  <2>5. \A x : x \in Marks(lines) <=> \E i \in DOMAIN body : x \in Marks({Line(i)})
    <3>1. lines = {Line(i) : i \in DOMAIN body}
      BY <2>4
    <3>2. \A c : c \in lines <=> \E i \in DOMAIN body : c = Line(i)
      BY <3>1
    <3> HIDE DEF Line, lines
    <3>3. \A x : x \in Marks(lines) <=> \E c \in lines : x \in Marks({c})
      BY MarksOfUnion, Zenon
    <3> QED BY <3>2, <3>3, Zenon
  <2>6. BodyTexts(y, body) = {RowText(y, i) : i \in DOMAIN body}
    BY <1>2 DEF BodyTexts
  <2>7. rows = BodyTexts(y, body) \cup Marks(lines)
    <3>1. \A i \in DOMAIN body : Row(i) = {RowText(y, i)} \cup Marks({Line(i)})
      BY <2>3
    <3>2. rows = UNION {Row(i) : i \in DOMAIN body}
      OBVIOUS
    <3> HIDE DEF Row, lines, Line, rows
    <3>3. \A x : x \in rows <=> \E i \in DOMAIN body : x = RowText(y, i) \/ x \in Marks({Line(i)})
      BY <3>1, <3>2
    <3> QED BY <2>5, <2>6, <3>3
  <2> QED BY <2>1, <2>2, <2>7
<1> QED BY <1>1, <1>2

\* A section is drawn below what comes before it.
LEMMA SectionDrawn ==
  ASSUME NEW y \in Int, NEW things, NEW s \in ASections, NEW k \in {1, 2}
  PROVE  DrawSection([y |-> y, things |-> things], s, k)
           = [y |-> SectionEnd(y, s, k),
              things |-> things \cup (Texts(y, s, k) \cup Marks(LinesOf(y, s, k)))]
<1> DEFINE at == [y |-> y, things |-> things]
           top == BodyTop(y, s, k)
           begin == at.y + (IF k = 1 THEN 0 ELSE SecGap + 1 + SecGap) + TitleH + SectionGap
           line == Thing("status", Rect(Pad, begin, FlyoutW - Pad, begin + CaptionH))
           body == IF s.status THEN [y |-> begin + CaptionH + Gap, things |-> things \cup {line}]
                   ELSE [y |-> begin, things |-> things]
<1>1. top = (IF s.status THEN begin + 24 ELSE begin) /\ begin \in Int /\ top \in Int
  BY Numbers DEF BodyTop
<1>2. s.status \in BOOLEAN /\ s.body \in {Note} \cup Seq(BOOLEAN)
  BY DEF ASections
<1>3. DrawSection(at, s, k) = DrawBody(body, s.body)
  BY DEF DrawSection
<1>4. body = [y |-> top, things |-> things \cup StatusOf(top, s)]
  <2>1. CASE s.status
    <3>1. begin + CaptionH + Gap = top /\ begin = top - 24 /\ begin + CaptionH = top - 8
          /\ Pad = 16 /\ FlyoutW - Pad = 312
      BY <1>1, <2>1, Numbers
    <3>2. StatusOf(top, s) = {line}
      BY <2>1, <3>1 DEF StatusOf
    <3> QED BY <2>1, <3>1, <3>2
  <2>2. CASE ~s.status
    BY <1>1, <2>2 DEF StatusOf
  <2> QED BY <1>2, <2>1, <2>2
<1> HIDE DEF body
<1>5. DrawBody(body, s.body)
        = [y |-> BodyEnd(top, s.body),
           things |-> (things \cup StatusOf(top, s)) \cup (BodyTexts(top, s.body) \cup Marks(BodyLines(top, s.body)))]
  BY <1>1, <1>2, <1>4, BodyDrawn
<1>6. (things \cup StatusOf(top, s)) \cup (BodyTexts(top, s.body) \cup Marks(BodyLines(top, s.body)))
        = things \cup (Texts(y, s, k) \cup Marks(LinesOf(y, s, k)))
  BY DEF Texts, LinesOf
<1> QED BY <1>3, <1>5, <1>6 DEF SectionEnd
\* The captions of a section are found where they are drawn.
LEMMA SectionCaptions ==
  ASSUME NEW y \in Int, NEW lines, NEW s \in ASections, NEW k \in {1, 2}
  PROVE  CaptionsOfSection([y |-> y, lines |-> lines], s, k)
           = [y |-> SectionEnd(y, s, k), lines |-> lines \cup LinesOf(y, s, k)]
<1> DEFINE at == [y |-> y, lines |-> lines]
           top == BodyTop(y, s, k)
           body == s.body
           Top(i) == top + (i - 1) * (RowBlock + RowGap)
<1>1. top \in Int /\ s.body \in {Note} \cup Seq(BOOLEAN)
  BY DEF BodyTop, ASections
<1>2. y + (IF k = 1 THEN 0 ELSE SecGap + 1 + SecGap) + TitleH + SectionGap
        + (IF s.status THEN CaptionH + Gap ELSE 0) = top
  BY Numbers DEF BodyTop, ASections
<1>3. CaptionsOfSection(at, s, k) = CaptionsOfBody([y |-> top, lines |-> lines], body)
  <2>1. [at EXCEPT !.y = @ + (IF k = 1 THEN 0 ELSE SecGap + 1 + SecGap) + TitleH + SectionGap
                          + (IF s.status THEN CaptionH + Gap ELSE 0)] = [y |-> top, lines |-> lines]
    BY <1>2
  <2> QED BY <2>1 DEF CaptionsOfSection
<1> HIDE DEF top, body
<1>4. CASE body = Note
  <2>1. CaptionsOfBody([y |-> top, lines |-> lines], body) = [y |-> top + 16, lines |-> lines]
    BY <1>4, Numbers DEF CaptionsOfBody
  <2>2. LinesOf(y, s, k) = {}
    BY <1>4 DEF LinesOf, BodyLines, body
  <2> QED BY <1>3, <1>4, <2>1, <2>2 DEF SectionEnd, BodyEnd, top, body
<1>5. CASE body # Note
  <2>1. CaptionsOfBody([y |-> top, lines |-> lines], body)
          = [y |-> IF Len(body) = 0 THEN top ELSE Top(Len(body)) + RowBlock,
             lines |-> lines \cup {[top |-> Top(i) + RowBlock - CaptionH, reset |-> body[i]] : i \in DOMAIN body}]
    BY <1>5 DEF CaptionsOfBody
  <2>2. (IF Len(body) = 0 THEN top ELSE Top(Len(body)) + RowBlock) = SectionEnd(y, s, k)
    BY <1>1, <1>5, EndIsBodyEnd DEF SectionEnd, top, body
  <2>3. {[top |-> Top(i) + RowBlock - CaptionH, reset |-> body[i]] : i \in DOMAIN body} = LinesOf(y, s, k)
    <3>1. \A i \in DOMAIN body : Top(i) + RowBlock - CaptionH = top + (i - 1) * 72 + 40
      <4>1. RowBlock + RowGap = 72 /\ RowBlock = 56 /\ CaptionH = 16
        BY Numbers
      <4>2. \A i \in DOMAIN body : i \in Int
        BY <1>1, <1>5 DEF body
      <4> QED BY <1>1, <4>1, <4>2
    <3>2. LinesOf(y, s, k) = {[top |-> top + (i - 1) * 72 + 40, reset |-> body[i]] : i \in DOMAIN body}
      BY <1>5 DEF LinesOf, BodyLines, body, top
    <3> HIDE DEF Top
    <3> QED BY <3>1, <3>2
  <2> QED BY <1>3, <2>1, <2>2, <2>3
<1> QED BY <1>4, <1>5

\* What has been spoken.
Said(spoken) == {spoken[k] : k \in DOMAIN spoken}

\* Saying one list after another says what both say.
LEMMA SaidOn ==
  ASSUME NEW T, NEW s \in Seq(T), NEW more \in Seq(T)
  PROVE  /\ s \o more \in Seq(T) /\ Said(s \o more) = Said(s) \cup Said(more)
         /\ \A k \in DOMAIN s : (s \o more)[k] = s[k]
<1>1. /\ s \o more \in Seq(T) /\ Len(s \o more) = Len(s) + Len(more)
      /\ DOMAIN s = 1..Len(s) /\ DOMAIN more = 1..Len(more) /\ DOMAIN (s \o more) = 1..(Len(s) + Len(more))
      /\ Len(s) \in Nat /\ Len(more) \in Nat
  OBVIOUS
<1>2. \A k \in DOMAIN s : k \in DOMAIN (s \o more) /\ (s \o more)[k] = s[k]
  BY <1>1
<1>3. \A k \in DOMAIN more : Len(s) + k \in DOMAIN (s \o more) /\ (s \o more)[Len(s) + k] = more[k]
  BY <1>1
<1>4. \A k \in DOMAIN (s \o more) : \/ k \in DOMAIN s
                                   \/ \E j \in DOMAIN more : k = Len(s) + j
  <2> SUFFICES ASSUME NEW k \in DOMAIN (s \o more), k \notin DOMAIN s
               PROVE  \E j \in DOMAIN more : k = Len(s) + j
    OBVIOUS
  <2>1. k - Len(s) \in DOMAIN more /\ k = Len(s) + (k - Len(s))
    BY <1>1
  <2> QED BY <2>1
<1>5. \A x : x \in Said(s \o more) <=> x \in Said(s) \/ x \in Said(more)
  <2> SUFFICES ASSUME NEW x PROVE x \in Said(s \o more) <=> x \in Said(s) \/ x \in Said(more)
    OBVIOUS
  <2>1. ASSUME x \in Said(s) PROVE x \in Said(s \o more)
    <3>1. PICK k \in DOMAIN s : x = s[k]
      BY <2>1 DEF Said
    <3> QED BY <1>2, <3>1 DEF Said
  <2>2. ASSUME x \in Said(more) PROVE x \in Said(s \o more)
    <3>1. PICK k \in DOMAIN more : x = more[k]
      BY <2>2 DEF Said
    <3> QED BY <1>3, <3>1 DEF Said
  <2>3. ASSUME x \in Said(s \o more) PROVE x \in Said(s) \/ x \in Said(more)
    <3>1. PICK k \in DOMAIN (s \o more) : x = (s \o more)[k]
      BY <2>3 DEF Said
    <3>2. CASE k \in DOMAIN s
      BY <1>2, <3>1, <3>2 DEF Said
    <3>3. CASE k \notin DOMAIN s
      <4>1. PICK j \in DOMAIN more : k = Len(s) + j
        BY <1>4, <3>3
      <4> QED BY <1>3, <3>1, <4>1 DEF Said
    <3> QED BY <3>2, <3>3
  <2> QED BY <2>1, <2>2, <2>3
<1> QED BY <1>1, <1>2, <1>5

\* One more item is one more text said.
LEMMA SaidOne ==
  ASSUME NEW T, NEW s \in Seq(T), NEW x \in T
  PROVE  Append(s, x) \in Seq(T) /\ Said(Append(s, x)) = Said(s) \cup {x}
<1> DEFINE one == <<x>>
<1>1. one \in Seq(T) /\ Append(s, x) = s \o one
  OBVIOUS
<1>2. Said(one) = {x}
  BY DEF Said
<1> HIDE DEF one
<1>3. s \o one \in Seq(T) /\ Said(s \o one) = Said(s) \cup Said(one)
  BY <1>1, SaidOn
<1> QED BY <1>1, <1>2, <1>3

\* The texts of a section are spoken where they are drawn.
LEMMA SectionSpoken ==
  ASSUME NEW y \in Int, NEW T, NEW spoken \in Seq(T), NEW s \in ASections, NEW k \in {1, 2},
         Texts(y, s, k) \subseteq T,
         NEW after, after = AccessibleSection([y |-> y, spoken |-> spoken], s, k)
  PROVE  /\ after = [y |-> SectionEnd(y, s, k), spoken |-> after.spoken]
         /\ after.spoken \in Seq(T)
         /\ Said(after.spoken) = Said(spoken) \cup Texts(y, s, k)
<1> DEFINE at == [y |-> y, spoken |-> spoken]
           top == BodyTop(y, s, k)
           begin == y + (IF k = 1 THEN 0 ELSE SecGap + 1 + SecGap) + TitleH + SectionGap
           line == Thing("status", Rect(Pad, begin, FlyoutW - Pad, begin + CaptionH))
           told == IF s.status THEN Append(spoken, line) ELSE spoken
           body == s.body
           Top(i) == top + (i - 1) * (RowBlock + RowGap)
<1>1. top = (IF s.status THEN begin + 24 ELSE begin) /\ begin \in Int /\ top \in Int
  BY Numbers DEF BodyTop
<1>2. s.status \in BOOLEAN /\ body \in {Note} \cup Seq(BOOLEAN)
  BY DEF ASections
<1>3. after = AccessibleBody([y |-> top, spoken |-> told], body)
  <2>1. begin + CaptionH + Gap = begin + 24
    BY <1>1, Numbers
  <2>2. after = AccessibleBody(IF s.status THEN [y |-> begin + CaptionH + Gap, spoken |-> Append(spoken, line)]
                               ELSE [y |-> begin, spoken |-> spoken], body)
    BY DEF AccessibleSection
  <2>3. (IF s.status THEN [y |-> begin + CaptionH + Gap, spoken |-> Append(spoken, line)]
         ELSE [y |-> begin, spoken |-> spoken]) = [y |-> top, spoken |-> told]
    BY <1>1, <1>2, <2>1
  <2> HIDE DEF body
  <2> QED BY <2>2, <2>3
<1>4. told \in Seq(T) /\ Said(told) = Said(spoken) \cup StatusOf(top, s)
  <2>1. CASE s.status
    <3>1. begin = top - 24 /\ begin + CaptionH = top - 8 /\ Pad = 16 /\ FlyoutW - Pad = 312
      BY <1>1, <2>1, Numbers
    <3>2. StatusOf(top, s) = {line}
      BY <2>1, <3>1 DEF StatusOf
    <3>3. line \in T
      BY <3>2 DEF Texts
    <3> HIDE DEF line
    <3> QED BY <2>1, <3>2, <3>3, SaidOne
  <2>2. CASE ~s.status
    BY <2>2 DEF StatusOf
  <2> QED BY <1>2, <2>1, <2>2
<1>5. BodyTexts(top, body) \subseteq T
  BY DEF Texts
<1>6. Texts(y, s, k) = StatusOf(top, s) \cup BodyTexts(top, body)
  BY DEF Texts
<1>7. SectionEnd(y, s, k) = BodyEnd(top, body)
  BY DEF SectionEnd
<1> HIDE DEF told, top, body
<1>8. CASE body = Note
  <2> DEFINE text == Thing("note", Rect(16, top, 312, top + 16))
  <2>1. BodyTexts(top, body) = {text}
    BY <1>8 DEF BodyTexts
  <2>2. Pad = 16 /\ FlyoutW - Pad = 312 /\ CaptionH = 16
    BY Numbers
  <2>3. after = [y |-> top + 16, spoken |-> Append(told, text)]
    BY <1>3, <1>8, <2>2 DEF AccessibleBody
  <2>4. text \in T
    BY <1>5, <2>1
  <2>5. BodyEnd(top, body) = top + 16
    BY <1>8 DEF BodyEnd
  <2> HIDE DEF text
  <2>6. after.spoken = Append(told, text) /\ after = [y |-> BodyEnd(top, body), spoken |-> after.spoken]
    BY <2>3, <2>5
  <2>7. after.spoken \in Seq(T) /\ Said(after.spoken) = Said(told) \cup {text}
    <3>1. Append(told, text) \in Seq(T) /\ Said(Append(told, text)) = Said(told) \cup {text}
      BY <1>4, <2>4, SaidOne
    <3> QED BY <2>6, <3>1
  <2> QED BY <1>4, <1>6, <1>7, <2>1, <2>6, <2>7
<1>9. CASE body # Note
  <2> DEFINE texts == [i \in DOMAIN body |-> Thing("row", Rect(Pad, Top(i), FlyoutW - Pad, Top(i) + RowBlock))]
  <2>1. after = [y |-> IF Len(body) = 0 THEN top ELSE Top(Len(body)) + RowBlock, spoken |-> told \o texts]
    BY <1>3, <1>9 DEF AccessibleBody
  <2>2. (IF Len(body) = 0 THEN top ELSE Top(Len(body)) + RowBlock) = BodyEnd(top, body)
    BY <1>1, <1>2, <1>9, EndIsBodyEnd
  <2>3. DOMAIN body = 1..Len(body) /\ Len(body) \in Nat
    BY <1>2, <1>9
  <2>4. \A i \in DOMAIN body : Thing("row", Rect(Pad, Top(i), FlyoutW - Pad, Top(i) + RowBlock)) = RowText(top, i)
    <3>1. RowBlock + RowGap = 72 /\ RowBlock = 56 /\ Pad = 16 /\ FlyoutW - Pad = 312
      BY Numbers
    <3>2. \A i \in DOMAIN body : Top(i) = top + (i - 1) * 72
      BY <1>1, <2>3, <3>1
    <3> HIDE DEF Top
    <3> QED BY <3>1, <3>2 DEF RowText
  <2>5. BodyTexts(top, body) = {RowText(top, i) : i \in DOMAIN body}
    BY <1>9 DEF BodyTexts
  <2>6. texts = [i \in 1..Len(body) |-> RowText(top, i)]
    BY <2>3, <2>4
  <2> HIDE DEF texts
  <2>7. texts \in Seq(T)
    <3>1. \A i \in 1..Len(body) : RowText(top, i) \in T
      BY <1>5, <2>3, <2>5
    <3> QED BY <2>3, <2>6, <3>1
  <2>8. Said(texts) = BodyTexts(top, body)
    BY <2>3, <2>5, <2>6 DEF Said
  <2>9. after.spoken = told \o texts /\ after = [y |-> BodyEnd(top, body), spoken |-> after.spoken]
    BY <2>1, <2>2
  <2>10. after.spoken \in Seq(T) /\ Said(after.spoken) = Said(told) \cup BodyTexts(top, body)
    <3>1. told \o texts \in Seq(T) /\ Said(told \o texts) = Said(told) \cup Said(texts)
      BY <1>4, <2>7, SaidOn
    <3> QED BY <2>8, <2>9, <3>1
  <2> QED BY <1>4, <1>6, <1>7, <2>9, <2>10
<1> QED BY <1>8, <1>9
-----------------------------------------------------------------------------
(* The walks over the sections of a view: one section or two.               *)

\* Where the first section ends.
Between(v) == SectionEnd(16, v[1], 1)

AllTexts(v) == Texts(16, v[1], 1) \cup (IF Len(v) = 2 THEN Texts(Between(v), v[2], 2) ELSE {})
AllLines(v) == LinesOf(16, v[1], 1) \cup (IF Len(v) = 2 THEN LinesOf(Between(v), v[2], 2) ELSE {})

\* A view has one section or two.
LEMMA ViewShape ==
  ASSUME NEW v \in Views
  PROVE  /\ Len(v) \in {1, 2} /\ v[1] \in ASections
         /\ Len(v) = 2 => v[2] \in ASections
<1>1. \A p \in Provider : Section(p) \subseteq ASections
  <2> SUFFICES ASSUME NEW p \in Provider, NEW s \in Section(p) PROVE s \in ASections
    OBVIOUS
  <2>1. Bodies[p] \subseteq {Note} \cup Seq(BOOLEAN)
    BY FlyoutAssumption
  <2>2. s \in [status : BOOLEAN, body : {Note} \cup Seq(BOOLEAN)]
    BY <2>1 DEF Section
  <2> QED BY <2>2 DEF ASections
<1>2. CASE \E c \in Section("Claude") : v = <<c>>
  BY <1>1, <1>2 DEF Provider
<1>3. CASE \E c \in Section("Claude"), d \in Section("Codex") : v = <<c, d>>
  BY <1>1, <1>3 DEF Provider
<1> QED BY <1>2, <1>3 DEF Views

\* A section ends below its title.
LEMMA EndIsInt ==
  ASSUME NEW y \in Int, NEW s \in ASections, NEW k \in {1, 2}
  PROVE  SectionEnd(y, s, k) \in Int /\ SectionEnd(y, s, k) >= y + 36
<1>1. BodyTop(y, s, k) \in Int /\ BodyTop(y, s, k) >= y + 36
  BY DEF BodyTop, ASections
<1>2. s.body \in {Note} \cup Seq(BOOLEAN)
  BY DEF ASections
<1> QED BY <1>1, <1>2, EndIsBodyEnd DEF SectionEnd

\* The drawing walk draws the texts of a view and the marks of its lines.
LEMMA ViewDrawn ==
  ASSUME NEW v \in Views
  PROVE  DrawData(v) = AllTexts(v) \cup Marks(AllLines(v))
<1> DEFINE n == Len(v)
           Walk(f) == f = [i \in 0..n |-> IF i = 0 THEN [y |-> Pad, things |-> {}]
                                          ELSE DrawSection(f[i - 1], v[i], i)]
           none == [y |-> Pad, things |-> {}]
           one == DrawSection(none, v[1], 1)
           two == DrawSection(one, v[2], 2)
           g == [i \in 0..n |-> IF i = 0 THEN none ELSE IF i = 1 THEN one ELSE two]
           at == CHOOSE f : Walk(f)
<1>1. n \in {1, 2} /\ v[1] \in ASections /\ (n = 2 => v[2] \in ASections)
  BY ViewShape
<1>2. Walk(g)
  BY <1>1
<1>3. Walk(at)
  BY <1>2
<1>4. DrawData(v) = at[n].things
  BY DEF DrawData
<1> HIDE DEF at
<1>5. at[0] = none /\ at[1] = one /\ (n = 2 => at[2] = two)
  <2> HIDE DEF none
  <2>1. 0 \in 0..n /\ 1 \in 0..n /\ (n = 2 => 2 \in 0..n)
    BY <1>1
  <2>2. \A i \in 0..n : at[i] = IF i = 0 THEN none ELSE DrawSection(at[i - 1], v[i], i)
    BY <1>3 DEF none
  <2>3. at[0] = none
    BY <2>1, <2>2
  <2>4. at[1] = one
    BY <2>1, <2>2, <2>3
  <2> HIDE DEF one
  <2>5. n = 2 => at[2] = two
    BY <2>1, <2>2, <2>4
  <2> QED BY <2>3, <2>4, <2>5
<1> HIDE DEF n
<1>6. Pad = 16
  BY Numbers
<1>7. one = [y |-> Between(v), things |-> {} \cup (Texts(16, v[1], 1) \cup Marks(LinesOf(16, v[1], 1)))]
  <2> DEFINE y == 16
             things == {}
             s == v[1]
             k == 1
  <2>1. y \in Int /\ s \in ASections /\ k \in {1, 2}
    BY <1>1
  <2>2. one = DrawSection([y |-> y, things |-> things], s, k)
    BY <1>6
  <2> HIDE DEF one, y, things, s, k
  <2>3. one = [y |-> SectionEnd(y, s, k),
               things |-> things \cup (Texts(y, s, k) \cup Marks(LinesOf(y, s, k)))]
    BY <2>1, <2>2, SectionDrawn
  <2> QED BY <2>3 DEF Between, y, things, s, k
<1>8. Between(v) \in Int
  BY <1>1, EndIsInt DEF Between
<1>9. ASSUME n = 2
      PROVE  two.things = one.things \cup (Texts(Between(v), v[2], 2) \cup Marks(LinesOf(Between(v), v[2], 2)))
  <2> HIDE DEF one
  <2>1. one = [y |-> Between(v), things |-> one.things]
    BY <1>7
  <2> DEFINE y == Between(v)
             things == one.things
             s == v[2]
             k == 2
  <2>2. y \in Int /\ s \in ASections /\ k \in {1, 2}
    BY <1>1, <1>8, <1>9
  <2>3. two = DrawSection([y |-> y, things |-> things], s, k)
    BY <2>1
  <2> HIDE DEF two, y, things, s, k
  <2>4. two = [y |-> SectionEnd(y, s, k),
               things |-> things \cup (Texts(y, s, k) \cup Marks(LinesOf(y, s, k)))]
    BY <2>2, <2>3, SectionDrawn
  <2> QED BY <2>4 DEF y, things, s, k
<1>10. \A a, b : Marks(a \cup b) = Marks(a) \cup Marks(b)
  <2> SUFFICES ASSUME NEW a, NEW b PROVE Marks(a \cup b) = Marks(a) \cup Marks(b)
    OBVIOUS
  <2>1. \A lines, x : x \in Marks(lines) <=> \E c \in lines : x \in Marks({c})
    BY MarksOfUnion
  <2>2. \A x : x \in Marks(a \cup b) <=> x \in Marks(a) \/ x \in Marks(b)
    <3> SUFFICES ASSUME NEW x PROVE x \in Marks(a \cup b) <=> x \in Marks(a) \/ x \in Marks(b)
      OBVIOUS
    <3>1. x \in Marks(a \cup b) <=> \E c \in a \cup b : x \in Marks({c})
      BY <2>1
    <3>2. x \in Marks(a) <=> \E c \in a : x \in Marks({c})
      BY <2>1
    <3>3. x \in Marks(b) <=> \E c \in b : x \in Marks({c})
      BY <2>1
    <3> QED BY <3>1, <3>2, <3>3
  <2> QED BY <2>2
<1>11. CASE n = 1
  BY <1>4, <1>5, <1>7, <1>11 DEF AllTexts, AllLines, n
<1>12. CASE n = 2
  <2>1. DrawData(v) = two.things
    BY <1>4, <1>5, <1>12
  <2>2. one.things = Texts(16, v[1], 1) \cup Marks(LinesOf(16, v[1], 1))
    BY <1>7
  <2>3. Marks(AllLines(v)) = Marks(LinesOf(16, v[1], 1)) \cup Marks(LinesOf(Between(v), v[2], 2))
    BY <1>10, <1>12 DEF AllLines, n
  <2>4. AllTexts(v) = Texts(16, v[1], 1) \cup Texts(Between(v), v[2], 2)
    BY <1>12 DEF AllTexts, n
  <2> HIDE DEF one, two
  <2> QED BY <1>9, <1>12, <2>1, <2>2, <2>3, <2>4
<1> QED BY <1>1, <1>11, <1>12

\* The walk of the hit test finds the lines of a view.
LEMMA ViewCaptions ==
  ASSUME NEW v \in Views
  PROVE  Captions(v) = AllLines(v)
<1> DEFINE n == Len(v)
           Walk(f) == f = [i \in 0..n |-> IF i = 0 THEN [y |-> Pad, lines |-> {}]
                                          ELSE CaptionsOfSection(f[i - 1], v[i], i)]
           none == [y |-> Pad, lines |-> {}]
           one == CaptionsOfSection(none, v[1], 1)
           two == CaptionsOfSection(one, v[2], 2)
           g == [i \in 0..n |-> IF i = 0 THEN none ELSE IF i = 1 THEN one ELSE two]
           at == CHOOSE f : Walk(f)
<1>1. n \in {1, 2} /\ v[1] \in ASections /\ (n = 2 => v[2] \in ASections)
  BY ViewShape
<1>2. Walk(g)
  BY <1>1
<1>3. Walk(at)
  BY <1>2
<1>4. Captions(v) = at[n].lines
  BY DEF Captions
<1> HIDE DEF at
<1>5. at[0] = none /\ at[1] = one /\ (n = 2 => at[2] = two)
  <2> HIDE DEF none
  <2>1. 0 \in 0..n /\ 1 \in 0..n /\ (n = 2 => 2 \in 0..n)
    BY <1>1
  <2>2. \A i \in 0..n : at[i] = IF i = 0 THEN none ELSE CaptionsOfSection(at[i - 1], v[i], i)
    BY <1>3 DEF none
  <2>3. at[0] = none
    BY <2>1, <2>2
  <2>4. at[1] = one
    BY <2>1, <2>2, <2>3
  <2> HIDE DEF one
  <2>5. n = 2 => at[2] = two
    BY <2>1, <2>2, <2>4
  <2> QED BY <2>3, <2>4, <2>5
<1> HIDE DEF n
<1>6. Pad = 16
  BY Numbers
<1>7. one = [y |-> Between(v), lines |-> {} \cup LinesOf(16, v[1], 1)]
  <2> DEFINE y == 16
             lines == {}
             s == v[1]
             k == 1
  <2>1. y \in Int /\ s \in ASections /\ k \in {1, 2}
    BY <1>1
  <2>2. one = CaptionsOfSection([y |-> y, lines |-> lines], s, k)
    BY <1>6
  <2> HIDE DEF one, y, lines, s, k
  <2>3. one = [y |-> SectionEnd(y, s, k), lines |-> lines \cup LinesOf(y, s, k)]
    BY <2>1, <2>2, SectionCaptions
  <2> QED BY <2>3 DEF Between, y, lines, s, k
<1>8. Between(v) \in Int
  BY <1>1, EndIsInt DEF Between
<1>9. ASSUME n = 2
      PROVE  two.lines = one.lines \cup LinesOf(Between(v), v[2], 2)
  <2> HIDE DEF one
  <2>1. one = [y |-> Between(v), lines |-> one.lines]
    BY <1>7
  <2> DEFINE y == Between(v)
             lines == one.lines
             s == v[2]
             k == 2
  <2>2. y \in Int /\ s \in ASections /\ k \in {1, 2}
    BY <1>1, <1>8, <1>9
  <2>3. two = CaptionsOfSection([y |-> y, lines |-> lines], s, k)
    BY <2>1
  <2> HIDE DEF two, y, lines, s, k
  <2>4. two = [y |-> SectionEnd(y, s, k), lines |-> lines \cup LinesOf(y, s, k)]
    BY <2>2, <2>3, SectionCaptions
  <2> QED BY <2>4 DEF y, lines, s, k
<1>10. one.lines = LinesOf(16, v[1], 1)
  BY <1>7
<1> HIDE DEF one, two
<1>11. CASE n = 1
  BY <1>4, <1>5, <1>10, <1>11 DEF AllLines, n
<1>12. CASE n = 2
  BY <1>4, <1>5, <1>9, <1>10, <1>12 DEF AllLines, n
<1> QED BY <1>1, <1>11, <1>12

\* The walk for assistive clients says every text of a view.
LEMMA ViewSpoken ==
  ASSUME NEW v \in Views
  PROVE  SpokenSections(v) \in Seq(AllTexts(v)) /\ Said(SpokenSections(v)) = AllTexts(v)
<1> DEFINE n == Len(v)
           T == AllTexts(v)
           Walk(f) == f = [i \in 0..n |-> IF i = 0 THEN [y |-> Pad, spoken |-> <<>>]
                                          ELSE AccessibleSection(f[i - 1], v[i], i)]
           none == [y |-> Pad, spoken |-> <<>>]
           one == AccessibleSection(none, v[1], 1)
           two == AccessibleSection(one, v[2], 2)
           g == [i \in 0..n |-> IF i = 0 THEN none ELSE IF i = 1 THEN one ELSE two]
           at == CHOOSE f : Walk(f)
<1>1. n \in {1, 2} /\ v[1] \in ASections /\ (n = 2 => v[2] \in ASections)
  BY ViewShape
<1>2. Walk(g)
  BY <1>1
<1>3. Walk(at)
  BY <1>2
<1>4. SpokenSections(v) = at[n].spoken
  BY DEF SpokenSections
<1> HIDE DEF at
<1>5. at[0] = none /\ at[1] = one /\ (n = 2 => at[2] = two)
  <2> HIDE DEF none
  <2>1. 0 \in 0..n /\ 1 \in 0..n /\ (n = 2 => 2 \in 0..n)
    BY <1>1
  <2>2. \A i \in 0..n : at[i] = IF i = 0 THEN none ELSE AccessibleSection(at[i - 1], v[i], i)
    BY <1>3 DEF none
  <2>3. at[0] = none
    BY <2>1, <2>2
  <2>4. at[1] = one
    BY <2>1, <2>2, <2>3
  <2> HIDE DEF one
  <2>5. n = 2 => at[2] = two
    BY <2>1, <2>2, <2>4
  <2> QED BY <2>3, <2>4, <2>5
<1>6. Texts(16, v[1], 1) \subseteq T /\ (n = 2 => Texts(Between(v), v[2], 2) \subseteq T)
  BY DEF AllTexts
<1>7. Pad = 16 /\ <<>> \in Seq(T) /\ Said(<<>>) = {}
  BY Numbers DEF Said
<1> HIDE DEF n, T
<1>8. /\ one = [y |-> Between(v), spoken |-> one.spoken]
      /\ one.spoken \in Seq(T)
      /\ Said(one.spoken) = Texts(16, v[1], 1)
  <2> DEFINE y == 16
             spoken == <<>>
             s == v[1]
             k == 1
  <2>1. y \in Int /\ s \in ASections /\ k \in {1, 2} /\ spoken \in Seq(T) /\ Texts(y, s, k) \subseteq T
    BY <1>1, <1>6, <1>7
  <2>2. one = AccessibleSection([y |-> y, spoken |-> spoken], s, k)
    BY <1>7
  <2> HIDE DEF one, y, spoken, s, k
  <2>3. /\ one = [y |-> SectionEnd(y, s, k), spoken |-> one.spoken]
        /\ one.spoken \in Seq(T)
        /\ Said(one.spoken) = Said(spoken) \cup Texts(y, s, k)
    BY <2>1, <2>2, SectionSpoken
  <2> QED BY <1>7, <2>3 DEF Between, y, spoken, s, k
<1>9. Between(v) \in Int
  BY <1>1, EndIsInt DEF Between
<1> HIDE DEF one
<1>10. ASSUME n = 2
       PROVE  /\ two.spoken \in Seq(T)
              /\ Said(two.spoken) = Said(one.spoken) \cup Texts(Between(v), v[2], 2)
  <2> DEFINE y == Between(v)
             spoken == one.spoken
             s == v[2]
             k == 2
  <2>1. y \in Int /\ s \in ASections /\ k \in {1, 2} /\ spoken \in Seq(T) /\ Texts(y, s, k) \subseteq T
    BY <1>1, <1>6, <1>8, <1>9, <1>10
  <2>2. two = AccessibleSection([y |-> y, spoken |-> spoken], s, k)
    BY <1>8
  <2> HIDE DEF two, y, spoken, s, k
  <2>3. /\ two.spoken \in Seq(T)
        /\ Said(two.spoken) = Said(spoken) \cup Texts(y, s, k)
    BY <2>1, <2>2, SectionSpoken
  <2> QED BY <2>3 DEF y, spoken, s, k
<1> HIDE DEF two
<1>11. CASE n = 1
  BY <1>4, <1>5, <1>8, <1>11 DEF AllTexts, n, T
<1>12. CASE n = 2
  BY <1>4, <1>5, <1>8, <1>10, <1>12 DEF AllTexts, n, T
<1> QED BY <1>1, <1>11, <1>12
\* The caption lines of a section lie within it.
LEMMA LinesWithin ==
  ASSUME NEW y \in Int, NEW s \in ASections, NEW k \in {1, 2}, NEW c \in LinesOf(y, s, k)
  PROVE  c.top \in Int /\ c.top >= y + 76 /\ c.top + 16 <= SectionEnd(y, s, k)
<1> DEFINE top == BodyTop(y, s, k)
           body == s.body
<1>1. top \in Int /\ top >= y + 36
  BY DEF BodyTop, ASections
<1>2. body # Note /\ body \in Seq(BOOLEAN)
  BY DEF LinesOf, BodyLines, ASections
<1>3. PICK i \in DOMAIN body : c.top = top + (i - 1) * 72 + 40
  BY <1>2 DEF LinesOf, BodyLines
<1>4. i \in 1..Len(body) /\ Len(body) \in Nat
  BY <1>2
<1>5. SectionEnd(y, s, k) = top + (Len(body) - 1) * 72 + 56
  BY <1>2, <1>4 DEF SectionEnd, BodyEnd
<1> HIDE DEF top, body
<1> QED BY <1>1, <1>3, <1>4, <1>5

\* The size that is computed for a section covers what is drawn of it.
LEMMA SizeCovers ==
  ASSUME NEW y \in Int, NEW s \in ASections, NEW k \in {1, 2}
  PROVE  LET size == (IF k = 1 THEN 36 ELSE 69) + BodyHeight(s.body) + (IF s.status THEN 24 ELSE 0)
         IN  size \in Nat /\ size >= 36 /\ y + size >= SectionEnd(y, s, k)
<1> DEFINE body == s.body
           above == (IF k = 1 THEN 36 ELSE 69) + (IF s.status THEN 24 ELSE 0)
<1>1. body \in {Note} \cup Seq(BOOLEAN) /\ s.status \in BOOLEAN
  BY DEF ASections
<1>2. above \in Nat /\ above >= 36 /\ BodyTop(y, s, k) = y + above
  BY <1>1 DEF BodyTop
<1>3. BodyHeight(body) \in Nat /\ y + above + BodyHeight(body) >= BodyEnd(y + above, body)
  <2>1. CASE body = Note
    BY <1>2, <2>1, Numbers DEF BodyHeight, BodyEnd
  <2>2. CASE body # Note
    <3> DEFINE n == IF body = <<>> THEN 1 ELSE Len(body)
    <3>1. Len(body) \in Nat /\ n \in Nat /\ n >= 1 /\ (Len(body) # 0 => n = Len(body))
      BY <1>1, <2>2
    <3>2. BodyHeight(body) = n * RowBlock + (n - 1) * RowGap
      BY <2>2 DEF BodyHeight
    <3> HIDE DEF n
    <3>3. BodyHeight(body) = n * 56 + (n - 1) * 16
      BY <3>2, Numbers
    <3>4. BodyEnd(y + above, body)
            = IF Len(body) = 0 THEN y + above ELSE y + above + (Len(body) - 1) * 72 + 56
      BY <2>2 DEF BodyEnd
    <3> HIDE DEF above, body
    <3> QED BY <1>2, <3>1, <3>3, <3>4
  <2> QED BY <2>1, <2>2
<1>4. SectionEnd(y, s, k) = BodyEnd(y + above, body)
  BY <1>2 DEF SectionEnd
<1>5. BodyEnd(y + above, body) \in Int
  BY <1>1, <1>2, EndIsBodyEnd
<1> QED BY <1>1, <1>2, <1>3, <1>4, <1>5

\* The content of a view is at least a title high and covers its captions.
LEMMA ViewHeight ==
  ASSUME NEW v \in Views
  PROVE  /\ ContentHeight(v) \in Nat /\ ContentHeight(v) >= 52
         /\ \A c \in AllLines(v) : c.top \in Int /\ c.top >= 92 /\ c.top + 16 <= ContentHeight(v)
<1> DEFINE n == Len(v)
           size(i) == (IF i = 1 THEN 36 ELSE 69) + BodyHeight(v[i].body) + (IF v[i].status THEN 24 ELSE 0)
           More(h, i) == h + (IF i > 1 THEN SecGap + 1 + SecGap ELSE 0)
                           + TitleH + SectionGap + BodyHeight(v[i].body)
                           + (IF v[i].status THEN CaptionH + Gap ELSE 0)
           Walk(f) == f = [i \in 0..n |-> IF i = 0 THEN Pad ELSE More(f[i - 1], i)]
           one == More(Pad, 1)
           two == More(one, 2)
           g == [i \in 0..n |-> IF i = 0 THEN Pad ELSE IF i = 1 THEN one ELSE two]
           height == CHOOSE f : Walk(f)
<1>1. n \in {1, 2} /\ v[1] \in ASections /\ (n = 2 => v[2] \in ASections)
  BY ViewShape
<1>2. Walk(g)
  <2> HIDE DEF More
  <2> QED BY <1>1
<1>3. Walk(height)
  BY <1>2
<1>4. ContentHeight(v) = height[n]
  BY DEF ContentHeight
<1> HIDE DEF height
<1>5. height[1] = one /\ (n = 2 => height[2] = two)
  <2> HIDE DEF More
  <2>1. 0 \in 0..n /\ 1 \in 0..n /\ (n = 2 => 2 \in 0..n)
    BY <1>1
  <2>2. \A i \in 0..n : height[i] = IF i = 0 THEN Pad ELSE More(height[i - 1], i)
    BY <1>3
  <2>3. height[0] = Pad
    BY <2>1, <2>2
  <2>4. height[1] = one
    BY <2>1, <2>2, <2>3
  <2> HIDE DEF one
  <2>5. n = 2 => height[2] = two
    BY <2>1, <2>2, <2>4
  <2> QED BY <2>4, <2>5
<1>6. ASSUME NEW i \in {1, 2}, i <= n
      PROVE  /\ size(i) \in Nat /\ size(i) >= 36
             /\ \A y \in Int : y + size(i) >= SectionEnd(y, v[i], i)
             /\ \A h \in Int : More(h, i) = h + size(i)
  <2> DEFINE s == v[i]
  <2>1. s \in ASections /\ s.status \in BOOLEAN
    BY <1>1, <1>6 DEF ASections
  <2> HIDE DEF s
  <2>2. /\ \A y \in Int : /\ (IF i = 1 THEN 36 ELSE 69) + BodyHeight(s.body) + (IF s.status THEN 24 ELSE 0) \in Nat
                         /\ (IF i = 1 THEN 36 ELSE 69) + BodyHeight(s.body) + (IF s.status THEN 24 ELSE 0) >= 36
                         /\ y + ((IF i = 1 THEN 36 ELSE 69) + BodyHeight(s.body) + (IF s.status THEN 24 ELSE 0))
                              >= SectionEnd(y, s, i)
    BY <2>1, SizeCovers
  <2>3. BodyHeight(s.body) \in Int
    <3>1. CASE s.body = Note
      BY <3>1, Numbers DEF BodyHeight
    <3>2. CASE s.body # Note
      <4>1. Len(s.body) \in Nat
        BY <2>1, <3>2 DEF ASections
      <4> QED BY <3>2, <4>1, Numbers DEF BodyHeight
    <3> QED BY <3>1, <3>2
  <2>4. \A h \in Int : More(h, i) = h + size(i)
    BY <2>1, <2>3, Numbers DEF s
  <2>5. size(i) \in Nat /\ size(i) >= 36 /\ \A y \in Int : y + size(i) >= SectionEnd(y, v[i], i)
    <3>1. 0 \in Int
      OBVIOUS
    <3> QED BY <2>2, <3>1 DEF s
  <2> QED BY <2>4, <2>5
<1> HIDE DEF More, size
<1>7. one = 16 + size(1) /\ size(1) \in Nat /\ size(1) >= 36 /\ one >= Between(v) /\ Between(v) \in Int
      /\ Between(v) >= 52
  <2>1. Between(v) \in Int /\ Between(v) >= 16 + 36
    BY <1>1, EndIsInt DEF Between
  <2>2. one = 16 + size(1) /\ size(1) \in Nat /\ size(1) >= 36 /\ 16 + size(1) >= Between(v)
    <3>1. 1 \in {1, 2} /\ 1 <= n /\ 16 \in Int /\ Pad = 16
      BY <1>1, Numbers
    <3>2. size(1) \in Nat /\ size(1) >= 36
      BY <1>6, <3>1
    <3>3. 16 + size(1) >= SectionEnd(16, v[1], 1)
      BY <1>6, <3>1
    <3>4. More(16, 1) = 16 + size(1)
      BY <1>6, <3>1
    <3> QED BY <3>1, <3>2, <3>3, <3>4 DEF Between
  <2> QED BY <2>1, <2>2
<1>8. \A c \in LinesOf(16, v[1], 1) : c.top \in Int /\ c.top >= 92 /\ c.top + 16 <= Between(v)
  BY <1>1, LinesWithin DEF Between
<1> HIDE DEF one
<1>9. CASE n = 1
  BY <1>4, <1>5, <1>7, <1>8, <1>9 DEF AllLines, n
<1>10. CASE n = 2
  <2> DEFINE end == SectionEnd(Between(v), v[2], 2)
  <2>1. two = one + size(2) /\ size(2) \in Nat /\ Between(v) + size(2) >= end
    BY <1>6, <1>7, <1>10
  <2>2. end \in Int
    BY <1>1, <1>7, <1>10, EndIsInt
  <2>3. \A c \in LinesOf(Between(v), v[2], 2) : c.top \in Int /\ c.top >= Between(v) + 76 /\ c.top + 16 <= end
    BY <1>1, <1>7, <1>10, LinesWithin
  <2>4. AllLines(v) = LinesOf(16, v[1], 1) \cup LinesOf(Between(v), v[2], 2)
    BY <1>10 DEF AllLines, n
  <2>5. ContentHeight(v) = two
    BY <1>4, <1>5, <1>10
  <2> HIDE DEF two, end
  <2> QED BY <1>7, <1>8, <2>1, <2>2, <2>3, <2>4, <2>5
<1> QED BY <1>1, <1>9, <1>10

\* The controls of a view.
LEMMA ViewControls ==
  ASSUME NEW v \in Views
  PROVE  LET height == ContentHeight(v)
         IN  /\ Vibe[v] = height + 12
             /\ VibeTop(v) = height + 12
             /\ FooterRect(v) = Rect(16, height + 93, 312, height + 121)
             /\ Footer[v] = Rect(16, height + 93, 312, height + 121)
             /\ Height[v] = height + 137
             /\ \A top \in Int : VibeRowAt(top) = Rect(16, top, 312, top + 60)
<1>1. ContentHeight(v) \in Nat
  BY ViewHeight
<1>2. \A top \in Int : VibeRowAt(top) = Rect(16, top, 312, top + 60)
  BY Numbers DEF VibeRowAt
<1>3. VibeTop(v) = ContentHeight(v) + 12
  BY Numbers DEF VibeTop
<1>4. FooterRect(v) = Rect(16, ContentHeight(v) + 93, 312, ContentHeight(v) + 121)
  <2>1. VibeTop(v) \in Int
    BY <1>1, <1>3
  <2>2. VibeRowAt(VibeTop(v)).bottom = ContentHeight(v) + 72
    BY <1>1, <1>2, <1>3, <2>1 DEF Rect
  <2>3. VibeRowAt(VibeTop(v)).bottom + FooterAbove + 1 + FooterBelow = ContentHeight(v) + 93
    BY <1>1, <2>2 DEF FooterAbove, FooterBelow
  <2> QED BY <1>1, <2>3, Numbers DEF FooterRect
<1>5. FlyoutHeight(v) = ContentHeight(v) + 137
  BY <1>1, <1>4, Numbers DEF FlyoutHeight, Rect
<1> QED BY <1>2, <1>3, <1>4, <1>5 DEF Vibe, Footer, Height
-----------------------------------------------------------------------------
(* What is drawn of a view, spoken of it and hit in it.                     *)

Controls(v) ==
  {Thing("refresh", Rect(252, 12, 280, 40)), Thing("gear", Rect(284, 12, 312, 40)),
   Thing("vibe", Rect(16, ContentHeight(v) + 12, 312, ContentHeight(v) + 72)),
   Thing("footer", Rect(16, ContentHeight(v) + 93, 312, ContentHeight(v) + 121))}

\* What is drawn of a view, told apart by what it is.
LEMMA ViewThings ==
  ASSUME NEW v \in Views
  PROVE  /\ Things[v] = Controls(v) \cup AllTexts(v) \cup Marks(AllLines(v))
         /\ Lines[v] = AllLines(v)
         /\ \A t \in Controls(v) : t.what \in {"refresh", "gear", "vibe", "footer"}
         /\ \A t \in AllTexts(v) : t.what \in {"row", "status", "note"}
         /\ \A t \in Marks(AllLines(v)) : t.what \in {"quota", "reset"}
<1>1. DrawControls(v) = Controls(v)
  <2>1. VibeTop(v) = ContentHeight(v) + 12 /\ FooterRect(v) = Rect(16, ContentHeight(v) + 93, 312, ContentHeight(v) + 121)
        /\ \A top \in Int : VibeRowAt(top) = Rect(16, top, 312, top + 60)
    BY ViewControls
  <2>2. ContentHeight(v) \in Int
    BY ViewHeight
  <2>3. VibeRowAt(VibeTop(v)) = Rect(16, ContentHeight(v) + 12, 312, ContentHeight(v) + 72)
    <3>1. ContentHeight(v) + 12 \in Int /\ (ContentHeight(v) + 12) + 60 = ContentHeight(v) + 72
      BY <2>2
    <3> QED BY <2>1, <3>1
  <2> QED BY <2>1, <2>3, Numbers DEF DrawControls, Controls
<1>2. Things[v] = Controls(v) \cup (AllTexts(v) \cup Marks(AllLines(v)))
  BY <1>1, ViewDrawn DEF Things
<1>3. Lines[v] = AllLines(v)
  BY ViewCaptions DEF Lines
<1>4. \A t \in Controls(v) : t.what \in {"refresh", "gear", "vibe", "footer"}
  BY DEF Controls, Thing
<1>5. \A y, s, k : \A t \in Texts(y, s, k) : t.what \in {"row", "status", "note"}
  BY DEF Texts, StatusOf, BodyTexts, RowText, Thing
<1>6. \A t \in AllTexts(v) : t.what \in {"row", "status", "note"}
  BY <1>5 DEF AllTexts
<1>7. \A t \in Marks(AllLines(v)) : t.what \in {"quota", "reset"}
  BY DEF Marks, Thing
<1> QED BY <1>2, <1>3, <1>4, <1>6, <1>7

\* The walk for the clients says every text and every control of a view where
\* it is drawn, and the controls first.
LEMMA ViewIsSpoken ==
  ASSUME NEW v \in Views
  PROVE  Speaks(Items[v], v)
<1> DEFINE refresh == Thing("refresh", Rect(252, 12, 280, 40))
           gear == Thing("gear", Rect(284, 12, 312, 40))
           vibe == Thing("vibe", Rect(16, ContentHeight(v) + 12, 312, ContentHeight(v) + 72))
           footer == Thing("footer", Rect(16, ContentHeight(v) + 93, 312, ContentHeight(v) + 121))
           updated == Thing("updated", FooterRect(v))
           T == Controls(v) \cup AllTexts(v) \cup {updated}
           four == <<refresh, gear, vibe, footer>>
           texts == SpokenSections(v)
           rows == AccessibleRows(v)
<1>1. Items[v] = four \o rows
  <2>1. VibeTop(v) = ContentHeight(v) + 12 /\ FooterRect(v) = Rect(16, ContentHeight(v) + 93, 312, ContentHeight(v) + 121)
        /\ \A top \in Int : VibeRowAt(top) = Rect(16, top, 312, top + 60)
    BY ViewControls
  <2>2. ContentHeight(v) \in Int
    BY ViewHeight
  <2>3. VibeRowAt(VibeTop(v)) = Rect(16, ContentHeight(v) + 12, 312, ContentHeight(v) + 72)
    <3>1. ContentHeight(v) + 12 \in Int /\ (ContentHeight(v) + 12) + 60 = ContentHeight(v) + 72
      BY <2>2
    <3> QED BY <2>1, <3>1
  <2> QED BY <2>1, <2>3, Numbers DEF Items, FlyoutItems
<1>2. Controls(v) = {refresh, gear, vibe, footer}
  BY DEF Controls
<1>3. refresh.what = "refresh" /\ gear.what = "gear" /\ vibe.what = "vibe" /\ footer.what = "footer"
  BY DEF Thing
<1>0. rows = Append(texts, updated)
  BY DEF AccessibleRows
<1> HIDE DEF refresh, gear, vibe, footer, updated
<1>4. four \in Seq(T) /\ Said(four) = Controls(v) /\ Len(four) = 4
  BY <1>2 DEF Said
<1>5. rows \in Seq(T) /\ Said(rows) = AllTexts(v) \cup {updated}
  <2>1. texts \in Seq(AllTexts(v)) /\ Said(texts) = AllTexts(v)
    BY ViewSpoken
  <2>2. AllTexts(v) \subseteq T /\ updated \in T
    OBVIOUS
  <2> HIDE DEF T, texts
  <2>3. texts \in Seq(T)
    BY <2>1, <2>2
  <2> HIDE DEF rows
  <2>4. Len(texts) \in Nat /\ DOMAIN texts = 1..Len(texts) /\ DOMAIN rows = 1..(Len(texts) + 1)
        /\ rows \in Seq(T) /\ rows[Len(texts) + 1] = updated
        /\ \A i \in 1..Len(texts) : rows[i] = texts[i]
    BY <1>0, <2>2, <2>3
  <2>5. Said(rows) = Said(texts) \cup {updated}
    <3>1. \A i \in DOMAIN rows : i \in DOMAIN texts \/ i = Len(texts) + 1
      BY <2>4
    <3> QED BY <2>4, <3>1 DEF Said
  <2> QED BY <2>1, <2>4, <2>5
<1>6. Said(four \o rows) = Controls(v) \cup (AllTexts(v) \cup {updated})
  <2> HIDE DEF T, four, rows
  <2> QED BY <1>4, <1>5, SaidOn
<1>7. {Items[v][i] : i \in DOMAIN Items[v]} = Controls(v) \cup AllTexts(v) \cup {updated}
  <2> HIDE DEF four, rows
  <2> QED BY <1>1, <1>6 DEF Said
<1>8. {t \in Things[v] : t.what \notin {"quota", "reset"}} = Controls(v) \cup AllTexts(v)
  <2> DEFINE A == Controls(v)
             B == AllTexts(v)
             C == Marks(AllLines(v))
  <2>1. Things[v] = A \cup B \cup C
        /\ (\A t \in A : t.what \in {"refresh", "gear", "vibe", "footer"})
        /\ (\A t \in B : t.what \in {"row", "status", "note"})
        /\ \A t \in C : t.what \in {"quota", "reset"}
    BY ViewThings
  <2> HIDE DEF A, B, C
  <2>2. {t \in Things[v] : t.what \notin {"quota", "reset"}} = A \cup B
    BY <2>1
  <2> QED BY <2>2 DEF A, B
<1>9. \A i \in DOMAIN Control : Items[v][i].what = Control[i]
  <2>1. \A i \in 1..4 : (four \o rows)[i] = four[i]
    <3>1. Len(four) = 4 /\ four \in Seq(T) /\ rows \in Seq(T)
      BY <1>4, <1>5
    <3> HIDE DEF T, four, rows
    <3>2. DOMAIN four = 1..4
      BY <3>1
    <3> QED BY <3>1, <3>2, SaidOn
  <2>2. DOMAIN Control = 1..4
    BY DEF Control
  <2>3. \A i \in 1..4 : four[i].what = Control[i]
    BY <1>3 DEF Control
  <2> HIDE DEF four, rows
  <2> QED BY <1>1, <2>1, <2>2, <2>3
<1> QED
  <2>1. updated = Thing("updated", Footer[v])
    BY DEF updated, Footer
  <2> HIDE DEF four, rows
  <2> QED BY <1>7, <1>8, <1>9, <2>1 DEF Speaks

\* What lies under a point, and where the points are that can be clicked.
Under(v, x, y) == {t.what : t \in {u \in Clickable[v] : /\ u.rect.left <= x /\ x < u.rect.right
                                                       /\ u.rect.top <= y /\ y < u.rect.bottom}}

\* What can be clicked are the controls and the marks of the lines.
LEMMA ViewClickable ==
  ASSUME NEW v \in Views
  PROVE  Clickable[v] = Controls(v) \cup Marks(AllLines(v))
<1> DEFINE A == Controls(v)
           B == AllTexts(v)
           C == Marks(AllLines(v))
<1>1. Things[v] = A \cup B \cup C
      /\ (\A t \in A : t.what \in {"refresh", "gear", "vibe", "footer"})
      /\ (\A t \in B : t.what \in {"row", "status", "note"})
      /\ \A t \in C : t.what \in {"quota", "reset"}
  BY ViewThings
<1>2. Clickable[v] = {t \in Things[v] : t.what \notin {"row", "status", "note"}}
  BY DEF Clickable
<1> HIDE DEF A, B, C
<1>3. Clickable[v] = A \cup C
  BY <1>1, <1>2
<1> QED BY <1>3 DEF A, C

\* What lies under a point, as a comparison of numbers.
LEMMA WhatIsUnder ==
  ASSUME NEW v \in Views, NEW x \in Int, NEW y \in Int
  PROVE  LET height == ContentHeight(v)
             lines == {c \in AllLines(v) : c.top <= y /\ y < c.top + 16}
         IN  /\ Under(v, x, y) \subseteq {"refresh", "gear", "vibe", "footer", "quota", "reset"}
             /\ "refresh" \in Under(v, x, y) <=> 252 <= x /\ x < 280 /\ 12 <= y /\ y < 40
             /\ "gear" \in Under(v, x, y) <=> 284 <= x /\ x < 312 /\ 12 <= y /\ y < 40
             /\ "vibe" \in Under(v, x, y) <=> 16 <= x /\ x < 312 /\ height + 12 <= y /\ y < height + 72
             /\ "footer" \in Under(v, x, y) <=> 16 <= x /\ x < 312 /\ height + 93 <= y /\ y < height + 121
             /\ "quota" \in Under(v, x, y) <=> 16 <= x /\ x < 112 /\ lines # {}
             /\ "reset" \in Under(v, x, y) <=> 112 <= x /\ x < 312 /\ \E c \in lines : c.reset
<1> DEFINE height == ContentHeight(v)
           lines == {c \in AllLines(v) : c.top <= y /\ y < c.top + 16}
           At(r) == r.left <= x /\ x < r.right /\ r.top <= y /\ y < r.bottom
           Hit(S) == {t.what : t \in {u \in S : At(u.rect)}}
           quota == {Thing("quota", Rect(16, c.top, 112, c.top + 16)) : c \in AllLines(v)}
           reset == {Thing("reset", Rect(112, c.top, 312, c.top + 16)) : c \in {d \in AllLines(v) : d.reset}}
<1>1. \A a, b, c, d : At(Rect(a, b, c, d)) <=> a <= x /\ x < c /\ b <= y /\ y < d
  BY DEF Rect
<1>2. \A n, r : Thing(n, r).what = n /\ Thing(n, r).rect = r
  BY DEF Thing
<1>3. \A n : n \in Under(v, x, y) <=> \E t \in Controls(v) \cup (quota \cup reset) : t.what = n /\ At(t.rect)
  BY ViewClickable DEF Under, Marks
<1> HIDE DEF At
<1>4. \A n : n \in Under(v, x, y) <=>
                                     \/ n = "refresh" /\ At(Rect(252, 12, 280, 40))
                                     \/ n = "gear" /\ At(Rect(284, 12, 312, 40))
                                     \/ n = "vibe" /\ At(Rect(16, height + 12, 312, height + 72))
                                     \/ n = "footer" /\ At(Rect(16, height + 93, 312, height + 121))
                                     \/ n = "quota" /\ \E c \in AllLines(v) : At(Rect(16, c.top, 112, c.top + 16))
                                     \/ n = "reset" /\ \E c \in AllLines(v) : c.reset /\ At(Rect(112, c.top, 312, c.top + 16))
  <2> SUFFICES ASSUME NEW n
               PROVE  n \in Under(v, x, y) <=>
                        \/ n = "refresh" /\ At(Rect(252, 12, 280, 40))
                        \/ n = "gear" /\ At(Rect(284, 12, 312, 40))
                        \/ n = "vibe" /\ At(Rect(16, height + 12, 312, height + 72))
                        \/ n = "footer" /\ At(Rect(16, height + 93, 312, height + 121))
                        \/ n = "quota" /\ \E c \in AllLines(v) : At(Rect(16, c.top, 112, c.top + 16))
                        \/ n = "reset" /\ \E c \in AllLines(v) : c.reset /\ At(Rect(112, c.top, 312, c.top + 16))
    OBVIOUS
  <2>1. (\E t \in Controls(v) : t.what = n /\ At(t.rect)) <=>
          \/ n = "refresh" /\ At(Rect(252, 12, 280, 40))
          \/ n = "gear" /\ At(Rect(284, 12, 312, 40))
          \/ n = "vibe" /\ At(Rect(16, height + 12, 312, height + 72))
          \/ n = "footer" /\ At(Rect(16, height + 93, 312, height + 121))
    BY <1>2 DEF Controls
  <2> DEFINE Q(c) == Thing("quota", Rect(16, c.top, 112, c.top + 16))
             R(c) == Thing("reset", Rect(112, c.top, 312, c.top + 16))
  <2>2. (\E t \in quota : t.what = n /\ At(t.rect)) <=>
          n = "quota" /\ \E c \in AllLines(v) : At(Rect(16, c.top, 112, c.top + 16))
    <3>1. \A c : Q(c).what = "quota" /\ Q(c).rect = Rect(16, c.top, 112, c.top + 16)
      BY <1>2
    <3>2. quota = {Q(c) : c \in AllLines(v)}
      OBVIOUS
    <3> HIDE DEF Q, quota
    <3> QED BY <3>1, <3>2
  <2>3. (\E t \in reset : t.what = n /\ At(t.rect)) <=>
          n = "reset" /\ \E c \in AllLines(v) : c.reset /\ At(Rect(112, c.top, 312, c.top + 16))
    <3>1. \A c : R(c).what = "reset" /\ R(c).rect = Rect(112, c.top, 312, c.top + 16)
      BY <1>2
    <3>2. reset = {R(c) : c \in {d \in AllLines(v) : d.reset}}
      OBVIOUS
    <3> HIDE DEF R, reset
    <3> QED BY <3>1, <3>2
  <2> HIDE DEF quota, reset, height
  <2>4. n \in Under(v, x, y) <=>
          \/ \E t \in Controls(v) : t.what = n /\ At(t.rect)
          \/ \E t \in quota : t.what = n /\ At(t.rect)
          \/ \E t \in reset : t.what = n /\ At(t.rect)
    BY <1>3
  <2> QED BY <2>1, <2>2, <2>3, <2>4
<1>5. (\E c \in AllLines(v) : At(Rect(16, c.top, 112, c.top + 16))) <=> 16 <= x /\ x < 112 /\ lines # {}
  BY <1>1
<1>6. (\E c \in AllLines(v) : c.reset /\ At(Rect(112, c.top, 312, c.top + 16)))
        <=> 112 <= x /\ x < 312 /\ \E c \in lines : c.reset
  BY <1>1
<1> HIDE DEF height, lines
<1> QED BY <1>1, <1>4, <1>5, <1>6 DEF height, lines
\* A corner, or a point beside one, is never on the far edge of a control,
\* where the hit test and the drawing differ by one.
LEMMA CornerPoints ==
  ASSUME NEW v \in Views, NEW c \in Corners[v]
  PROVE  /\ c[1] \in Int /\ c[2] \in Int
         /\ c[1] # 280 /\ c[1] # 312 /\ c[2] # 40
         /\ c[2] # ContentHeight(v) + 72 /\ c[2] # ContentHeight(v) + 121
<1> DEFINE h == ContentHeight(v)
           Six(r) == {<<r.left - 1, r.top>>, <<r.left, r.top - 1>>, <<r.left, r.top>>,
                      <<r.right - 1, r.bottom - 1>>, <<r.right + 1, r.top>>, <<r.left, r.bottom + 1>>}
<1>1. PICK t \in Clickable[v] : c \in Six(t.rect)
  <2>1. Corners[v] = UNION {Six(r) : r \in {t.rect : t \in Clickable[v]}}
    BY DEF Corners
  <2> HIDE DEF Six
  <2> QED BY <2>1
<1>2. h \in Nat /\ h >= 52 /\ \A d \in AllLines(v) : d.top \in Int /\ d.top >= 92 /\ d.top + 16 <= h
  BY ViewHeight
<1> DEFINE Box(l, u, r, b) == t.rect = Rect(l, u, r, b)
<1>3. \/ Box(252, 12, 280, 40)
      \/ Box(284, 12, 312, 40)
      \/ Box(16, h + 12, 312, h + 72)
      \/ Box(16, h + 93, 312, h + 121)
      \/ \E d \in AllLines(v) : Box(16, d.top, 112, d.top + 16)
      \/ \E d \in AllLines(v) : Box(112, d.top, 312, d.top + 16)
  BY <1>1, ViewClickable DEF Controls, Marks, Thing
<1>4. ASSUME NEW l \in Int, NEW u \in Int, NEW r \in Int, NEW b \in Int, Box(l, u, r, b)
      PROVE  \/ c[1] = l - 1 /\ c[2] = u
             \/ c[1] = l /\ c[2] = u - 1
             \/ c[1] = l /\ c[2] = u
             \/ c[1] = r - 1 /\ c[2] = b - 1
             \/ c[1] = r + 1 /\ c[2] = u
             \/ c[1] = l /\ c[2] = b + 1
  <2>1. t.rect.left = l /\ t.rect.top = u /\ t.rect.right = r /\ t.rect.bottom = b
    BY <1>4 DEF Rect
  <2> QED BY <1>1, <2>1
<1> HIDE DEF Box, h
<1>5. PICK l \in Int, u \in Int, r \in Int, b \in Int :
         /\ Box(l, u, r, b)
         /\ l \in {16, 112, 252, 284} /\ r \in {112, 280, 312}
         /\ \/ u = 12 /\ b = 40 /\ ((l = 252 /\ r = 280) \/ (l = 284 /\ r = 312))
            \/ u = h + 12 /\ b = h + 72
            \/ u = h + 93 /\ b = h + 121
            \/ u >= 92 /\ b = u + 16 /\ b <= h
  <2>1. CASE Box(252, 12, 280, 40)
    BY <2>1
  <2>2. CASE Box(284, 12, 312, 40)
    BY <2>2
  <2>3. CASE Box(16, h + 12, 312, h + 72)
    <3>1. h + 12 \in Int /\ h + 72 \in Int
      BY <1>2
    <3> QED BY <2>3, <3>1
  <2>4. CASE Box(16, h + 93, 312, h + 121)
    <3>1. h + 93 \in Int /\ h + 121 \in Int
      BY <1>2
    <3> QED BY <2>4, <3>1
  <2>5. CASE \E d \in AllLines(v) : Box(16, d.top, 112, d.top + 16)
    <3>1. PICK d \in AllLines(v) : Box(16, d.top, 112, d.top + 16)
      BY <2>5
    <3>2. d.top \in Int /\ d.top + 16 \in Int /\ d.top >= 92 /\ d.top + 16 <= h
      BY <1>2
    <3> QED BY <3>1, <3>2
  <2>6. CASE \E d \in AllLines(v) : Box(112, d.top, 312, d.top + 16)
    <3>1. PICK d \in AllLines(v) : Box(112, d.top, 312, d.top + 16)
      BY <2>6
    <3>2. d.top \in Int /\ d.top + 16 \in Int /\ d.top >= 92 /\ d.top + 16 <= h
      BY <1>2
    <3> QED BY <3>1, <3>2
  <2> QED BY <1>3, <2>1, <2>2, <2>3, <2>4, <2>5, <2>6
<1>6. \/ c[1] = l - 1 /\ c[2] = u
      \/ c[1] = l /\ c[2] = u - 1
      \/ c[1] = l /\ c[2] = u
      \/ c[1] = r - 1 /\ c[2] = b - 1
      \/ c[1] = r + 1 /\ c[2] = u
      \/ c[1] = l /\ c[2] = b + 1
  BY <1>4, <1>5
<1> QED BY <1>2, <1>5, <1>6 DEF h

-----------------------------------------------------------------------------
(* The flyout's invariant.                                                  *)

\* The sections are what the providers may show.
SectionsOK(s) == DOMAIN s = Provider /\ \A p \in Provider : s[p] \in Section(p)

\* What the flyout keeps: the hit test has the Vibecode row where it was
\* drawn, and a control fits into the visible window with its margin.
FlyInv ==
  /\ TypeOK
  /\ HiddenIsReleased
  /\ drawn # None => vibeTop = Vibe[drawn.view]
  /\ fly.visible => fly.height >= 68

FlyType == [visible : BOOLEAN, height : Nat, scroll : Nat, focus : 0..4, tick : BOOLEAN]

\* The present sections are one of the views.
LEMMA ViewIsView ==
  ASSUME NEW s, SectionsOK(s), codex \in BOOLEAN
  PROVE  ViewOf(s) \in Views
<1>1. s["Claude"] \in Section("Claude") /\ s["Codex"] \in Section("Codex")
  BY DEF SectionsOK, Provider
<1> QED BY <1>1 DEF ViewOf, Views

\* A click reaches what is under the pointer.
LEMMA ClickReaches ==
  ASSUME FlyInv, fly.visible, NEW c \in Corners[drawn.view]
  PROVE  LET y == c[2] - drawn.scroll
             at == DrawnAt[drawn.view][c]
         IN  /\ at \cap {"refresh", "gear", "vibe"} # {} => at = {ClickTarget(c[1], y)}
             /\ drawn.view = CurrentView => at = {ClickTarget(c[1], y)} \ {"none"}
<1> DEFINE v == drawn.view
           x == c[1]
           y == c[2]
           at == DrawnAt[v][c]
           py == y - drawn.scroll
           h == ContentHeight(v)
           lines == {d \in AllLines(v) : d.top <= y /\ y < d.top + 16}
           In(l, t, r, b) == x >= l /\ x <= r /\ y >= t /\ y <= b
<1>1. drawn \in Surface /\ v \in Views /\ drawn.scroll = fly.scroll /\ fly.scroll \in Nat
      /\ vibeTop = Vibe[v] /\ CurrentView \in Views
  <2>1. drawn \in Surface
    BY DEF FlyInv, TypeOK, HiddenIsReleased
  <2>2. CurrentView \in Views
    BY ViewIsView DEF CurrentView, SectionsOK, FlyInv, TypeOK
  <2>3. drawn # None
    BY <2>1, FlyoutAssumption
  <2> QED BY <2>1, <2>2, <2>3 DEF FlyInv, TypeOK, HiddenIsReleased, Surface
<1>2. x \in Int /\ y \in Int /\ x # 280 /\ x # 312 /\ y # 40 /\ y # h + 72 /\ y # h + 121
  BY <1>1, CornerPoints
<1>3. at = Under(v, x, y)
  BY <1>1 DEF DrawnAt, Under
<1>4. py + fly.scroll = y
  BY <1>1, <1>2
<1>5. h \in Nat /\ h >= 52 /\ \A d \in AllLines(v) : d.top \in Int /\ d.top >= 92 /\ d.top + 16 <= h
  BY <1>1, ViewHeight
<1>6. VibeRowAt(vibeTop) = Rect(16, h + 12, 312, h + 72)
  <2>1. Vibe[v] = h + 12 /\ \A top \in Int : VibeRowAt(top) = Rect(16, top, 312, top + 60)
    BY <1>1, ViewControls
  <2>2. h + 12 \in Int /\ (h + 12) + 60 = h + 72
    BY <1>5
  <2> QED BY <1>1, <2>1, <2>2
<1>7. \A l, t, r, b : Contains(Rect(l, t, r, b), x, y) <=> In(l, t, r, b)
  BY DEF Contains, Rect
<1>8. FlyHit(x, py) = IF In(252, 12, 280, 40) THEN "refresh"
                      ELSE IF In(284, 12, 312, 40) THEN "gear"
                      ELSE IF In(16, h + 12, 312, h + 72) THEN "vibe"
                      ELSE IF Contains(Footer[CurrentView], x, y) THEN "footer" ELSE "none"
  BY <1>4, <1>6, <1>7, Numbers DEF FlyHit
<1>9. /\ at \subseteq {"refresh", "gear", "vibe", "footer", "quota", "reset"}
      /\ "refresh" \in at <=> 252 <= x /\ x < 280 /\ 12 <= y /\ y < 40
      /\ "gear" \in at <=> 284 <= x /\ x < 312 /\ 12 <= y /\ y < 40
      /\ "vibe" \in at <=> 16 <= x /\ x < 312 /\ h + 12 <= y /\ y < h + 72
      /\ "footer" \in at <=> 16 <= x /\ x < 312 /\ h + 93 <= y /\ y < h + 121
      /\ "quota" \in at <=> 16 <= x /\ x < 112 /\ lines # {}
      /\ "reset" \in at <=> 112 <= x /\ x < 312 /\ \E d \in lines : d.reset
  BY <1>1, <1>2, <1>3, WhatIsUnder
<1>10. lines # {} => 92 <= y /\ y < h
  BY <1>2, <1>5
<1>11. (\E d \in lines : d.reset) => lines # {}
  OBVIOUS
<1>12. drawn.view = CurrentView =>
         /\ Contains(Footer[CurrentView], x, y) <=> In(16, h + 93, 312, h + 121)
         /\ RowShortcut(Lines[CurrentView], x, py + fly.scroll)
              = IF x < 16 \/ x >= 312 \/ lines = {} THEN "none"
                ELSE IF x < 112 THEN "quota"
                ELSE IF \E d \in lines : d.reset THEN "reset" ELSE "none"
  <2> SUFFICES ASSUME v = CurrentView
               PROVE  /\ Contains(Footer[v], x, y) <=> In(16, h + 93, 312, h + 121)
                      /\ RowShortcut(Lines[v], x, y)
                           = IF x < 16 \/ x >= 312 \/ lines = {} THEN "none"
                             ELSE IF x < 112 THEN "quota"
                             ELSE IF \E d \in lines : d.reset THEN "reset" ELSE "none"
    BY <1>4
  <2>1. Footer[v] = Rect(16, h + 93, 312, h + 121)
    BY <1>1, ViewControls
  <2>2. Lines[v] = AllLines(v)
    BY <1>1, ViewThings
  <2>3. Pad = 16 /\ FlyoutW - Pad = 312 /\ Pad + 96 = 112 /\ CaptionH = 16
    BY Numbers
  <2>4. RowShortcut(AllLines(v), x, y)
          = IF x < Pad \/ x >= FlyoutW - Pad \/ lines = {} THEN "none"
            ELSE IF x < Pad + 96 THEN "quota"
            ELSE IF \E d \in lines : d.reset THEN "reset" ELSE "none"
    BY <2>3 DEF RowShortcut
  <2> QED BY <1>7, <2>1, <2>2, <2>3, <2>4
<1>13. ClickTarget(x, py) = IF FlyHit(x, py) # "none" THEN FlyHit(x, py)
                            ELSE RowShortcut(Lines[CurrentView], x, py + fly.scroll)
  BY DEF ClickTarget
<1> DEFINE some == lines # {}
           reset == \E d \in lines : d.reset
           target == ClickTarget(x, py)
           footer == Contains(Footer[CurrentView], x, y)
           shortcut == RowShortcut(Lines[CurrentView], x, py + fly.scroll)
<1>14. /\ some => 92 <= y /\ y < h
       /\ reset => some
       /\ "quota" \in at <=> 16 <= x /\ x < 112 /\ some
       /\ "reset" \in at <=> 112 <= x /\ x < 312 /\ reset
  BY <1>9, <1>10
<1>15. target = IF In(252, 12, 280, 40) THEN "refresh"
                ELSE IF In(284, 12, 312, 40) THEN "gear"
                ELSE IF In(16, h + 12, 312, h + 72) THEN "vibe"
                ELSE IF footer THEN "footer" ELSE shortcut
  BY <1>8, <1>13
<1>16. drawn.view = CurrentView =>
         /\ footer <=> In(16, h + 93, 312, h + 121)
         /\ shortcut = IF x < 16 \/ x >= 312 \/ ~some THEN "none"
                       ELSE IF x < 112 THEN "quota"
                       ELSE IF reset THEN "reset" ELSE "none"
  BY <1>12
<1> HIDE DEF some, reset, target, footer, shortcut, at, lines, h, v, x, y, py
<1>17. ASSUME at \cap {"refresh", "gear", "vibe"} # {} PROVE at = {target}
  <2>1. CASE "refresh" \in at
    <3>1. 252 <= x /\ x < 280 /\ 12 <= y /\ y < 40
      BY <1>9, <2>1
    <3>2. target = "refresh"
      BY <1>2, <1>15, <3>1
    <3>3. \A n \in at : n = "refresh"
      BY <1>2, <1>5, <1>9, <1>14, <3>1
    <3> QED BY <2>1, <3>2, <3>3
  <2>2. CASE "gear" \in at
    <3>1. 284 <= x /\ x < 312 /\ 12 <= y /\ y < 40
      BY <1>9, <2>2
    <3>2. target = "gear"
      BY <1>2, <1>15, <3>1
    <3>3. \A n \in at : n = "gear"
      BY <1>2, <1>5, <1>9, <1>14, <3>1
    <3> QED BY <2>2, <3>2, <3>3
  <2>3. CASE "vibe" \in at
    <3>1. 16 <= x /\ x < 312 /\ h + 12 <= y /\ y < h + 72
      BY <1>9, <2>3
    <3>2. target = "vibe"
      BY <1>2, <1>5, <1>15, <3>1
    <3>3. \A n \in at : n = "vibe"
      BY <1>2, <1>5, <1>9, <1>14, <3>1
    <3> QED BY <2>3, <3>2, <3>3
  <2> QED BY <1>17, <2>1, <2>2, <2>3
<1>18. ASSUME drawn.view = CurrentView PROVE at = {target} \ {"none"}
  <2>1. CASE at \cap {"refresh", "gear", "vibe"} # {}
    <3>1. at = {target}
      BY <1>17, <2>1
    <3>2. target # "none"
      BY <1>9, <3>1
    <3> QED BY <3>1, <3>2
  <2>2. CASE at \cap {"refresh", "gear", "vibe"} = {}
    <3>1. target = IF In(16, h + 93, 312, h + 121) THEN "footer" ELSE shortcut
      BY <1>2, <1>5, <1>9, <1>15, <1>16, <1>18, <2>2
    <3>2. CASE "footer" \in at
      <4>1. target = "footer"
        BY <1>2, <1>5, <1>9, <3>1, <3>2
      <4>2. \A n \in at : n = "footer"
        BY <1>2, <1>5, <1>9, <1>14, <2>2, <3>2
      <4> QED BY <3>2, <4>1, <4>2
    <3>3. CASE "footer" \notin at
      <4>1. target = IF x < 16 \/ x >= 312 \/ ~some THEN "none"
                     ELSE IF x < 112 THEN "quota"
                     ELSE IF reset THEN "reset" ELSE "none"
        BY <1>2, <1>5, <1>9, <1>16, <1>18, <3>1, <3>3
      <4>2. \A n \in at : n = "quota" \/ n = "reset"
        <5>1. at \subseteq {"refresh", "gear", "vibe", "footer", "quota", "reset"}
          BY <1>9
        <5> QED BY <2>2, <3>3, <5>1
      <4>3. "quota" \in at <=> target = "quota"
        BY <1>2, <1>14, <4>1
      <4>4. "reset" \in at <=> target = "reset"
        BY <1>2, <1>14, <4>1
      <4>5. target \in {"quota", "reset", "none"}
        BY <4>1
      <4> QED BY <4>2, <4>3, <4>4, <4>5
    <3> QED BY <3>2, <3>3
  <2> QED BY <2>1, <2>2
<1> QED BY <1>17, <1>18 DEF at, target, v, x, y, py

\* What the invariant says of what is shown.
LEMMA FlyoutShows == FlyInv => ClicksReachDrawn /\ LayoutsAgree
<1> SUFFICES ASSUME FlyInv PROVE ClicksReachDrawn /\ LayoutsAgree
  OBVIOUS
<1>1. ClicksReachDrawn
  BY ClickReaches DEF ClicksReachDrawn
<1>2. LayoutsAgree
  <2>1. fly.visible => drawn.view \in Views
    BY DEF FlyInv, TypeOK, HiddenIsReleased, Surface
  <2> QED BY <2>1, ViewIsSpoken DEF LayoutsAgree
<1> QED BY <1>1, <1>2
-----------------------------------------------------------------------------
(* The flyout's steps.                                                      *)

\* Drawing a view in a visible window completes what a step has done.
LEMMA RenderKeeps ==
  ASSUME SectionsOK(section'), codex' \in BOOLEAN, fly' \in FlyType,
         fly'.visible, fly'.tick, fly'.height >= 68,
         NEW view \in Views, Render(view)
  PROVE  FlyInv'
<1>1. vibeTop' = Vibe[view] /\ drawn' = [view |-> view, scroll |-> fly'.scroll, focus |-> fly'.focus]
  BY DEF Render
<1>2. drawn' \in Surface /\ drawn' # None
  <2>1. drawn' \in Surface
    BY <1>1 DEF Surface, FlyType
  <2> QED BY <2>1, FlyoutAssumption
<1>3. Vibe[view] \in Nat
  <2>1. Vibe[view] = ContentHeight(view) + 12 /\ ContentHeight(view) \in Nat
    BY ViewControls, ViewHeight
  <2> QED BY <2>1
<1>4. TypeOK'
  BY <1>1, <1>2, <1>3 DEF TypeOK, FlyType, SectionsOK
<1>5. HiddenIsReleased' /\ (drawn # None => vibeTop = Vibe[drawn.view])'
  BY <1>1, <1>2 DEF HiddenIsReleased
<1> QED BY <1>4, <1>5 DEF FlyInv

\* Drawing what is shown now, if the window is visible.
LEMMA RenderCurrentKeeps ==
  ASSUME FlyInv, SectionsOK(section'), UNCHANGED codex, fly' \in FlyType,
         fly'.visible = fly.visible, fly'.tick = fly.tick, fly'.height = fly.height, RenderCurrent
  PROVE  FlyInv'
<1>1. CASE fly.visible
  <2>1. fly.tick /\ fly.height >= 68 /\ codex \in BOOLEAN
    BY <1>1 DEF FlyInv, HiddenIsReleased, TypeOK
  <2>2. ViewOf(section') \in Views
    BY <2>1, ViewIsView
  <2>3. Render(ViewOf(section'))
    BY <1>1 DEF RenderCurrent
  <2> QED BY <1>1, <2>1, <2>2, <2>3, RenderKeeps
<1>2. CASE ~fly.visible
  <2>1. UNCHANGED <<vibeTop, drawn>> /\ drawn = None
    BY <1>2 DEF RenderCurrent, FlyInv, HiddenIsReleased
  <2> QED BY <1>2, <2>1 DEF FlyInv, HiddenIsReleased, TypeOK, FlyType, SectionsOK
<1> QED BY <1>1, <1>2

\* A step that draws nothing and leaves the window alone.
LEMMA UndrawnKeeps ==
  ASSUME FlyInv, SectionsOK(section'), codex' \in BOOLEAN, UNCHANGED <<fly, vibeTop, drawn>>
  PROVE  FlyInv'
BY DEF FlyInv, HiddenIsReleased, TypeOK, SectionsOK

\* Hiding releases the surface and the timer.
LEMMA HideKeeps ==
  ASSUME FlyInv, SectionsOK(section'), codex' \in BOOLEAN, Hide
  PROVE  FlyInv' /\ ~fly'.visible
<1>1. fly' = [fly EXCEPT !.visible = FALSE, !.tick = FALSE] /\ drawn' = None /\ UNCHANGED vibeTop
  BY DEF Hide
<1>2. fly \in FlyType
  BY DEF FlyInv, TypeOK, FlyType
<1>3. fly' \in FlyType /\ ~fly'.visible /\ ~fly'.tick
  BY <1>1, <1>2 DEF FlyType
<1> QED BY <1>1, <1>3 DEF FlyInv, HiddenIsReleased, TypeOK, FlyType, SectionsOK

\* The larger and the smaller of two numbers.
LEMMA ClampOf ==
  ASSUME NEW x \in Int, NEW limit \in Int
  PROVE  /\ Clamp(x, limit) \in Nat
         /\ Clamp(x, limit) = IF (IF x < limit THEN x ELSE limit) > 0
                              THEN (IF x < limit THEN x ELSE limit) ELSE 0
BY DEF Clamp, Max, Min

\* What the sections may become.
LEMMA SpawnedOK ==
  ASSUME NEW s, SectionsOK(s), NEW ps, NEW t \in Spawned(s, ps)
  PROVE  SectionsOK(t)
<1>1. PICK qs : t = [p \in Provider |-> IF p \in qs THEN [s[p] EXCEPT !.status = TRUE] ELSE s[p]]
  BY DEF Spawned
<1>2. \A p \in Provider : s[p] \in Section(p) /\ [s[p] EXCEPT !.status = TRUE] \in Section(p)
  BY DEF SectionsOK, Section
<1> QED BY <1>1, <1>2 DEF SectionsOK

\* An answer replaces a section by one of its provider.
LEMMA AnsweredOK ==
  ASSUME NEW s, SectionsOK(s), NEW t \in Answered(s)
  PROVE  SectionsOK(t)
<1>1. PICK p \in Provider : \E sec \in Section(p) : t = [s EXCEPT ![p] = sec]
  BY DEF Answered, Active, Provider
<1> QED BY <1>1 DEF SectionsOK

\* Showing the flyout for any sections sizes it and draws it.
LEMMA ShowKeeps ==
  ASSUME FlyInv, NEW s, SectionsOK(s), UNCHANGED codex, Show(s)
  PROVE  FlyInv' /\ (fly.visible => fly'.focus = fly.focus)
<1>1. section' \in Spawned(s, Provider) /\ Render(ViewOf(section'))
  BY DEF Show
<1>2. SectionsOK(section')
  BY <1>1, SpawnedOK
<1>3. ViewOf(section') \in Views /\ codex \in BOOLEAN
  BY <1>2, ViewIsView DEF FlyInv, TypeOK
<1> DEFINE content == Height[ViewOf(section')]
           was == IF fly.visible THEN fly ELSE [fly EXCEPT !.focus = NoFocus, !.scroll = 0]
<1>4. content \in Nat /\ content >= 68
  <2>1. ContentHeight(ViewOf(section')) \in Nat /\ content = ContentHeight(ViewOf(section')) + 137
    BY <1>3, ViewHeight, ViewControls
  <2> QED BY <2>1
<1>5. PICK work \in WorkHeights :
        fly' = [was EXCEPT !.visible = TRUE, !.tick = TRUE, !.height = Min(content, Min(FlyoutMaxH, work)),
                           !.scroll = Clamp(@, content - Min(content, Min(FlyoutMaxH, work)))]
  BY DEF Show
<1> DEFINE height == Min(content, Min(FlyoutMaxH, work))
<1>6. height \in Nat /\ height >= 68
  <2>1. work \in Nat /\ work >= 68
    BY FlyoutAssumption DEF VibeH
  <2> HIDE DEF content
  <2> QED BY <1>4, <2>1 DEF Min, FlyoutMaxH
<1>7. was \in FlyType /\ (fly.visible => was.focus = fly.focus)
  <2>1. fly \in FlyType
    BY DEF FlyInv, TypeOK, FlyType
  <2>2. CASE fly.visible
    BY <2>1, <2>2
  <2>3. CASE ~fly.visible
    <3>1. was = [fly EXCEPT !.focus = 0, !.scroll = 0]
      BY <2>3 DEF NoFocus
    <3> HIDE DEF was
    <3>2. \A focus \in 0..4, scroll \in Nat : [fly EXCEPT !.focus = focus, !.scroll = scroll] \in FlyType
      BY <2>1 DEF FlyType
    <3>3. 0 \in 0..4 /\ 0 \in Nat
      OBVIOUS
    <3>4. was \in FlyType
      BY <3>1, <3>2, <3>3, Zenon
    <3> QED BY <2>3, <3>4
  <2> QED BY <2>2, <2>3
<1> HIDE DEF content, was, height
<1>8. Clamp(was.scroll, content - height) \in Nat
  <2>1. content - height \in Int /\ was.scroll \in Int
    BY <1>4, <1>6, <1>7 DEF FlyType
  <2> QED BY <2>1, ClampOf
<1>9. fly' = [was EXCEPT !.visible = TRUE, !.tick = TRUE, !.height = height,
                         !.scroll = Clamp(@, content - height)]
  BY <1>5 DEF height
<1>10. fly' \in FlyType /\ fly'.visible /\ fly'.tick /\ fly'.height = height /\ fly'.focus = was.focus
  BY <1>6, <1>7, <1>8, <1>9 DEF FlyType
<1> QED BY <1>1, <1>2, <1>3, <1>6, <1>7, <1>10, RenderKeeps

\* Where the controls are that can be focused: below the margin and above the
\* lower one.
LEMMA ControlPlace ==
  ASSUME FlyInv, NEW i \in 1..4
  PROVE  LET r == ControlRect(i)
             content == Height[CurrentView]
         IN  /\ r.top \in Int /\ r.bottom \in Int /\ content \in Nat
             /\ r.top >= 8 /\ r.bottom <= content - 8 /\ r.bottom - r.top <= 60
<1> DEFINE v == CurrentView
           h == ContentHeight(v)
<1>1. v \in Views
  BY ViewIsView DEF CurrentView, SectionsOK, FlyInv, TypeOK
<1>2. h \in Nat /\ Vibe[v] = h + 12 /\ Footer[v] = Rect(16, h + 93, 312, h + 121) /\ Height[v] = h + 137
      /\ \A top \in Int : VibeRowAt(top) = Rect(16, top, 312, top + 60)
  BY <1>1, ViewHeight, ViewControls
<1> HIDE DEF v, h
<1>3. CASE i = 1
  BY <1>2, <1>3, Numbers DEF ControlRect, Rect, v
<1>4. CASE i = 2
  BY <1>2, <1>4, Numbers DEF ControlRect, Rect, v
<1>5. CASE i = 3
  BY <1>2, <1>5 DEF ControlRect, Rect, v
<1>6. CASE i = 4
  BY <1>2, <1>6 DEF ControlRect, Rect, v
<1> QED BY <1>3, <1>4, <1>5, <1>6

\* A focused control is scrolled into the flyout with its margin.
LEMMA FlyoutScrolled ==
  ASSUME FlyInv, NEW i \in 1..4
  PROVE  /\ ScrolledTo(i) \in Nat
         /\ fly.visible => /\ ControlRect(i).top >= ScrolledTo(i)
                           /\ ControlRect(i).bottom <= ScrolledTo(i) + fly.height
<1> DEFINE r == ControlRect(i)
           content == Height[CurrentView]
           s == fly.scroll
           h == fly.height
           moved == IF r.top < s + 8 THEN r.top - 8
                    ELSE IF r.bottom > s + h - 8 THEN r.bottom - h + 8
                    ELSE s
<1>1. s \in Nat /\ h \in Nat /\ (fly.visible => h >= 68)
  BY DEF FlyInv, TypeOK
<1>2. r.top \in Int /\ r.bottom \in Int /\ content \in Nat
      /\ r.top >= 8 /\ r.bottom <= content - 8 /\ r.bottom - r.top <= 60
  BY ControlPlace
<1>3. ScrolledTo(i) = Clamp(moved, ScrollLimit)
  BY DEF ScrolledTo
<1>4. ScrollLimit = IF 0 > content - h THEN 0 ELSE content - h
  BY DEF ScrollLimit, Max
<1>5. moved \in Int /\ ScrollLimit \in Int
  BY <1>1, <1>2, <1>4
<1> HIDE DEF r, content, s, h
<1>6. /\ ScrolledTo(i) \in Nat
      /\ ScrolledTo(i) = IF (IF moved < ScrollLimit THEN moved ELSE ScrollLimit) > 0
                         THEN (IF moved < ScrollLimit THEN moved ELSE ScrollLimit) ELSE 0
  <2> HIDE DEF moved
  <2> QED BY <1>3, <1>5, ClampOf
<1>7. ASSUME h >= 68 PROVE r.top >= ScrolledTo(i) /\ r.bottom <= ScrolledTo(i) + h
  BY <1>1, <1>2, <1>4, <1>6, <1>7
<1> QED BY <1>1, <1>6, <1>7 DEF r, h

\* The flyout scrolls from the top.
LEMMA LimitIsInt == FlyInv => ScrollLimit \in Nat
<1> SUFFICES ASSUME FlyInv PROVE ScrollLimit \in Nat
  OBVIOUS
<1>1. Height[CurrentView] \in Nat
  BY ControlPlace, 1 \in 1..4
<1>2. fly.height \in Nat
  BY DEF FlyInv, TypeOK
<1> QED BY <1>1, <1>2 DEF ScrollLimit, Max

\* A step that only scrolls.
LEMMA FlyoutScrollKeeps ==
  ASSUME FlyInv, NEW scroll \in Nat, fly' = [fly EXCEPT !.scroll = scroll], UNCHANGED data, RenderCurrent
  PROVE  FlyInv' /\ fly'.focus = fly.focus
<1>1. fly \in FlyType /\ SectionsOK(section)
  BY DEF FlyInv, TypeOK, FlyType, SectionsOK
<1>2. fly' \in FlyType /\ fly'.visible = fly.visible /\ fly'.tick = fly.tick /\ fly'.height = fly.height
      /\ fly'.focus = fly.focus
  BY <1>1 DEF FlyType
<1>3. SectionsOK(section') /\ UNCHANGED codex
  BY <1>1 DEF data
<1> QED BY <1>2, <1>3, RenderCurrentKeeps

\* A step that focuses a control and scrolls it into the window.
LEMMA FlyoutFocusKeeps ==
  ASSUME FlyInv, NEW i \in 1..4, UNCHANGED data, RenderCurrent,
         fly' = [fly EXCEPT !.focus = i, !.scroll = ScrolledTo(i)]
  PROVE  FlyInv' /\ (fly.visible => FocusInView')
<1>1. fly \in FlyType /\ SectionsOK(section)
  BY DEF FlyInv, TypeOK, FlyType, SectionsOK
<1> DEFINE scroll == ScrolledTo(i)
<1>2. scroll \in Nat
  BY FlyoutScrolled
<1> HIDE DEF scroll
<1>3. fly' \in FlyType /\ fly'.visible = fly.visible /\ fly'.tick = fly.tick /\ fly'.height = fly.height
      /\ fly'.focus = i /\ fly'.scroll = scroll
  <2>1. fly' = [fly EXCEPT !.focus = i, !.scroll = scroll]
    BY DEF scroll
  <2>2. fly'.visible = fly.visible /\ fly'.tick = fly.tick /\ fly'.height = fly.height
        /\ fly'.focus = i /\ fly'.scroll = scroll
    BY <1>1, <2>1 DEF FlyType
  <2>3. i \in 0..4
    OBVIOUS
  <2>4. fly' \in FlyType
    BY <1>1, <1>2, <2>1, <2>3 DEF FlyType
  <2> QED BY <2>2, <2>4
<1>4. SectionsOK(section') /\ UNCHANGED codex
  BY <1>1 DEF data
<1>5. FlyInv'
  BY <1>3, <1>4, RenderCurrentKeeps
<1>6. ASSUME fly.visible PROVE FocusInView'
  <2>1. CurrentView' = CurrentView
    BY DEF data, CurrentView, ViewOf
  <2>2. ControlRect(fly.focus)' = ControlRect(i)
    BY <1>3, <2>1 DEF ControlRect
  <2>3. ControlRect(i).top >= scroll /\ ControlRect(i).bottom <= scroll + fly.height
    BY <1>6, FlyoutScrolled DEF scroll
  <2> QED BY <1>3, <2>2, <2>3 DEF FocusInView
<1> QED BY <1>5, <1>6

\* Whatever control a key, a click or a client works.
LEMMA FlyoutActivateKeeps ==
  ASSUME FlyInv, NEW i \in 0..5, Activate(i)
  PROVE  FlyInv' /\ (fly'.visible => fly'.focus = fly.focus)
<1>1. fly \in FlyType /\ SectionsOK(section) /\ codex \in BOOLEAN
  BY DEF FlyInv, TypeOK, FlyType, SectionsOK
<1>2. CASE i \in {1, 4}
  <2>1. section' \in Spawned(section, Provider) /\ UNCHANGED <<fly, codex>> /\ RenderCurrent
    BY <1>2 DEF Activate
  <2>2. SectionsOK(section')
    BY <1>1, <2>1, SpawnedOK
  <2> QED BY <1>1, <2>1, <2>2, RenderCurrentKeeps
<1>3. CASE i = 2
  <2>1. Hide /\ UNCHANGED data
    BY <1>3 DEF Activate
  <2>2. SectionsOK(section') /\ codex' \in BOOLEAN
    BY <1>1, <2>1 DEF data
  <2> QED BY <2>1, <2>2, HideKeeps
<1>4. CASE i = 3
  <2>1. UNCHANGED <<fly, data>> /\ RenderCurrent
    BY <1>4 DEF Activate
  <2>2. SectionsOK(section') /\ UNCHANGED codex
    BY <1>1, <2>1 DEF data
  <2> QED BY <1>1, <2>1, <2>2, RenderCurrentKeeps
<1>5. CASE i \notin 1..4
  <2>1. UNCHANGED <<fly, data, vibeTop, drawn>>
    BY <1>5 DEF Activate
  <2>2. SectionsOK(section') /\ codex' \in BOOLEAN
    BY <1>1, <2>1 DEF data
  <2> QED BY <2>1, <2>2, UndrawnKeeps
<1> QED BY <1>2, <1>3, <1>4, <1>5
\* Every step of the flyout keeps its invariant, and the control it gives the
\* focus in a visible window is in that window.
LEMMA FlyoutKeeps ==
  ASSUME FlyInv, FlyoutStep
  PROVE  /\ FlyInv'
         /\ (fly.visible /\ fly'.visible /\ fly'.focus # fly.focus /\ fly'.focus # NoFocus)
              => FocusInView'
<1>0. /\ fly \in FlyType /\ SectionsOK(section) /\ codex \in BOOLEAN
      /\ UNCHANGED data => SectionsOK(section') /\ codex' \in BOOLEAN /\ UNCHANGED codex
  BY DEF FlyInv, TypeOK, FlyType, SectionsOK, data
<1>1. CASE ToggleFlyout
  <2>1. CASE fly.visible
    <3>1. Hide /\ UNCHANGED data
      BY <1>1, <2>1 DEF ToggleFlyout, data
    <3> QED BY <1>0, <3>1, HideKeeps
  <2>2. CASE ~fly.visible
    <3>1. Show(section) /\ UNCHANGED codex
      BY <1>1, <2>2 DEF ToggleFlyout
    <3> QED BY <1>0, <2>2, <3>1, ShowKeeps
  <2> QED BY <2>1, <2>2
<1>2. CASE OpenFromToast
  BY <1>0, <1>2, ShowKeeps DEF OpenFromToast
<1>3. CASE Dismiss
  BY <1>0, <1>3, HideKeeps DEF Dismiss
<1>4. ASSUME NEW back \in BOOLEAN, Tab(back) PROVE FlyInv' /\ FocusInView'
  <2> DEFINE i == IF fly.focus = 0 THEN (IF back THEN 4 ELSE 1)
                  ELSE IF back THEN ((fly.focus - 2 + 4) % 4) + 1
                  ELSE (fly.focus % 4) + 1
  <2>1. Len(Control) = 4
    BY DEF Control
  <2>2. fly' = [fly EXCEPT !.focus = i, !.scroll = ScrolledTo(i)]
    BY <1>4, <2>1 DEF Tab, NoFocus
  <2>3. fly.focus \in 0..4
    BY <1>0 DEF FlyType
  <2>4. i \in 1..4
    BY <2>3
  <2>5. fly.visible /\ UNCHANGED data /\ RenderCurrent
    BY <1>4 DEF Tab
  <2> HIDE DEF i
  <2> QED BY <2>2, <2>4, <2>5, FlyoutFocusKeeps
<1>5. ASSUME NEW x \in Int, ScrollBy(x) PROVE FlyInv' /\ fly'.focus = fly.focus
  <2> DEFINE scroll == Clamp(fly.scroll + x, ScrollLimit)
  <2>1. fly' = [fly EXCEPT !.scroll = scroll] /\ UNCHANGED data /\ RenderCurrent
    BY <1>5 DEF ScrollBy
  <2>2. scroll \in Nat
    <3>1. fly.scroll + x \in Int
      BY <1>0 DEF FlyType
    <3>2. ScrollLimit \in Int
      BY LimitIsInt
    <3> QED BY <3>1, <3>2, ClampOf
  <2> HIDE DEF scroll
  <2> QED BY <2>1, <2>2, FlyoutScrollKeeps
<1>6. CASE Wheel
  <2>1. PICK notches \in Notches : ScrollBy(-notches * 48)
    BY <1>6 DEF Wheel
  <2>2. -notches * 48 \in Int
    BY FlyoutAssumption
  <2>3. PICK x \in Int : ScrollBy(x)
    BY <2>1, <2>2
  <2> QED BY <1>5, <2>3
<1>7. CASE Page
  <2>1. PICK direction \in {-1, 1} : ScrollBy(direction * ((fly.height * 4) \div 5))
    BY <1>7 DEF Page
  <2>2. direction * ((fly.height * 4) \div 5) \in Int
    <3>1. (fly.height * 4) \div 5 \in Int
      BY <1>0 DEF FlyType
    <3> QED BY <3>1
  <2>3. PICK x \in Int : ScrollBy(x)
    BY <2>1, <2>2
  <2> QED BY <1>5, <2>3
<1>8. CASE HomeOrEnd
  <2>1. PICK scroll \in {0, ScrollLimit} : fly' = [fly EXCEPT !.scroll = scroll]
    BY <1>8 DEF HomeOrEnd
  <2>2. UNCHANGED data /\ RenderCurrent
    BY <1>8 DEF HomeOrEnd
  <2>3. scroll \in Nat
    BY LimitIsInt, <2>1
  <2> QED BY <2>1, <2>2, <2>3, FlyoutScrollKeeps
<1>9. CASE Press
  <2>1. Activate(fly.focus) /\ fly.focus \in 0..5
    BY <1>0, <1>9 DEF Press, FlyType
  <2> QED BY <2>1, FlyoutActivateKeeps
<1>10. CASE Click
  <2>1. fly.visible
    BY <1>10 DEF Click
  <2>2. CASE \E i \in 1..4 : Activate(i)
    BY <2>2, FlyoutActivateKeeps
  <2>3. CASE UNCHANGED <<fly, data>> /\ (RenderCurrent \/ UNCHANGED <<vibeTop, drawn>>)
    BY <1>0, <2>3, RenderCurrentKeeps, UndrawnKeeps
  <2>4. PICK what \in Targets :
           IF \E i \in DOMAIN Control : Control[i] = what
           THEN Activate(CHOOSE i \in DOMAIN Control : Control[i] = what)
           ELSE UNCHANGED <<fly, data>> /\ (RenderCurrent \/ UNCHANGED <<vibeTop, drawn>>)
    BY <1>10 DEF Click
  <2>5. DOMAIN Control = 1..4
    BY DEF Control
  <2>6. (\E i \in DOMAIN Control : Control[i] = what)
          => (CHOOSE i \in DOMAIN Control : Control[i] = what) \in 1..4
    BY <2>5
  <2> QED BY <2>2, <2>3, <2>4, <2>6
<1>11. CASE UiaFocus
  <2>1. PICK i \in 1..(Len(Control) + 1) :
           IF i \in DOMAIN Control
           THEN /\ fly' = [fly EXCEPT !.focus = i, !.scroll = ScrolledTo(i)]
                /\ UNCHANGED data
                /\ RenderCurrent
           ELSE UNCHANGED vars
    BY <1>11 DEF UiaFocus
  <2>2. DOMAIN Control = 1..4
    BY DEF Control
  <2>3. CASE i \in 1..4
    BY <2>1, <2>2, <2>3, FlyoutFocusKeeps
  <2>4. CASE i \notin 1..4
    <3>1. UNCHANGED <<section, codex, fly, vibeTop, drawn>>
      BY <2>1, <2>2, <2>4 DEF vars
    <3> QED BY <1>0, <3>1, UndrawnKeeps DEF data
  <2> QED BY <2>3, <2>4
<1>12. CASE UiaInvoke
  <2>1. PICK i \in 1..(Len(Control) + 1) : Activate(i)
    BY <1>12 DEF UiaInvoke
  <2>2. i \in 0..5
    BY <2>1 DEF Control
  <2> QED BY <2>1, <2>2, FlyoutActivateKeeps
<1>13. CASE DataReady
  <2>1. PICK s \in Answered(section) :
           IF fly.visible THEN Show(s) ELSE section' = s /\ UNCHANGED <<fly, vibeTop, drawn>>
    BY <1>13 DEF DataReady
  <2>2. SectionsOK(s) /\ UNCHANGED codex
    BY <1>0, <1>13, <2>1, AnsweredOK DEF DataReady
  <2>3. CASE fly.visible
    BY <2>1, <2>2, <2>3, ShowKeeps
  <2>4. CASE ~fly.visible
    BY <1>0, <2>1, <2>2, <2>4, UndrawnKeeps
  <2> QED BY <2>3, <2>4
<1>14. CASE PollTimer
  <2>1. PICK s \in {section} \cup Answered(section) :
           /\ UNCHANGED <<fly, codex>>
           /\ IF s # section /\ fly.visible THEN Render(ViewOf(s)) ELSE UNCHANGED <<vibeTop, drawn>>
           /\ section' \in Spawned(s, Provider)
    BY <1>14 DEF PollTimer
  <2>2. SectionsOK(s)
    BY <1>0, <2>1, AnsweredOK
  <2>3. SectionsOK(section')
    BY <2>1, <2>2, SpawnedOK
  <2>4. CASE s # section /\ fly.visible
    <3>1. Render(ViewOf(s)) /\ ViewOf(s) \in Views
      BY <1>0, <2>1, <2>2, <2>4, ViewIsView
    <3>2. fly'.visible /\ fly'.tick /\ fly'.height >= 68 /\ fly' = fly
      BY <2>1, <2>4 DEF FlyInv, HiddenIsReleased
    <3> QED BY <1>0, <2>1, <2>3, <3>1, <3>2, RenderKeeps
  <2>5. CASE ~(s # section /\ fly.visible)
    BY <1>0, <2>1, <2>3, <2>5, UndrawnKeeps
  <2> QED BY <2>4, <2>5
<1>15. CASE Repaint
  BY <1>0, <1>15, RenderCurrentKeeps DEF Repaint
<1>16. CASE ThemeChange
  BY <1>0, <1>16, ShowKeeps DEF ThemeChange
<1>17. CASE NewAccount
  <2> DEFINE s == [section EXCEPT !["Claude"] = [status |-> FALSE, body |-> Note]]
  <2>1. section' \in Spawned(s, {"Claude"}) /\ UNCHANGED <<codex, fly, vibeTop, drawn>>
    BY <1>17 DEF NewAccount
  <2>2. SectionsOK(s)
    BY <1>0, FlyoutAssumption DEF SectionsOK, Section, Provider
  <2>3. SectionsOK(section')
    BY <2>1, <2>2, SpawnedOK
  <2> QED BY <1>0, <2>1, <2>3, UndrawnKeeps
<1>18. CASE SwitchCodex
  <2>1. /\ codex' = ~codex /\ UNCHANGED <<fly, vibeTop, drawn>>
        /\ section' = [section EXCEPT !["Codex"] = [status |-> codex', body |-> Note]]
    BY <1>18 DEF SwitchCodex
  <2>2. codex' \in BOOLEAN
    BY <1>0, <2>1
  <2>3. SectionsOK(section')
    <3>1. [status |-> codex', body |-> Note] \in Section("Codex")
      BY <2>2, FlyoutAssumption DEF Section, Provider
    <3> QED BY <1>0, <2>1, <3>1 DEF SectionsOK, Provider
  <2> QED BY <2>1, <2>2, <2>3, UndrawnKeeps
<1>19. CASE Age
  <2>1. PICK p \in Active : section' = [section EXCEPT ![p].status = TRUE]
    BY <1>19 DEF Age
  <2>2. p \in Provider
    BY DEF Active, Provider
  <2>3. [section[p] EXCEPT !.status = TRUE] \in Section(p)
    BY <1>0, <2>2 DEF SectionsOK, Section
  <2>4. SectionsOK(section')
    BY <1>0, <2>1, <2>2, <2>3 DEF SectionsOK
  <2>5. UNCHANGED <<codex, fly, vibeTop, drawn>>
    BY <1>19 DEF Age
  <2> QED BY <1>0, <2>4, <2>5, UndrawnKeeps
<1> QED BY <1>1, <1>2, <1>3, <1>4, <1>6, <1>7, <1>8, <1>9, <1>10, <1>11, <1>12, <1>13,
           <1>14, <1>15, <1>16, <1>17, <1>18, <1>19 DEF FlyoutStep

-----------------------------------------------------------------------------
(* Both windows together.                                                   *)

\* The flyout starts with its invariant.
LEMMA FlyoutStart == WindowsInit => FlyInv
<1> SUFFICES ASSUME WindowsInit PROVE FlyInv
  OBVIOUS
<1>1. /\ section = [p \in Provider |-> [status |-> FALSE, body |-> Note]]
      /\ codex \in BOOLEAN
      /\ fly = [visible |-> FALSE, height |-> 0, scroll |-> 0, focus |-> 0, tick |-> FALSE]
      /\ vibeTop = 0 /\ drawn = None
  BY DEF WindowsInit, Init, NoFocus
<1>2. \A p \in Provider : section[p] \in Section(p)
  BY <1>1, FlyoutAssumption DEF Section
<1>3. fly \in FlyType
  BY <1>1 DEF FlyType
<1>4. TypeOK
  BY <1>1, <1>2, <1>3 DEF TypeOK, FlyType
<1> QED BY <1>1, <1>4 DEF FlyInv, HiddenIsReleased

\* A step of the one window leaves the other alone.
LEMMA OneWindowSteps ==
  ASSUME [WindowsNext]_windowsVars
  PROVE  /\ FlyoutStep \/ UNCHANGED <<section, codex, fly, vibeTop, drawn>>
         /\ SettingsStep \/ UNCHANGED <<win, poll, shown>>
BY DEF WindowsNext, FlyoutStep, SettingsStep, InFlyout, InSettings, windowsVars, vars, cardsVars

\* Every step keeps the invariant of the flyout.
LEMMA FlyoutStepKeeps == FlyInv /\ [WindowsNext]_windowsVars => FlyInv'
<1> SUFFICES ASSUME FlyInv, [WindowsNext]_windowsVars PROVE FlyInv'
  OBVIOUS
<1>1. CASE FlyoutStep
  BY <1>1, FlyoutKeeps
<1>2. CASE UNCHANGED <<section, codex, fly, vibeTop, drawn>>
  BY <1>2 DEF FlyInv, TypeOK, HiddenIsReleased
<1> QED BY <1>1, <1>2, OneWindowSteps

\* The flyout is what it shows: a click reaches what is drawn under it, the
\* walks that draw a view and that speak one agree on it, and a hidden flyout
\* holds neither a surface nor a timer (render_flyout, fly_hit, row_shortcut,
\* accessible_rows, hide_flyout).  Which view is spoken is not claimed here.
THEOREM FlyoutShowsTruth == WindowsSpec => []FlyoutIsTrue
<1>1. FlyInv => FlyoutIsTrue
  BY FlyoutShows DEF FlyInv, FlyoutIsTrue
<1> QED BY <1>1, FlyoutStart, FlyoutStepKeeps, PTL DEF WindowsSpec

\* What a key or a client focuses is scrolled into its window
\* (scroll_flyout_focus_into_view, scroll_settings_focus_into_view).
THEOREM FocusIsSeen == WindowsSpec => FocusIsShown
<1>1. FlyInv /\ [WindowsNext]_windowsVars
        => [fly.visible /\ fly'.visible /\ fly'.focus # fly.focus /\ fly'.focus # NoFocus
              => FocusInView']_vars
  <2> SUFFICES ASSUME FlyInv, [WindowsNext]_windowsVars
               PROVE  [fly.visible /\ fly'.visible /\ fly'.focus # fly.focus /\ fly'.focus # NoFocus
                         => FocusInView']_vars
    OBVIOUS
  <2>1. CASE FlyoutStep
    BY <2>1, FlyoutKeeps
  <2>2. CASE UNCHANGED <<section, codex, fly, vibeTop, drawn>>
    BY <2>2 DEF vars
  <2> QED BY <2>1, <2>2, OneWindowSteps
<1>2. CardsInv /\ [WindowsNext]_windowsVars
        => [win.visible /\ win'.visible /\ win'.focus # win.focus /\ win'.focus >= 0
              => Cards!FocusInView' \/ (win'.scroll = win.scroll /\ Cards!PartlyInView')]_(Cards!vars)
  <2> SUFFICES ASSUME CardsInv, [WindowsNext]_windowsVars
               PROVE  [win.visible /\ win'.visible /\ win'.focus # win.focus /\ win'.focus >= 0
                         => Cards!FocusInView' \/ (win'.scroll = win.scroll /\ Cards!PartlyInView')]_(Cards!vars)
    OBVIOUS
  <2>1. CASE SettingsStep
    BY <2>1, CardsKeep
  <2>2. CASE UNCHANGED <<win, poll, shown>>
    BY <2>2 DEF Cards!vars
  <2> QED BY <2>1, <2>2, OneWindowSteps
<1>3. WindowsSpec => []FlyInv
  BY FlyoutStart, FlyoutStepKeeps, PTL DEF WindowsSpec
<1>4. WindowsSpec => FocusStaysInView
  BY <1>1, <1>3, PTL DEF WindowsSpec, FocusStaysInView
<1>5. WindowsSpec => Cards!FocusStaysInView
  BY <1>2, CardsAlways, PTL DEF WindowsSpec, Cards!FocusStaysInView
<1> QED BY <1>4, <1>5 DEF FocusIsShown
=============================================================================
