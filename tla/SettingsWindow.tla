----------------------------- MODULE SettingsWindow -----------------------------
(***************************************************************************)
(* The settings window of main.rs and gfx.rs: sixteen cards in one column, *)
(* reached by mouse, keyboard and assistive clients.  The cards are found  *)
(* by position in four places: the labels that are drawn, the list that is *)
(* spoken, the hit test, and the handler that acts on a number.  The       *)
(* refresh interval is kept in three: the settings, POLL_SECS and a timer. *)
(*                                                                         *)
(* What the other cards do belongs to other modules (SignIn, Settings,     *)
(* Vibecode, PollPipeline, UpdateCheck); here they only draw again.        *)
(* Captions, colours and the demo are left out.                            *)
(***************************************************************************)
EXTENDS SettingsLayout, FiniteSetsExt

CONSTANTS None,
          Heights,   \* of the client area the window may be given
          Saved,     \* refresh intervals the settings may hold at the start
          Notches    \* what one message of the mouse wheel may carry

VARIABLES
  win,    \* the window: exists, visible, height, scroll, focus
  poll,   \* the interval: saved, secs (POLL_SECS) and timer
  drawn   \* the surface: [scroll, focus, secs], or None

vars == <<win, poll, drawn>>

TypeOK ==
  /\ win \in [exists : BOOLEAN, visible : BOOLEAN, height : Nat, scroll : Nat,
              focus : NoCard..(NCards - 1)]
  /\ poll \in [saved : Nat, secs : Nat, timer : Nat]
  /\ drawn = None \/ drawn \in [scroll : Nat, focus : NoCard..(NCards - 1), secs : Nat]

-----------------------------------------------------------------------------
(* Where things are now.                                                   *)

\* settings_hit, on a line inside the cards' column.
SettingsHit(py) ==
  LET hit == {i \in 0..(NCards - 1) : RectOf(i).top - win.scroll <= py
                                      /\ py <= RectOf(i).bottom - win.scroll}
  IN  IF hit = {} THEN NoCard ELSE Min(hit)

Limit(height) == Max({0, SettingsHeight - height})
Clamp(x, limit) == Max({0, Min({x, limit})})

\* scroll_settings_focus_into_view: the diagnostics card always at the top.
ScrolledTo(i) ==
  LET r == RectOf(i)
      s == win.scroll
      moved == IF r.top < s + 8 \/ i = Card.diagnostics THEN r.top - 8
               ELSE IF r.bottom > s + win.height - 8 THEN r.bottom - win.height + 8
               ELSE s
  IN  Clamp(moved, Limit(win.height))

-----------------------------------------------------------------------------
(* Drawing and the interval.                                               *)

\* render_settings: also for a window that exists and is hidden.
Render == drawn' = IF win'.exists
                   THEN [scroll |-> win'.scroll, focus |-> win'.focus, secs |-> poll'.secs]
                   ELSE drawn

\* Mutant of ApplyInterval: the timer keeps its old interval.
ApplyIntervalLater(secs) == \/ poll' = [poll EXCEPT !.saved = secs, !.secs = secs]
                            \/ UNCHANGED poll

\* apply_interval: nothing changes when the settings cannot be saved.
ApplyInterval(secs) == \/ poll' = [saved |-> secs, secs |-> secs, timer |-> secs]
                       \/ UNCHANGED poll

\* The position of the interval among the pills, the second if it is none.
Position == LET at == {i \in DOMAIN Intervals : Intervals[i] = poll.secs}
            IN  IF at = {} THEN 2 ELSE Min(at)

\* step_interval
Step(direction) == ApplyInterval(Intervals[Max({1, Min({Position + direction, Len(Intervals)})})])

\* activate_settings_card, by number.
Activate(i) ==
  CASE i = Card.interval ->
         /\ ApplyInterval(Intervals[(Position % Len(Intervals)) + 1])
         /\ UNCHANGED win
         /\ Render
    [] i = Card.quit -> UNCHANGED vars             \* the program ends
    [] i \in {Card.quota, Card.reset} ->           \* toggle_row_format
         /\ UNCHANGED <<win, poll>>
         /\ IF win.visible THEN Render ELSE UNCHANGED drawn
    [] OTHER -> UNCHANGED <<win, poll>> /\ Render

-----------------------------------------------------------------------------
(* The window.                                                             *)

Init == /\ win = [exists |-> FALSE, visible |-> FALSE, height |-> 0, scroll |-> 0,
                  focus |-> NoCard]
        /\ \E secs \in Saved : poll = [saved |-> secs, secs |-> secs, timer |-> secs]
        /\ drawn = None

\* open_settings: created once, afterwards shown again as it was sized.
Open ==
  /\ \E height \in (IF win.exists THEN {win.height} ELSE Heights) :
       win' = [exists |-> TRUE, visible |-> TRUE, height |-> height, scroll |-> 0,
               focus |-> NoCard]
  /\ UNCHANGED poll
  /\ Render

\* hide_settings: Escape or the close button.
Close == /\ win.visible
         /\ win' = [win EXCEPT !.visible = FALSE]
         /\ drawn' = None
         /\ UNCHANGED poll

Tab(back) ==
  /\ win.visible
  /\ LET i == IF win.focus < 0 THEN (IF back THEN NCards - 1 ELSE 0)
              ELSE IF back THEN (win.focus - 1 + NCards) % NCards
              ELSE (win.focus + 1) % NCards
     IN  win' = [win EXCEPT !.focus = i, !.scroll = ScrolledTo(i)]
  /\ UNCHANGED poll
  /\ Render

ScrollBy(delta) ==
  /\ win.visible
  /\ win' = [win EXCEPT !.scroll = Clamp(@ + delta, Limit(win.height))]
  /\ UNCHANGED poll
  /\ Render

Wheel == \E notches \in Notches : ScrollBy(-notches * 48)

Page == \E direction \in {-1, 1} : ScrollBy(direction * ((win.height * 4) \div 5))

HomeOrEnd == \E scroll \in {0, Limit(win.height)} :
  /\ win.visible
  /\ win' = [win EXCEPT !.scroll = scroll]
  /\ UNCHANGED poll
  /\ Render

LeftOrRight == /\ win.visible /\ win.focus = Card.interval
               /\ \E direction \in {-1, 1} : Step(direction)
               /\ UNCHANGED win
               /\ Render

Press == win.visible /\ win.focus >= 0 /\ Activate(win.focus)

\* The upper and lower edges of cards that are in the window.
EdgesInWindow == (UNION {{RectOf(j).top - win.scroll, RectOf(j).bottom - win.scroll}
                           : j \in 0..(NCards - 1)}) \cap 0..(win.height - 1)

\* A click focuses the card and acts on it; on the interval card it picks a
\* pill or nothing.
Click ==
  /\ win.visible
  /\ \E i \in {SettingsHit(py) : py \in EdgesInWindow} \ {NoCard} :
       /\ win' = [win EXCEPT !.focus = i]
       /\ IF i = Card.interval
          THEN \/ \E secs \in {Intervals[k] : k \in DOMAIN Intervals} : ApplyInterval(secs)
               \/ UNCHANGED poll
          ELSE UNCHANGED poll
       /\ Render

\* WM_UIA_FOCUS and WM_UIA_INVOKE for the element at any position, visible
\* window or not: the client posted them earlier.
UiaFocus ==
  /\ win.exists
  /\ \E i \in 0..(NCards - 1) :
       win' = [win EXCEPT !.focus = i, !.scroll = ScrolledTo(i)]
  /\ UNCHANGED poll
  /\ Render

UiaInvoke == win.exists /\ \E i \in 0..(NCards - 1) : Activate(i)

\* WM_SIZE and WM_DPICHANGED.
Resize ==
  /\ win.exists
  /\ \E height \in Heights :
       win' = [win EXCEPT !.height = height, !.scroll = Clamp(@, Limit(height))]
  /\ UNCHANGED poll
  /\ Render

\* New usage, a sign-in, an update or a power broadcast: a visible window is
\* drawn again.
Repaint == win.visible /\ UNCHANGED <<win, poll>> /\ Render

Next == \/ Open \/ Close \/ \E back \in BOOLEAN : Tab(back)
        \/ Wheel \/ Page \/ HomeOrEnd \/ LeftOrRight \/ Press \/ Click
        \/ UiaFocus \/ UiaInvoke \/ Resize \/ Repaint

Spec == Init /\ [][Next]_vars

-----------------------------------------------------------------------------
(* What must hold.                                                         *)

\* A visible window shows its scroll, its focus and the interval in force,
\* the program polls at the interval it has saved, and a click on either edge
\* of a card that is drawn in the window reaches that card.
CardsReachTheirs ==
  /\ OneOrder
  /\ poll.timer = poll.secs /\ poll.saved = poll.secs
  /\ win.visible =>
       /\ drawn = [scroll |-> win.scroll, focus |-> win.focus, secs |-> poll.secs]
       /\ \A i \in 0..(NCards - 1) :
            \A y \in {RectOf(i).top - drawn.scroll, RectOf(i).bottom - drawn.scroll}
                       \cap EdgesInWindow : SettingsHit(y) = i

\* The card that a key or a client has just focused is in the window as a
\* whole; a click focuses a card where it is, of which a part may be seen.
FocusInView == /\ RectOf(win.focus).top >= win.scroll
               /\ RectOf(win.focus).bottom <= win.scroll + win.height

PartlyInView == /\ RectOf(win.focus).bottom >= win.scroll
                /\ RectOf(win.focus).top <= win.scroll + win.height

FocusStaysInView ==
  [][win.visible /\ win'.visible /\ win'.focus # win.focus /\ win'.focus >= 0
       => FocusInView' \/ (win'.scroll = win.scroll /\ PartlyInView')]_vars
=============================================================================
