--------------------------------- MODULE Flyout ---------------------------------
(***************************************************************************)
(* The flyout window of main.rs with its assistive clients: what was drawn *)
(* last, where it was scrolled to and which control has the focus, against *)
(* what a click, a key or a client reaches.  All handlers run on the one   *)
(* window thread; what the providers show changes between them, and not    *)
(* every handler that changes it draws the window again.                   *)
(*                                                                         *)
(* The reducer behind the sections is PollPipeline's; here a provider only *)
(* has what its section looks like.  Drawing is taken to succeed, hover    *)
(* colours, the demo and the texts are left out, and the settings window   *)
(* that the gear and the captions work is SettingsWindow's.                *)
(***************************************************************************)
EXTENDS FlyoutLayout, FiniteSets

CONSTANTS None,
          Bodies,      \* what a section may hold, by provider
          WorkHeights, \* of the monitors' work areas, less the margins
          Notches      \* what one message of the mouse wheel may carry

Provider == {"Claude", "Codex"}
Control == <<"refresh", "gear", "vibe", "footer">>  \* FLY_FOCUS_N = 4
NoFocus == 0

VARIABLES
  section,  \* by provider: [status, body], what app.rs would show now
  codex,    \* whether the Codex section is shown
  fly,      \* the window: visible, height, scroll, focus, tick (its timer)
  vibeTop,  \* fly_vibe_top, kept for hit tests on every mouse move
  drawn     \* the surface: [view, scroll, focus], or None when it is dropped

vars == <<section, codex, fly, vibeTop, drawn>>

data == <<section, codex>>

\* A section of app.rs: its status line ("Updating...", outdated, an error or
\* reset credits) is there or not, its limits are the snapshot's or, without
\* a snapshot, a note.
Section(p) == [status : BOOLEAN, body : Bodies[p]]

\* Every view there is, and the parts of its layout (computed once).
Views == {<<c>> : c \in Section("Claude")}
           \cup {<<c, d>> : c \in Section("Claude"), d \in Section("Codex")}
Height == [v \in Views |-> FlyoutHeight(v)]
Vibe == [v \in Views |-> VibeTop(v)]
Footer == [v \in Views |-> FooterRect(v)]
Things == [v \in Views |-> DrawControls(v) \cup DrawData(v)]
Items == [v \in Views |-> FlyoutItems(v)]
Lines == [v \in Views |-> Captions(v)]

Surface == [view : Views, scroll : Nat, focus : 0..4]

\* A section shows a note or rows; the control that is focused fits into the
\* window with the margin it is given.
ASSUME FlyoutAssumption ==
  /\ \A p \in Provider : Note \in Bodies[p] /\ Bodies[p] \subseteq {Note} \cup Seq(BOOLEAN)
  /\ \A work \in WorkHeights : work \in Nat /\ work >= VibeH + 8
  /\ Notches \subseteq Int
  /\ None \notin Surface

TypeOK ==
  /\ DOMAIN section = Provider /\ \A p \in Provider : section[p] \in Section(p)
  /\ codex \in BOOLEAN
  /\ fly \in [visible : BOOLEAN, height : Nat, scroll : Nat, focus : 0..4, tick : BOOLEAN]
  /\ vibeTop \in Nat
  /\ drawn \in Surface \cup {None}

\* current_view on the window thread.  On the threads of UI Automation, for which
\* accessibility.rs calls it too, app.rs keeps no sections (STATE is thread-local).
ViewOf(s) == IF codex THEN <<s["Claude"], s["Codex"]>> ELSE <<s["Claude"]>>

CurrentView == ViewOf(section)

Active == IF codex THEN Provider ELSE {"Claude"}

Max(a, b) == IF a > b THEN a ELSE b
Min(a, b) == IF a < b THEN a ELSE b
Clamp(x, limit) == Max(0, Min(x, limit))

Init == /\ section = [p \in Provider |-> [status |-> FALSE, body |-> Note]]
        /\ codex \in BOOLEAN
        /\ fly = [visible |-> FALSE, height |-> 0, scroll |-> 0, focus |-> NoFocus,
                  tick |-> FALSE]
        /\ vibeTop = 0
        /\ drawn = None

-----------------------------------------------------------------------------
(* What the handlers are made of.                                          *)

\* The providers after requests to refresh those of ps: each shows
\* "Updating..." or has been refused.
Spawned(s, ps) ==
  {[p \in Provider |-> IF p \in qs THEN [s[p] EXCEPT !.status = TRUE] ELSE s[p]]
     : qs \in SUBSET (ps \cap Active)}

\* Mutant of Render: the hit test keeps the row where it was.
RenderOnly(view) == /\ UNCHANGED vibeTop
                    /\ drawn' = [view |-> view, scroll |-> fly'.scroll, focus |-> fly'.focus]

\* render_flyout: also keeps the top of the Vibecode row.
Render(view) == /\ vibeTop' = Vibe[view]
                /\ drawn' = [view |-> view, scroll |-> fly'.scroll, focus |-> fly'.focus]

\* render_flyout_current: at the size the window has, and not at all when it
\* is hidden.
RenderCurrent == IF fly'.visible THEN Render(ViewOf(section'))
                 ELSE UNCHANGED <<vibeTop, drawn>>

\* show_flyout, from the providers' sections s: it asks for fresh usage,
\* sizes the window for the view and clamps the scroll to that size.
Show(s) ==
  /\ section' \in Spawned(s, Provider)
  /\ \E work \in WorkHeights :
       LET content == Height[ViewOf(section')]
           height == Min(content, Min(FlyoutMaxH, work))
           was == IF fly.visible THEN fly
                  ELSE [fly EXCEPT !.focus = NoFocus, !.scroll = 0]
       IN  fly' = [was EXCEPT !.visible = TRUE, !.tick = TRUE, !.height = height,
                              !.scroll = Clamp(@, content - height)]
  /\ Render(ViewOf(section'))

\* hide_flyout: the window, its timer and its surface.
Hide == /\ fly' = [fly EXCEPT !.visible = FALSE, !.tick = FALSE]
        /\ drawn' = None
        /\ UNCHANGED vibeTop

ScrollLimit == Max(0, Height[CurrentView] - fly.height)

ControlRect(i) == CASE i = 1 -> RefreshRect
                    [] i = 2 -> GearRect
                    [] i = 3 -> VibeRowAt(Vibe[CurrentView])
                    [] i = 4 -> Footer[CurrentView]

\* Mutant of ScrolledTo: the focus moves and the window does not follow.
ScrolledNowhere(i) == fly.scroll

\* scroll_flyout_focus_into_view
ScrolledTo(i) ==
  LET r == ControlRect(i)
      s == fly.scroll
      moved == IF r.top < s + 8 THEN r.top - 8
               ELSE IF r.bottom > s + fly.height - 8 THEN r.bottom - fly.height + 8
               ELSE s
  IN  Clamp(moved, ScrollLimit)

\* activate_flyout_control, by index of the control.  The footer asks for
\* nothing while a provider waits for its retry time, which is one of the
\* outcomes of Spawned.
Activate(i) ==
  CASE i \in {1, 4} ->
         /\ section' \in Spawned(section, Provider)
         /\ UNCHANGED <<fly, codex>>
         /\ RenderCurrent
    [] i = 2 -> Hide /\ UNCHANGED data       \* and open_settings
    [] i = 3 -> UNCHANGED <<fly, data>> /\ RenderCurrent
    [] OTHER -> UNCHANGED <<fly, data, vibeTop, drawn>>

Contains(r, x, y) == x >= r.left /\ x <= r.right /\ y >= r.top /\ y <= r.bottom

\* fly_hit, in window coordinates.
FlyHit(x, py) ==
  LET y == py + fly.scroll
  IN  IF Contains(RefreshRect, x, y) THEN "refresh"
      ELSE IF Contains(GearRect, x, y) THEN "gear"
      ELSE IF Contains(VibeRowAt(vibeTop), x, y) THEN "vibe"
      ELSE IF Contains(Footer[CurrentView], x, y) THEN "footer"
      ELSE "none"

\* WM_LBUTTONUP: the controls before the captions.
ClickTarget(x, y) ==
  IF FlyHit(x, y) # "none" THEN FlyHit(x, y)
  ELSE RowShortcut(Lines[CurrentView], x, y + fly.scroll)

-----------------------------------------------------------------------------
(* The user and the assistive clients.                                     *)

ToggleFlyout == /\ IF fly.visible THEN Hide /\ UNCHANGED section ELSE Show(section)
                /\ UNCHANGED codex

\* WM_TOAST_ACTIVATED
OpenFromToast == Show(section) /\ UNCHANGED codex

\* Escape, or another window becomes the active one.
Dismiss == fly.visible /\ Hide /\ UNCHANGED data

\* The visible window's keys, wheel and mouse.
Tab(back) ==
  /\ fly.visible
  /\ LET n == Len(Control)
         i == IF fly.focus = NoFocus THEN (IF back THEN n ELSE 1)
              ELSE IF back THEN ((fly.focus - 2 + n) % n) + 1
              ELSE (fly.focus % n) + 1
     IN  fly' = [fly EXCEPT !.focus = i, !.scroll = ScrolledTo(i)]
  /\ UNCHANGED data
  /\ RenderCurrent

ScrollBy(delta) ==
  /\ fly.visible
  /\ fly' = [fly EXCEPT !.scroll = Clamp(@ + delta, ScrollLimit)]
  /\ UNCHANGED data
  /\ RenderCurrent

Wheel == \E notches \in Notches : ScrollBy(-notches * 48)

Page == \E direction \in {-1, 1} : ScrollBy(direction * ((fly.height * 4) \div 5))

HomeOrEnd == \E scroll \in {0, ScrollLimit} :
  /\ fly.visible
  /\ fly' = [fly EXCEPT !.scroll = scroll]
  /\ UNCHANGED data
  /\ RenderCurrent

Press == fly.visible /\ Activate(fly.focus)

\* The things that can be under the pointer now.
Targets == {t.what : t \in Things[CurrentView]} \ {"row", "status", "note"}

\* A caption changes the format of the rows in the settings and draws again.
Click ==
  /\ fly.visible
  /\ \E what \in Targets :
       IF \E i \in DOMAIN Control : Control[i] = what
       THEN Activate(CHOOSE i \in DOMAIN Control : Control[i] = what)
       ELSE /\ UNCHANGED <<fly, data>>
            /\ RenderCurrent \/ UNCHANGED <<vibeTop, drawn>>

\* WM_UIA_FOCUS and WM_UIA_INVOKE: an assistive client posted them for the
\* element with this index, when the window may have shown another view or
\* been hidden, so every index can arrive at any time.
UiaFocus ==
  \E i \in 1..(Len(Control) + 1) :
    IF i \in DOMAIN Control
    THEN /\ fly' = [fly EXCEPT !.focus = i, !.scroll = ScrolledTo(i)]
         /\ UNCHANGED data
         /\ RenderCurrent
    ELSE UNCHANGED vars

UiaInvoke == \E i \in 1..(Len(Control) + 1) : Activate(i)

-----------------------------------------------------------------------------
(* The program's other messages.                                           *)

\* The result of a request: what a provider may show after it.
Answered(s) == UNION {{[s EXCEPT ![p] = sec] : sec \in Section(p)} : p \in Active}

\* WM_DATA_READY: a visible flyout is shown again, at its new size.
DataReady ==
  \E s \in Answered(section) :
    /\ IF fly.visible THEN Show(s)
       ELSE section' = s /\ UNCHANGED <<fly, vibeTop, drawn>>
    /\ UNCHANGED codex

\* TIMER_POLL: events whose wake-up was lost are drawn at the old size, and
\* the requests that follow are not drawn.
PollTimer ==
  \E s \in {section} \cup Answered(section) :
    /\ UNCHANGED <<fly, codex>>
    /\ IF s # section /\ fly.visible THEN Render(ViewOf(s))
       ELSE UNCHANGED <<vibeTop, drawn>>
    /\ section' \in Spawned(s, Provider)

\* TIMER_TICK, a power broadcast, the end of an update check or a failed
\* sign-in: drawn again as it is.
Repaint == /\ fly.visible
           /\ UNCHANGED <<fly, data>>
           /\ RenderCurrent

\* refresh_theme
ThemeChange == fly.visible /\ Show(section) /\ UNCHANGED codex

\* A new Claude account, the Codex switch of the settings window, and the
\* time, which outdates usage: none of them draws the flyout.
NewAccount == /\ section' \in Spawned([section EXCEPT !["Claude"] = [status |-> FALSE, body |-> Note]],
                                      {"Claude"})
              /\ UNCHANGED <<codex, fly, vibeTop, drawn>>

SwitchCodex == /\ codex' = ~codex
               /\ section' = [section EXCEPT !["Codex"] = [status |-> codex', body |-> Note]]
               /\ UNCHANGED <<fly, vibeTop, drawn>>

Age == /\ \E p \in Active : section' = [section EXCEPT ![p].status = TRUE]
       /\ UNCHANGED <<codex, fly, vibeTop, drawn>>

Next == \/ ToggleFlyout \/ OpenFromToast \/ Dismiss
        \/ \E back \in BOOLEAN : Tab(back)
        \/ Wheel \/ Page \/ HomeOrEnd \/ Press \/ Click
        \/ UiaFocus \/ UiaInvoke
        \/ DataReady \/ PollTimer \/ Repaint \/ ThemeChange
        \/ NewAccount \/ SwitchCodex \/ Age

Spec == Init /\ [][Next]_vars

-----------------------------------------------------------------------------
(* What must hold.                                                         *)

\* What can be clicked of a view, and its corners with the points outside.
Clickable == [v \in Views |-> {t \in Things[v] : t.what \notin {"row", "status", "note"}}]

Corners ==
  [v \in Views |->
     UNION {{<<r.left - 1, r.top>>, <<r.left, r.top - 1>>, <<r.left, r.top>>,
             <<r.right - 1, r.bottom - 1>>, <<r.right + 1, r.top>>, <<r.left, r.bottom + 1>>}
            : r \in {t.rect : t \in Clickable[v]}}]

DrawnAt ==
  [v \in Views |-> [c \in Corners[v] |->
     {t.what : t \in {u \in Clickable[v] : /\ u.rect.left <= c[1] /\ c[1] < u.rect.right
                                          /\ u.rect.top <= c[2] /\ c[2] < u.rect.bottom}}]]

\* Whatever moved since the last drawing, a click on the refresh button, the
\* gear or the Vibecode row reaches what is drawn there; and as long as the
\* view is the drawn one, a click anywhere does (main.rs keeps fly_vibe_top
\* for the first, and lays everything out again for the second).
ClicksReachDrawn ==
  fly.visible => \A c \in Corners[drawn.view] :
    LET y == c[2] - drawn.scroll
        at == DrawnAt[drawn.view][c]
    IN  y >= 0 /\ y < fly.height
          => /\ at \cap {"refresh", "gear", "vibe"} # {} => at = {ClickTarget(c[1], y)}
             /\ drawn.view = CurrentView => at = {ClickTarget(c[1], y)} \ {"none"}

\* A client that is told of these items finds every text and control of the
\* view where it is drawn, the controls first: their index is what it sends.
Speaks(items, view) ==
  /\ {items[i] : i \in DOMAIN items}
       = {t \in Things[view] : t.what \notin {"quota", "reset"}}
           \cup {Thing("updated", Footer[view])}
  /\ \A i \in DOMAIN Control : items[i].what = Control[i]

\* "Text bounds and spoken labels share the flyout's layout math" (gfx.rs): the
\* walk for assistive clients and the one that draws agree on every view that
\* both are given.  (Which view a client's thread is given is another matter.)
LayoutsAgree == fly.visible => Speaks(Items[drawn.view], drawn.view)

\* A hidden flyout holds no surface and no timer, a visible one has both, and
\* what it shows is where it is scrolled to (ARCHITECTURE.md: "Surface
\* dropped on hide, recreated on show").
HiddenIsReleased ==
  /\ fly.visible <=> drawn # None
  /\ fly.visible <=> fly.tick
  /\ fly.visible => drawn.scroll = fly.scroll /\ drawn.focus = fly.focus

\* The control that a key or a client has just focused is in the window.
FocusInView ==
  LET r == ControlRect(fly.focus)
  IN  r.top >= fly.scroll /\ r.bottom <= fly.scroll + fly.height

FocusStaysInView ==
  [][fly.visible /\ fly'.visible /\ fly'.focus # fly.focus /\ fly'.focus # NoFocus
       => FocusInView']_vars
=============================================================================
