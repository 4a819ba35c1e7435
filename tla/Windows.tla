--------------------------------- MODULE Windows ---------------------------------
(***************************************************************************)
(* The flyout and the settings window, which one thread runs and which     *)
(* share nothing they are checked for: a behaviour is one of either, and   *)
(* the other stays closed.  Opening the settings from the flyout only      *)
(* hides the flyout.  Flyout is extended rather than instantiated, so that *)
(* TLC computes the tables of its layout once.                             *)
(***************************************************************************)
EXTENDS Flyout

CONSTANTS Heights, Saved

VARIABLES shows,            \* which of the two
          win, poll, shown  \* SettingsWindow's

\* The tallest card fits into the window with the margin it is given.
ASSUME CardsAssumption ==
  /\ \A height \in Heights : height \in Nat /\ height >= 136
  /\ Saved \subseteq Nat

Cards == INSTANCE SettingsWindow WITH drawn <- shown

cardsVars == <<win, poll, shown>>
windowsVars == <<shows, vars, cardsVars>>

\* Claude's limits may be there, one with a reset text and one without.
AllBodies == [Claude |-> {Note, <<FALSE, TRUE>>}, Codex |-> {Note}]

BothWays == {-5, 5}

WindowsInit == /\ shows \in {"flyout", "settings"}
               /\ Init
               /\ shows = "settings" => ~codex
               /\ Cards!Init

InFlyout == shows = "flyout" /\ UNCHANGED <<shows, cardsVars>>
InSettings == shows = "settings" /\ UNCHANGED <<shows, vars>>

FlyoutStep ==
    \/ InFlyout /\ ToggleFlyout
    \/ InFlyout /\ OpenFromToast
    \/ InFlyout /\ Dismiss
    \/ InFlyout /\ \E back \in BOOLEAN : Tab(back)
    \/ InFlyout /\ Wheel
    \/ InFlyout /\ Page
    \/ InFlyout /\ HomeOrEnd
    \/ InFlyout /\ Press
    \/ InFlyout /\ Click
    \/ InFlyout /\ UiaFocus
    \/ InFlyout /\ UiaInvoke
    \/ InFlyout /\ DataReady
    \/ InFlyout /\ PollTimer
    \/ InFlyout /\ Repaint
    \/ InFlyout /\ ThemeChange
    \/ InFlyout /\ NewAccount
    \/ InFlyout /\ SwitchCodex
    \/ InFlyout /\ Age

SettingsStep ==
    \/ InSettings /\ Cards!Open
    \/ InSettings /\ Cards!Close
    \/ InSettings /\ \E back \in BOOLEAN : Cards!Tab(back)
    \/ InSettings /\ Cards!Wheel
    \/ InSettings /\ Cards!Page
    \/ InSettings /\ Cards!HomeOrEnd
    \/ InSettings /\ Cards!LeftOrRight
    \/ InSettings /\ Cards!Press
    \/ InSettings /\ Cards!Click
    \/ InSettings /\ Cards!UiaFocus
    \/ InSettings /\ Cards!UiaInvoke
    \/ InSettings /\ Cards!Resize
    \/ InSettings /\ Cards!Repaint

WindowsNext == FlyoutStep \/ SettingsStep

WindowsSpec == WindowsInit /\ [][WindowsNext]_windowsVars

-----------------------------------------------------------------------------
\* The flyout is what it shows: a click reaches what is drawn under it, the two
\* walks over one view put its texts and controls at the same places, and a
\* hidden flyout holds neither a surface nor a timer (main.rs, gfx.rs).
FlyoutIsTrue == TypeOK /\ ClicksReachDrawn /\ LayoutsAgree /\ HiddenIsReleased

\* A card of the settings window is one card to the mouse, the keys and the
\* clients, and the interval it shows is the one saved and in force.
CardsAreTrue == Cards!TypeOK /\ Cards!CardsReachTheirs

\* What a key or a client focuses is scrolled into its window.
FocusIsShown == FocusStaysInView /\ Cards!FocusStaysInView
=============================================================================
