----------------------------- MODULE SettingsLayout -----------------------------
(***************************************************************************)
(* The column of cards of the settings window (gfx.rs, accessibility.rs):  *)
(* how the sixteen cards are numbered in the four places that know them,   *)
(* and where each one lies, in DIP.                                        *)
(***************************************************************************)
EXTENDS Integers, Sequences

\* The CARD_ constants.
Card == [account |-> 0, caps |-> 1, autostart |-> 2, codex |-> 3, alerts |-> 4,
         updates |-> 5, lid |-> 6, interval |-> 7, refresh |-> 8, about |-> 9,
         quit |-> 10, diagnostics |-> 11, server |-> 12, pace |-> 13,
         quota |-> 14, reset |-> 15]
NCards == 16
Name == DOMAIN Card

\* render_settings: the labels, by position.
Labels == <<"account", "caps", "autostart", "codex", "alerts", "updates", "lid",
            "interval", "refresh", "about", "quit", "diagnostics", "server",
            "pace", "quota", "reset">>

\* settings_items: what is spoken, in the order of the list, each with the
\* number of the card whose rectangle it takes.
Spoken ==
  LET Item(name, card) == [name |-> name, card |-> card]
  IN  <<Item("account", Card.account), Item("caps", Card.caps)>>
      \o <<Item("autostart", Card.autostart), Item("codex", Card.codex),
           Item("alerts", Card.alerts), Item("updates", Card.updates)>>
      \o <<Item("lid", Card.lid), Item("interval", Card.interval),
           Item("refresh", Card.refresh), Item("about", Card.about),
           Item("quit", Card.quit), Item("diagnostics", Card.diagnostics),
           Item("server", Card.server), Item("pace", Card.pace)>>
      \o <<Item("quota", Card.quota), Item("reset", Card.reset)>>

Intervals == <<30, 60, 120, 300>>
NoCard == -1

-----------------------------------------------------------------------------
SetPad == 24
CardGap == 4

CardHeight(i) == CASE i = Card.diagnostics -> 128
                   [] i = Card.server -> 80
                   [] OTHER -> 56

\* settings_rects without a scroll: top and bottom of every card.
Rects ==
  LET top[i \in 0..(NCards - 1)] ==
        IF i = 0 THEN SetPad ELSE top[i - 1] + CardHeight(i - 1) + CardGap
  IN  [i \in 0..(NCards - 1) |-> [top |-> top[i], bottom |-> top[i] + CardHeight(i)]]

RectOf(i) == Rects[i]

SettingsHeight == RectOf(NCards - 1).bottom + SetPad

-----------------------------------------------------------------------------
\* The cards agree: the label drawn on a card, what is spoken for it and what
\* the handler does are found by the same number, so what a client invokes is
\* what it has read out.
OneOrder ==
  /\ \A name \in Name : Labels[Card[name] + 1] = name
  /\ \A k \in DOMAIN Spoken : Spoken[k].card = k - 1 /\ Card[Spoken[k].name] = k - 1
=============================================================================
