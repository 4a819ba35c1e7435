------------------------------ MODULE FlyoutLayout ------------------------------
(***************************************************************************)
(* The flyout's layout (gfx.rs), in DIP.  Four passages of the code walk   *)
(* the sections and add up heights: one sizes the window, one draws, one   *)
(* speaks and one finds the caption under the pointer.  Each is written    *)
(* here as it is there; Flyout.tla states that they agree.                 *)
(*                                                                         *)
(* A view is a sequence of sections [status, body]: whether the section    *)
(* has a status line, and its limits, each by whether it has a reset text, *)
(* or Note.  The rows of a section follow each other at equal distances.   *)
(* Colours, texts and the views of the demo are left out.                  *)
(***************************************************************************)
EXTENDS Integers, Sequences

CONSTANT Note

FlyoutW == 328
FlyoutMaxH == 720
Pad == 16
TitleH == 20
SectionGap == 16
LabelH == 20
BarH == 4
Gap == 8
CaptionH == 16
RowGap == 16
SecGap == 16
Btn == 28
VibeH == 60
VibeGap == 12
FooterAbove == 12
FooterBelow == 8
RowBlock == LabelH + Gap + BarH + Gap + CaptionH

Rect(left, top, right, bottom) ==
  [left |-> left, top |-> top, right |-> right, bottom |-> bottom]

Thing(what, rect) == [what |-> what, rect |-> rect]

-----------------------------------------------------------------------------
(* The size.                                                               *)

BodyHeight(body) ==
  IF body = Note THEN CaptionH
  ELSE LET n == IF body = <<>> THEN 1 ELSE Len(body)
       IN  n * RowBlock + (n - 1) * RowGap

ContentHeight(view) ==
  LET height[i \in 0..Len(view)] ==
        IF i = 0 THEN Pad
        ELSE height[i - 1] + (IF i > 1 THEN SecGap + 1 + SecGap ELSE 0)
               + TitleH + SectionGap + BodyHeight(view[i].body)
               + (IF view[i].status THEN CaptionH + Gap ELSE 0)
  IN  height[Len(view)]

VibeRowAt(top) == Rect(Pad, top, FlyoutW - Pad, top + VibeH)

VibeTop(view) == ContentHeight(view) + VibeGap

FooterRect(view) ==
  LET top == VibeRowAt(VibeTop(view)).bottom + FooterAbove + 1 + FooterBelow
  IN  Rect(Pad, top, FlyoutW - Pad, top + 28)

FlyoutHeight(view) == FooterRect(view).bottom + Pad

HeaderTop == Pad + ((TitleH - Btn) \div 2)
GearRect == Rect(FlyoutW - Pad - Btn, HeaderTop, FlyoutW - Pad, HeaderTop + Btn)
RefreshRect == Rect(GearRect.left - 4 - Btn, HeaderTop, GearRect.left - 4, HeaderTop + Btn)

-----------------------------------------------------------------------------
(* The drawing.                                                            *)

\* One limit: its text and bar, and the two captions under the bar.
DrawRow(y, reset) ==
  LET cap == y + LabelH + Gap + BarH + Gap
  IN  {Thing("row", Rect(Pad, y, FlyoutW - Pad, cap + CaptionH)),
       Thing("quota", Rect(Pad, cap, Pad + 96, cap + CaptionH))}
      \cup (IF reset
            THEN {Thing("reset", Rect(Pad + 96, cap, FlyoutW - Pad, cap + CaptionH))}
            ELSE {})

DrawBody(at, body) ==
  LET Top(i) == at.y + (i - 1) * (RowBlock + RowGap)
  IN  IF body = Note
      THEN [y |-> at.y + CaptionH,
            things |-> at.things
              \cup {Thing("note", Rect(Pad, at.y, FlyoutW - Pad, at.y + CaptionH))}]
      ELSE [y |-> IF Len(body) = 0 THEN at.y ELSE Top(Len(body)) + RowBlock,
            things |-> at.things \cup UNION {DrawRow(Top(i), body[i]) : i \in DOMAIN body}]

DrawSection(at, section, k) ==
  LET header == at.y + (IF k = 1 THEN 0 ELSE SecGap + 1 + SecGap)
      y == header + TitleH + SectionGap
      line == Thing("status", Rect(Pad, y, FlyoutW - Pad, y + CaptionH))
  IN  DrawBody(IF section.status
               THEN [y |-> y + CaptionH + Gap, things |-> at.things \cup {line}]
               ELSE [y |-> y, things |-> at.things],
               section.body)

DrawData(view) ==
  LET at[i \in 0..Len(view)] ==
        IF i = 0 THEN [y |-> Pad, things |-> {}]
        ELSE DrawSection(at[i - 1], view[i], i)
  IN  at[Len(view)].things

DrawControls(view) ==
  {Thing("refresh", RefreshRect), Thing("gear", GearRect),
   Thing("vibe", VibeRowAt(VibeTop(view))), Thing("footer", FooterRect(view))}

-----------------------------------------------------------------------------
(* The spoken texts, in the order in which they are read.                  *)

AccessibleBody(at, body) ==
  LET Top(i) == at.y + (i - 1) * (RowBlock + RowGap)
      Text(i) == Thing("row", Rect(Pad, Top(i), FlyoutW - Pad, Top(i) + RowBlock))
  IN  IF body = Note
      THEN [y |-> at.y + CaptionH,
            spoken |-> Append(at.spoken,
                         Thing("note", Rect(Pad, at.y, FlyoutW - Pad, at.y + CaptionH)))]
      ELSE [y |-> IF Len(body) = 0 THEN at.y ELSE Top(Len(body)) + RowBlock,
            spoken |-> at.spoken \o [i \in DOMAIN body |-> Text(i)]]

AccessibleSection(at, section, k) ==
  LET y == at.y + (IF k = 1 THEN 0 ELSE SecGap + 1 + SecGap) + TitleH + SectionGap
      line == Thing("status", Rect(Pad, y, FlyoutW - Pad, y + CaptionH))
  IN  AccessibleBody(IF section.status
                     THEN [y |-> y + CaptionH + Gap, spoken |-> Append(at.spoken, line)]
                     ELSE [y |-> y, spoken |-> at.spoken],
                     section.body)

SpokenSections(view) ==
  LET at[i \in 0..Len(view)] ==
        IF i = 0 THEN [y |-> Pad, spoken |-> <<>>]
        ELSE AccessibleSection(at[i - 1], view[i], i)
  IN  at[Len(view)].spoken

\* The time of the last update comes last, with the bounds of the footer.
AccessibleRows(view) == Append(SpokenSections(view), Thing("updated", FooterRect(view)))

\* flyout_items: the four controls come first, their index is what a client
\* focuses or invokes; the texts follow.
FlyoutItems(view) ==
  <<Thing("refresh", RefreshRect), Thing("gear", GearRect),
    Thing("vibe", VibeRowAt(VibeTop(view))), Thing("footer", FooterRect(view))>>
    \o AccessibleRows(view)

-----------------------------------------------------------------------------
(* The caption under the pointer.                                          *)

\* The caption lines row_shortcut passes: their tops and whether the limit has
\* a reset text.
CaptionsOfBody(at, body) ==
  LET Top(i) == at.y + (i - 1) * (RowBlock + RowGap)
      Line(i) == [top |-> Top(i) + RowBlock - CaptionH, reset |-> body[i]]
  IN  IF body = Note THEN [at EXCEPT !.y = @ + CaptionH]
      ELSE [y |-> IF Len(body) = 0 THEN at.y ELSE Top(Len(body)) + RowBlock,
            lines |-> at.lines \cup {Line(i) : i \in DOMAIN body}]

CaptionsOfSection(at, section, k) ==
  CaptionsOfBody([at EXCEPT !.y = @ + (IF k = 1 THEN 0 ELSE SecGap + 1 + SecGap)
                                    + TitleH + SectionGap
                                    + (IF section.status THEN CaptionH + Gap ELSE 0)],
                 section.body)

Captions(view) ==
  LET at[i \in 0..Len(view)] ==
        IF i = 0 THEN [y |-> Pad, lines |-> {}]
        ELSE CaptionsOfSection(at[i - 1], view[i], i)
  IN  at[Len(view)].lines

\* row_shortcut, with the caption lines of the view.
RowShortcut(lines, x, y) ==
  LET under == {c \in lines : c.top <= y /\ y < c.top + CaptionH}
  IN  IF x < Pad \/ x >= FlyoutW - Pad \/ under = {} THEN "none"
      ELSE IF x < Pad + 96 THEN "quota"
      ELSE IF \E c \in under : c.reset THEN "reset" ELSE "none"
=============================================================================
