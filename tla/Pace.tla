---------------------------------- MODULE Pace ----------------------------------
(***************************************************************************)
(* The verdict of provider/pace.rs on the pace at which a limit is used:   *)
(* what would be used at the reset if it went on like this.  Usage is in   *)
(* half percents, instants are in seconds; the quotients of the code are   *)
(* multiplied out, so that only whole numbers remain.  The mark of an even *)
(* pace is left out.                                                       *)
(***************************************************************************)
EXTENDS Integers

CONSTANTS None,
          Windows,   \* the durations of a window in seconds
          Step       \* bound: the seconds between two looks at the clock

VARIABLES limit,     \* its class, window and the severity the provider gives it
          used,      \* half percents
          now        \* since the start of the window

vars == <<limit, used, now>>

Full == 200
Reached == Full - 1   \* 99.5 %

\* 0 stands for none.
Severity == <<"Normal", "Warning", "Critical">>

\* What is used by the end of the window, times the time that has elapsed.
Projected(u, w) == u * w

\* Seconds to the limit, and from it to the reset, both times what is used.
ToLimit(u, t) == (Full - u) * t
Margin(u, t, w) == (w - t - 60) * u - ToLimit(u, t)

\* A window that has just begun says nothing: 5 % of it, or 15 minutes.
TooEarly(t, w) == 20 * t < w \/ t < 900

Judged(l, u, t) == /\ l.class = "Quota" /\ u > 0
                   /\ l.window # None /\ 0 <= t /\ t < l.window
                   /\ ~TooEarly(t, l.window)

\* project; limitAt is an instant, spare a whole percent.
Project(l, u, t) ==
    LET w == l.window
        spare == (Full * t - Projected(u, w)) \div (2 * t)
    IN  CASE u >= Reached -> [name |-> "LimitReached"]
          [] u < Reached /\ ~Judged(l, u, t) -> [name |-> "Level"]
          [] u < Reached /\ Judged(l, u, t) ->
               IF Projected(u, w) >= Full * t
               THEN [name |-> "Over",
                     limitAt |-> IF Margin(u, t, w) > 0 THEN t + ToLimit(u, t) \div u ELSE None]
               ELSE IF 10 * Projected(u, w) > 9 * Full * t
               THEN [name |-> "Tight", spare |-> IF spare = 0 THEN 1 ELSE spare]
               ELSE [name |-> "OnTrack"]

\* Pace::severity: the place in Severity of the colour of a row.
Rank(l, u, t) ==
    LET name == Project(l, u, t).name
    IN  CASE name = "Level" -> l.severity
          [] name \in {"LimitReached", "Over"} -> 3
          [] name = "Tight" -> 2
          [] name = "OnTrack" -> 1

-----------------------------------------------------------------------------
Limits == [class : {"Quota", "Spend"}, window : Windows \cup {None}, severity : {0} \cup DOMAIN Severity]

Init == limit \in Limits /\ used = 0 /\ now = -Step

\* The usage of a window grows and its time passes.
Use == /\ used < Full
       /\ used' = used + 1
       /\ UNCHANGED <<limit, now>>

Wait == /\ limit.window # None /\ now <= limit.window
        /\ now' = now + Step
        /\ UNCHANGED <<limit, used>>

Next == Use \/ Wait

Spec == Init /\ [][Next]_vars

-----------------------------------------------------------------------------
TypeOK == limit \in Limits /\ used \in 0..Full /\ now \in Int

\* More usage at the same time never looks better, and time without usage never
\* looks worse, as long as the window is judged at all.
SteadyVerdict ==
    /\ \/ ~Judged(limit, used, now)
       \/ used < Full => Rank(limit, used, now) <= Rank(limit, used + 1, now)
    /\ \/ ~Judged(limit, used, now) \/ ~Judged(limit, used, now + Step)
       \/ Rank(limit, used, now + Step) <= Rank(limit, used, now)

\* The instant at which a limit is announced to be reached is still to come and
\* at least a minute before the reset, and what is spared lies in 1 to 9 percent.
RunOutInWindow ==
    LET verdict == Project(limit, used, now)
    IN  /\ verdict.name = "Over" /\ verdict.limitAt # None
             => now <= verdict.limitAt /\ verdict.limitAt <= limit.window - 60
        /\ verdict.name = "Tight" => verdict.spare \in 1..9
=================================================================================
