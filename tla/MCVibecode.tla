----------------------------- MODULE MCVibecode -----------------------------
(* Instances of Vibecode for TLC.                                          *)
EXTENDS Vibecode

\* LID_DO_NOTHING is 0; the user sleeps (1).
MCOverride == [f \in Field |-> 0]

MCLegacy == {[f \in Field |-> IF f = "ac" THEN 0 ELSE 1]}
=============================================================================
