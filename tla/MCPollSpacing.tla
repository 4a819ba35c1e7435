---------------------------- MODULE MCPollSpacing ----------------------------
(* An instance of PollSpacing for TLC: Claude, which has one source.        *)
EXTENDS PollSpacing

MCSources == [p \in Provider |-> {"oauth"}]

MCDefaultSource == [p \in Provider |-> "oauth"]

\* The first fallback delay, and the longest delay a provider may ask for.
MCRetryAfter == {None, 9}
=============================================================================
