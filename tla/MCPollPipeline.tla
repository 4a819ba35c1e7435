--------------------------- MODULE MCPollPipeline ---------------------------
(* Instances of PollPipeline for TLC.                                      *)
EXTENDS PollPipeline

\* Codex may be read through the documented app server or the compatibility
\* endpoint; Claude has the compatibility endpoint only.
MCSources ==
  [p \in Provider |-> IF p = "Codex" THEN {"wham", "server"} ELSE {"oauth"}]

MCDefaultSource == [p \in Provider |-> IF p = "Codex" THEN "wham" ELSE "oauth"]

MCRetryAfter == {None, 9}
=============================================================================
