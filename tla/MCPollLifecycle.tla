-------------------------- MODULE MCPollLifecycle --------------------------
(* PollLifecycle for TLC: requests are interchangeable, and so are threads. *)
EXTENDS PollLifecycle, TLC

CONSTANTS e1, e2, c1, c2

Interchangeable == Permutations({e1, e2}) \cup Permutations({c1, c2})
=============================================================================
