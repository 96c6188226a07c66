----------------------------- MODULE MCLifecycle -----------------------------
(* Three daemons: the supervisor's child, and two that are started by hand  *)
(* or by clients; at most two crashes or failures.                          *)
EXTENDS Lifecycle, TLC

CONSTANTS p1, p2, p3

MCProcs == {p1, p2, p3}
MCTwoProcs == {p1, p2}
MCMaxFaults == 2
=============================================================================
