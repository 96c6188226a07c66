------------------------------- MODULE MCBar -------------------------------
(* A bar over one route that is added and removed again and again, with two *)
(* refreshes under way at once and a channel that holds two events.         *)
EXTENDS Bar, TLC

CONSTANTS n1, v1

MCNames == {n1}
MCValues == {v1}
MCRefreshers == {1, 2}
=============================================================================
