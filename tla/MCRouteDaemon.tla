----------------------------- MODULE MCRouteDaemon -----------------------------
(* Two API calls at a time and one SSE connection, no TLS handshakes: one   *)
(* route that is added shared, unshared and removed, and a second one with  *)
(* a target that validation accepts and the proxy cannot parse.             *)
EXTENDS RouteDaemon, TLC

CONSTANTS c1, c2, s1, d1, d2, good, odd

MCClients == {c1, c2}
MCStreams == {s1}
MCDomains == {d1, d2}
MCTargets == {good, odd}
MCRoutable == {good}

NoChange == [target |-> Keep, enabled |-> Keep, shared |-> Keep]
MCCalls ==
  { [op |-> "add", dom |-> d1, target |-> good, shared |-> TRUE],
    [op |-> "remove", dom |-> d1],
    [op |-> "edit", dom |-> d1, patch |-> [NoChange EXCEPT !.shared = FALSE]],
    [op |-> "add", dom |-> d2, target |-> odd, shared |-> TRUE] }

\* For the finding: one route, added and removed; one caller.
MCOneClient == {c1}
MCOneDomain == {d1}
MCFewCalls ==
  { [op |-> "add", dom |-> d1, target |-> good, shared |-> TRUE],
    [op |-> "remove", dom |-> d1] }

Symmetry == Permutations(MCClients)
=============================================================================
