------------------------------ MODULE MCProxyPath ------------------------------
(* The daemon's core under two loads.  "requests": one API call, one TLS    *)
(* handshake and one request at a time, on one route whose target and       *)
(* sharing are edited; no SSE connection.  "calls": two API calls at a time *)
(* that add and remove the route, and an SSE connection; no handshake and   *)
(* no request.  Only what comes from outside is restricted so, never what   *)
(* the daemon does with it.                                                 *)
EXTENDS ProxyPath, TLC

CONSTANTS c1, c2, s1, h1, r1, d1, a, b

MCClients == {c1, c2}
MCStreams == {s1}
MCHandshakes == {h1}
MCRequests == {r1}
MCDomains == {d1}
MCTargets == {a, b}

NoChange == [target |-> Keep, enabled |-> Keep, shared |-> Keep]
MCAddAndRemove ==
  { [op |-> "add", dom |-> d1, target |-> a, shared |-> FALSE],
    [op |-> "remove", dom |-> d1] }
MCCalls == MCAddAndRemove \cup
  { [op |-> "edit", dom |-> d1, patch |-> [NoChange EXCEPT !.target = b, !.shared = TRUE]],
    [op |-> "edit", dom |-> d1, patch |-> [NoChange EXCEPT !.enabled = FALSE]] }

VARIABLE load

MCLoad ==
  CASE load = "requests" -> pc'[c2] = "idle" /\ open' = {}
    [] load = "calls" ->
         /\ \A c \in Clients : call'[c] \in MCAddAndRemove \cup {None}
         /\ hs'[h1].at = "idle" /\ rq'[r1].at = "idle"

MCSpec ==
  /\ load \in {"requests", "calls"} /\ ProxyInit
  /\ [][ProxyNext /\ MCLoad /\ UNCHANGED load]_<<load, proxyVars>>
  /\ CallFairness
=============================================================================
