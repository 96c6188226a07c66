------------------------------ MODULE ProxyPath ------------------------------
(***************************************************************************)
(* Requests through the proxy (Server.handle in internal/proxy/server.go)  *)
(* while the daemon runs.  A request reads the router three times, each    *)
(* time from the table that is current at that moment: the reverse proxy,  *)
(* for a LAN peer the shared flag, and the target that becomes its Host.   *)
(***************************************************************************)
EXTENDS RouteDaemon

CONSTANT Requests       \* concurrent HTTPS requests

VARIABLE rq             \* [Requests -> where the request is and what it read]

proxyVars == <<vars, rq>>

\* Mutant: an unknown host stands for its own target.
LookupOrHost(d) == IF Has(d) THEN table[d].target ELSE d
Lookup(d) == IF Has(d) THEN table[d].target ELSE None
Shared(d) == Has(d) /\ table[d].shared

NoRequest == [at |-> "idle", host |-> None, lan |-> FALSE,
              via |-> None, shared |-> FALSE, target |-> None, moved |-> FALSE]

RequestTypeOK ==
  rq \in [Requests ->
           [at : {"idle", "acl", "target", "forward"}, host : Domains \cup {None},
            lan : BOOLEAN, via : Targets \cup {None}, shared : BOOLEAN,
            target : Targets \cup {None}, moved : BOOLEAN]]

ProxyInit == Init /\ rq = [r \in Requests |-> NoRequest]

\* LookupProxy finds the host's reverse proxy, or the answer is a 404.  The
\* entry's shared flag is history, and so is "moved": the table has been
\* replaced by a different one since.
LookupProxy(r, d, lan) ==
  /\ engine = "serving" /\ rq[r].at = "idle" /\ Has(d)
  /\ rq' = [rq EXCEPT ![r] = [NoRequest EXCEPT
              !.at = IF lan THEN "acl" ELSE "target", !.host = d, !.lan = lan,
              !.via = table[d].target, !.shared = table[d].shared]]
  /\ UNCHANGED vars

\* Mutant: no access check.
CheckNothing(r) ==
  /\ rq[r].at = "acl"
  /\ rq' = [rq EXCEPT ![r].at = "target"]
  /\ UNCHANGED vars

\* A LAN peer is refused with a 403 unless the host is shared.
CheckShared(r) ==
  /\ rq[r].at = "acl"
  /\ rq' = [rq EXCEPT ![r] =
              IF Shared(@.host) THEN [@ EXCEPT !.at = "target"] ELSE NoRequest]
  /\ UNCHANGED vars

LookupTarget(r) ==
  /\ rq[r].at = "target"
  /\ rq' = [rq EXCEPT ![r].at = "forward", ![r].target = Lookup(rq[r].host)]
  /\ UNCHANGED vars

\* rp.ServeHTTP, an answer or an upstream error, and Stats.Record.
Forward(r) ==
  /\ rq[r].at = "forward"
  /\ rq' = [rq EXCEPT ![r] = NoRequest]
  /\ UNCHANGED vars

DaemonStep ==
  /\ Next
  /\ rq' = [r \in Requests |->
              IF ~up' \/ rq[r].at = "idle" THEN NoRequest
              ELSE [rq[r] EXCEPT !.moved = @ \/ table' # table]]

ProxyNext ==
  \/ DaemonStep
  \/ \E r \in Requests :
       \/ \E d \in Domains, lan \in BOOLEAN : LookupProxy(r, d, lan)
       \/ CheckShared(r) \/ LookupTarget(r) \/ Forward(r)

ProxySpec == ProxyInit /\ [][ProxyNext]_proxyVars

-----------------------------------------------------------------------------
\* A request no reload overtook is forwarded by one consistent entry: the
\* upstream is the one of its Host header and of the current table, and a LAN
\* peer got through because that entry is shared.
UndisturbedRequestIsConsistent ==
  \A r \in Requests :
    rq[r].at = "forward" /\ ~rq[r].moved =>
      /\ Has(rq[r].host)
      /\ rq[r].via = rq[r].target /\ rq[r].target = table[rq[r].host].target
      /\ rq[r].lan => rq[r].shared
=============================================================================
