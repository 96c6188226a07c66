------------------------------ MODULE EventFeed ------------------------------
(***************************************************************************)
(* What the event stream of the daemon promises its subscribers, and all   *)
(* that it promises: every source numbers its events 1, 2, 3, ...; a       *)
(* subscriber is handed events of a source with increasing numbers, each   *)
(* at most once and never before it was issued; gaps are allowed, because  *)
(* the hub drops events of a slow subscriber.  There is no order between   *)
(* events of different sources.                                            *)
(***************************************************************************)
EXTENDS Naturals

CONSTANTS Sources,      \* the goroutines that publish
          Subscribers   \* the SSE connections

VARIABLES issued,       \* [Sources -> Nat]: events issued so far
          last,         \* [Subscribers -> [Sources -> Nat]]: latest handed over
          count         \* [Subscribers -> [Sources -> Nat]]: how many were

vars == <<issued, last, count>>

TypeOK ==
  /\ issued \in [Sources -> Nat]
  /\ last \in [Subscribers -> [Sources -> Nat]] /\ count \in [Subscribers -> [Sources -> Nat]]

Init ==
  /\ issued = [p \in Sources |-> 0]
  /\ last = [s \in Subscribers |-> [p \in Sources |-> 0]]
  /\ count = last

Issue(p) ==
  /\ issued' = [issued EXCEPT ![p] = @ + 1]
  /\ UNCHANGED <<last, count>>

HandOver(s, p, n) ==
  /\ last[s][p] < n /\ n <= issued[p]
  /\ last' = [last EXCEPT ![s][p] = n]
  /\ count' = [count EXCEPT ![s][p] = @ + 1]
  /\ UNCHANGED issued

Next ==
  \/ \E p \in Sources : Issue(p)
  \/ \E s \in Subscribers, p \in Sources :
       \E n \in 1..issued[p] : HandOver(s, p, n)

Spec == Init /\ [][Next]_vars
=============================================================================
