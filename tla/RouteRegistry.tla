---------------------------- MODULE RouteRegistry ----------------------------
(***************************************************************************)
(* What the daemon's API promises about routes: a linearizable, durable    *)
(* map from domains to routes.  A call takes effect at one instant between *)
(* its invocation and its answer, or not at all; "ok", "duplicate",        *)
(* "notFound" and "storeWriteFailed" are exact; "internal" (a 500) is      *)
(* given to a call that did take effect; when the daemon stops, pending    *)
(* calls get no answer, effective or not, and the map survives.            *)
(***************************************************************************)
EXTENDS Routes

CONSTANT Clients    \* whoever calls the API, one call at a time

VARIABLES reg,      \* [Domains -> Route \cup {None}]
          state,    \* [Clients -> "idle", "called", or the outcome to answer]
          call,     \* [Clients -> the request being served, or None]
          answer    \* [Clients -> the answer to its latest call, or None]

vars == <<reg, state, call, answer>>

TypeOK ==
  /\ reg \in RouteMap
  /\ state \in [Clients -> Outcomes \cup {"idle", "called"}]
  /\ call \in [Clients -> Request \cup {None}]
  /\ answer \in [Clients -> Outcomes \cup {"internal", None}]

Init ==
  /\ reg = [d \in Domains |-> None]
  /\ state = [c \in Clients |-> "idle"]
  /\ call = [c \in Clients |-> None]
  /\ answer = [c \in Clients |-> None]

Invoke(c) ==
  /\ state[c] = "idle"
  /\ state' = [state EXCEPT ![c] = "called"]
  /\ call'[c] \in Request /\ call' = [call EXCEPT ![c] = call'[c]]
  /\ answer' = [answer EXCEPT ![c] = None]
  /\ UNCHANGED reg

Accept(c) ==
  LET q == call[c] IN
  /\ state[c] = "called" /\ Verdict(q, reg[q.dom]) = "ok"
  /\ reg' = [reg EXCEPT ![q.dom] = Requested(q, reg[q.dom])]
  /\ state' = [state EXCEPT ![c] = "ok"]
  /\ UNCHANGED <<call, answer>>

Refuse(c) ==
  LET v == Verdict(call[c], reg[call[c].dom]) IN
  /\ state[c] = "called"
  /\ state' = [state EXCEPT ![c] = IF v = "ok" THEN "storeWriteFailed" ELSE v]
  /\ UNCHANGED <<reg, call, answer>>

Answer(c) ==
  /\ state[c] \in Outcomes
  /\ \E a \in {state[c]} \cup (IF state[c] = "ok" THEN {"internal"} ELSE {}) :
       answer' = [answer EXCEPT ![c] = a]
  /\ state' = [state EXCEPT ![c] = "idle"]
  /\ call' = [call EXCEPT ![c] = None]
  /\ UNCHANGED reg

Stop ==
  /\ state' = [c \in Clients |-> "idle"]
  /\ call' = [c \in Clients |-> None]
  /\ UNCHANGED <<reg, answer>>

Next ==
  \/ \E c \in Clients : Invoke(c) \/ Accept(c) \/ Refuse(c) \/ Answer(c)
  \/ Stop

Spec == Init /\ [][Next]_vars
=============================================================================
