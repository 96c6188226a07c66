---------------------------- MODULE RegistryProofs ----------------------------
(***************************************************************************)
(* The daemon's API implements RouteRegistry: a call takes effect when its *)
(* write of the store commits, or is refused when its handler's check or   *)
(* write fails; every other step is a stuttering step of the registry.     *)
(***************************************************************************)
EXTENDS RouteDaemonProofs

state == [c \in Clients |-> CallState(c)]

\* A handler's step moves its own state only.
LEMMA StateStep ==
  ASSUME TypeOK, NEW c \in Clients, Lock(c) \/ CallStepOf(c), NEW s, CallState(c)' = s
  PROVE  state' = [state EXCEPT ![c] = s]
<1>1. \A b \in Clients \ {c} : CallState(b)' = CallState(b)
  BY Frame DEF CallState
<1> QED BY <1>1 DEF state

\* As long as the outcome stands and the handler is past its write (or before
\* its check), the registry sees nothing.
LEMMA Stutter ==
  ASSUME TypeOK, NEW c \in Clients, Lock(c) \/ CallStepOf(c),
         CallState(c)' = CallState(c), UNCHANGED <<store, call, answer>>
  PROVE  UNCHANGED Registry!vars
<1>1. state' = [state EXCEPT ![c] = CallState(c)]
  BY StateStep
<1>2. state' = state
  BY <1>1 DEF state
<1> QED BY <1>2 DEF Registry!vars, state

\* A handler that is done answers with its outcome, or 500 after a panic.
LEMMA FinishAnswers ==
  ASSUME TypeOK, NEW c \in Clients, Lock(c) \/ CallStepOf(c),
         pc[c] \notin {"idle", "lock", "check", "put"}, result[c] \in Outcomes,
         NEW a, a = result[c] \/ (result[c] = "ok" /\ a = "internal"),
         Finish(c, a), UNCHANGED store
  PROVE  Registry!Answer(c)
<1> USE DEF TypeOK, CallTypeOK
<1>1. state[c] = result[c]
  BY DEF state, CallState
<1>2. pc'[c] = "idle" /\ answer' = [answer EXCEPT ![c] = a] /\ call' = [call EXCEPT ![c] = None]
  BY DEF Finish, Goto
<1>3. state' = [state EXCEPT ![c] = "idle"]
  BY <1>2, StateStep DEF CallState
<1>4. \E b \in {state[c]} \cup (IF state[c] = "ok" THEN {"internal"} ELSE {}) :
        answer' = [answer EXCEPT ![c] = b]
  BY <1>1, <1>2
<1> QED BY <1>1, <1>2, <1>3, <1>4 DEF Registry!Answer, Registry!Outcomes, Outcomes,
           Registry!Refusal, Refusal, state

\* The registry's operators on routes are the daemon's.
LEMMA SameRoutes ==
  /\ \A q, r : Registry!Verdict(q, r) = Verdict(q, r)
  /\ \A q, r : Registry!Requested(q, r) = Requested(q, r)
  /\ Registry!Request = Request /\ Registry!Outcomes = Outcomes
BY DEF Registry!Verdict, Verdict, Registry!Requested, Requested, Registry!Patched, Patched,
       Registry!OrElse, OrElse, Registry!Request, Request, Registry!Patch, Patch,
       Registry!Outcomes, Outcomes, Registry!Refusal, Refusal

\* The check refuses the call, or leaves it to the write to decide.
LEMMA CheckImplements ==
  ASSUME TypeOK, NEW c \in Clients, Check(c)
  PROVE  Registry!Refuse(c) \/ UNCHANGED Registry!vars
<1> USE DEF TypeOK, CallTypeOK, Goto
<1> DEFINE v == Verdict(call[c], store[call[c].dom])
<1>1. CallStepOf(c) /\ pc[c] = "check" /\ UNCHANGED <<store, call, answer>>
  BY DEF Check, CallStepOf
<1>2. state[c] = "called"
  BY <1>1 DEF state, CallState
<1>3. CASE v = "ok"
  <2>1. pc'[c] = "put"
    BY <1>3 DEF Check
  <2>2. CallState(c)' = CallState(c)
    BY <1>1, <2>1 DEF CallState
  <2> QED BY <1>1, <2>2, Stutter
<1>4. CASE v # "ok"
  <2>1. pc'[c] = "unlock" /\ result'[c] = v
    BY <1>4 DEF Check
  <2>2. CallState(c)' = v
    BY <2>1 DEF CallState
  <2>3. state' = [state EXCEPT ![c] = v]
    BY <1>1, <2>2, StateStep
  <2> QED BY <1>1, <1>2, <1>4, <2>3, SameRoutes DEF Registry!Refuse, state
<1> QED BY <1>3, <1>4

\* The committed write is where an accepted call takes effect.
LEMMA PutImplements ==
  ASSUME TypeOK, CallInv, LockInv, NEW c \in Clients, Put(c)
  PROVE  Registry!Accept(c) \/ Registry!Refuse(c)
<1> USE DEF TypeOK, CallTypeOK, Goto
<1> DEFINE q == call[c]
<1>1. CallStepOf(c) /\ pc[c] = "put" /\ UNCHANGED <<call, answer>>
  BY DEF Put, CallStepOf
<1>2. state[c] = "called"
  BY <1>1 DEF state, CallState
<1>3. Verdict(q, store[q.dom]) = "ok" /\ new[c] = Requested(q, store[q.dom])
  BY <1>1 DEF LockInv, Prepared
<1>4. CASE /\ store' = [store EXCEPT ![q.dom] = new[c]]
           /\ Goto(c, "snapshot") /\ UNCHANGED result
  <2>1. result[c] = "ok"
    BY <1>1 DEF CallInv, Working
  <2>2. CallState(c)' = "ok"
    BY <1>4, <2>1 DEF CallState
  <2>3. state' = [state EXCEPT ![c] = "ok"]
    BY <1>1, <2>2, StateStep
  <2> QED BY <1>1, <1>2, <1>3, <1>4, <2>3, SameRoutes DEF Registry!Accept, state
<1>5. CASE /\ result' = [result EXCEPT ![c] = "storeWriteFailed"]
           /\ Goto(c, "unlock") /\ UNCHANGED store
  <2>1. CallState(c)' = "storeWriteFailed"
    BY <1>5 DEF CallState
  <2>2. state' = [state EXCEPT ![c] = "storeWriteFailed"]
    BY <1>1, <2>1, StateStep
  <2> QED BY <1>1, <1>2, <1>3, <1>5, <2>2, SameRoutes DEF Registry!Refuse, state
<1> QED BY <1>4, <1>5 DEF Put

\* Publish answers 500 if it panics, and is otherwise invisible.
LEMMA SendImplements ==
  ASSUME TypeOK, CallInv, NEW c \in Clients, NEW s \in Streams, Send(c, s)
  PROVE  Registry!Answer(c) \/ UNCHANGED Registry!vars
<1>1. CallStepOf(c) /\ pc[c] = "send" /\ UNCHANGED store
  BY DEF Send, CallStepOf
<1>2. result[c] = "ok"
  BY <1>1 DEF CallInv, Working
<1>3. CASE s \in left
  BY <1>1, <1>2, <1>3, FinishAnswers DEF Send, Outcomes
<1>4. CASE s \notin left
  <2>1. pc'[c] \in {"list", "send"} /\ UNCHANGED <<result, call, answer>>
    BY <1>4 DEF Send, Goto, TypeOK, CallTypeOK
  <2>2. CallState(c)' = CallState(c)
    BY <1>1, <2>1 DEF CallState
  <2> QED BY <1>1, <2>1, <2>2, Stutter
<1> QED BY <1>3, <1>4

\* A step of a call is a step of the registry or none.
LEMMA CallImplements ==
  ASSUME TypeOK, CallInv, LockInv, NEW c \in Clients, Lock(c) \/ CallStepOf(c)
  PROVE  [Registry!Next]_(Registry!vars)
<1> USE DEF TypeOK, CallTypeOK, Goto
<1>1. CASE Lock(c)
  <2>1. CallState(c)' = CallState(c) /\ UNCHANGED <<store, call, answer>>
    BY <1>1 DEF Lock, CallState
  <2> QED BY <2>1, Stutter
<1>2. CASE Check(c)
  BY <1>2, CheckImplements DEF Registry!Next
<1>3. CASE Put(c)
  BY <1>3, PutImplements DEF Registry!Next
<1>4. ASSUME NEW s \in Streams, Send(c, s) PROVE [Registry!Next]_(Registry!vars)
  BY <1>4, SendImplements DEF Registry!Next
<1>5. CASE Snapshot(c) \/ List(c) \/ SetTable(c) \/ Prune(c) \/ LoadPublisher(c) \/ SetAdverts(c)
  <2>1. /\ pc[c] \in {"snapshot", "list", "table", "prune", "publisher", "adverts"}
        /\ pc'[c] \in {"send", "list", "table", "prune", "publisher", "adverts", "unlock"}
        /\ UNCHANGED <<store, call, answer, result>>
    <3>1. CASE Snapshot(c) BY <3>1 DEF Snapshot
    <3>2. CASE List(c) BY <3>2 DEF List
    <3>3. CASE SetTable(c) BY <3>3 DEF SetTable
    <3>4. CASE Prune(c) BY <3>4 DEF Prune
    <3>5. CASE LoadPublisher(c) BY <3>5 DEF LoadPublisher
    <3>6. CASE SetAdverts(c) BY <3>6 DEF SetAdverts
    <3> QED BY <1>5, <3>1, <3>2, <3>3, <3>4, <3>5, <3>6
  <2>2. CallState(c)' = CallState(c)
    BY <2>1 DEF CallState
  <2> QED BY <2>1, <2>2, Stutter
<1>6. CASE Unlock(c)
  <2>1. CallStepOf(c) /\ pc[c] = "unlock" /\ Finish(c, result[c]) /\ UNCHANGED store
    BY <1>6 DEF Unlock, CallStepOf
  <2>2. result[c] \in Outcomes
    BY <2>1 DEF CallInv
  <2>3. Registry!Answer(c)
    BY <2>1, <2>2, FinishAnswers
  <2> QED BY <2>3 DEF Registry!Next
<1> QED BY <1>1, <1>2, <1>3, <1>4, <1>5, <1>6 DEF CallStepOf

\* Every step of the daemon is a step of the registry or none.
LEMMA NextImplements ==
  ASSUME WellTyped, LockInv, [Next]_vars
  PROVE  [Registry!Next]_(Registry!vars)
<1> USE DEF WellTyped, TypeOK, CallTypeOK
<1>1. ASSUME NEW c \in Clients, NEW q \in Calls, Invoke(c, q) PROVE Registry!Invoke(c)
  <2>1. state[c] = "idle" /\ state' = [state EXCEPT ![c] = "called"]
    BY <1>1 DEF Invoke, Goto, state, CallState
  <2>2. call'[c] = q /\ q \in Request
    BY <1>1, RouteDaemonAssumption DEF Invoke
  <2> QED BY <1>1, <2>1, <2>2, SameRoutes DEF Invoke, Registry!Invoke, state
<1>2. ASSUME UNCHANGED <<store, mu, callVars>> PROVE UNCHANGED Registry!vars
  BY <1>2 DEF callVars, Registry!vars, CallState
<1>3. ASSUME Stop \/ Boot PROVE Registry!Stop
  BY <1>3 DEF Stop, Boot, Fresh, Registry!Stop, CallState
<1>4. CASE UNCHANGED vars
  BY <1>2, <1>4 DEF vars
<1> QED BY <1>1, <1>2, <1>3, <1>4, Apart, CallImplements DEF Next, Registry!Next

\* The API is a linearizable, durable map of routes.
THEOREM RegistryRefinement == Spec => RegistrySpec
<1>1. Init => Registry!Init
  BY DEF Init, Registry!Init, CallState, NoRoutes
<1>2. WellTyped /\ LockInv /\ [Next]_vars => [Registry!Next]_(Registry!vars)
  BY NextImplements
<1> QED BY <1>1, <1>2, LockAlways, PTL DEF Spec, RegistrySpec, Registry!Spec
=============================================================================
