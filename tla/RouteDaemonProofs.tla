-------------------------- MODULE RouteDaemonProofs --------------------------
(***************************************************************************)
(* What holds of RouteDaemon for every set of clients, streams, domains    *)
(* and requests: type correctness, the exclusion that d.mu provides, the   *)
(* linearizability of the API, and the causes of a table, an advertisement *)
(* or a leaf that differs from the stored routes.                          *)
(***************************************************************************)
EXTENDS RouteDaemon, TLAPS

-----------------------------------------------------------------------------
(* The operators on routes.                                                *)

\* The route an accepted request asks for is a route, or none for a removal.
LEMMA RequestedType ==
  ASSUME NEW q \in Request, NEW r \in Route \cup {None}, Verdict(q, r) = "ok"
  PROVE  Requested(q, r) \in Route \cup {None}
<1>1. CASE q \in [op : {"add"}, dom : Domains, target : Targets, shared : BOOLEAN]
  BY <1>1 DEF Requested, Route
<1>2. CASE q \in [op : {"remove"}, dom : Domains]
  BY <1>2 DEF Requested
<1>3. CASE q \in [op : {"edit"}, dom : Domains, patch : Patch]
  <2>1. r \in Route
    BY <1>3 DEF Verdict
  <2>2. Patched(r, q.patch) \in Route
    BY <1>3, <2>1 DEF Patched, OrElse, Patch, Route
  <2> QED BY <1>3, <2>2 DEF Requested
<1> QED BY <1>1, <1>2, <1>3 DEF Request

\* A verdict is an outcome, and never the failed write.
LEMMA VerdictType ==
  ASSUME NEW q, NEW r
  PROVE  Verdict(q, r) \in Outcomes \ {"storeWriteFailed"}
BY DEF Verdict, Outcomes, Refusal

\* The table built from a route map is a table.
LEMMA TableOfType ==
  ASSUME NEW rs \in RouteMap
  PROVE  TableOf(rs) \in [Domains -> Entry \cup {None}]
BY DEF TableOf, RouteMap, Route, Entry

-----------------------------------------------------------------------------
(* Type correctness.  CallInv ties a handler's locals to its step, HostInv  *)
(* says that a handshake under way is for a domain.                        *)

Working == {"put", "snapshot", "send", "list", "table", "prune", "publisher", "adverts"}

CallInv ==
  \A c \in Clients :
    /\ pc[c] = "idle" => call[c] = None
    /\ pc[c] # "idle" => call[c] \in Request
    /\ pc[c] \in Working => result[c] = "ok"
    /\ pc[c] = "unlock" => result[c] \in Outcomes
    /\ ~up => pc[c] = "idle"

HostInv == \A h \in Handshakes : hs[h].at # "idle" => hs[h].host \in Domains

WellTyped == TypeOK /\ CallInv /\ HostInv

\* A request names a domain.
LEMMA RequestDom == \A q \in Request : q.dom \in Domains
BY DEF Request

\* The types hold at the start.
LEMMA InitType == Init => WellTyped
<1> SUFFICES ASSUME Init PROVE WellTyped
  OBVIOUS
<1>1. NoRoutes \in RouteMap /\ NoRoutes \in [Domains -> Entry \cup {None}]
  BY DEF NoRoutes, RouteMap
<1>2. CallTypeOK /\ HubTypeOK /\ EngineTypeOK /\ HandshakeTypeOK /\ CauseTypeOK
  BY <1>1 DEF Init, CallTypeOK, HubTypeOK, EngineTypeOK, HandshakeTypeOK, CauseTypeOK,
              CallStep, EngineStage, Idle
<1>3. CallInv /\ HostInv
  BY DEF Init, CallInv, Working, HostInv, Idle
<1> QED BY <1>1, <1>2, <1>3 DEF WellTyped, TypeOK, Init

\* What Stop and Boot leave behind is well-typed.
LEMMA FreshType ==
  ASSUME NEW stage \in {"nil", "created"}, Fresh(stage), TypeOK,
         up' \in BOOLEAN, UNCHANGED <<store, answer>>
  PROVE  TypeOK' /\ CallInv'
<1>1. NoRoutes \in RouteMap /\ NoRoutes \in [Domains -> Entry \cup {None}]
  BY DEF NoRoutes, RouteMap
<1>2. CallTypeOK'
  BY <1>1 DEF Fresh, TypeOK, CallTypeOK, CallStep
<1>3. HubTypeOK' /\ EngineTypeOK' /\ HandshakeTypeOK' /\ CauseTypeOK'
  BY <1>1 DEF Fresh, HubTypeOK, EngineTypeOK, HandshakeTypeOK, CauseTypeOK,
              EngineStage, Idle
<1>4. CallInv'
  BY DEF Fresh, CallInv, Working
<1> QED BY <1>2, <1>3, <1>4 DEF TypeOK

\* The groups of variables a step leaves alone keep their types.
LEMMA UnchangedTypes ==
  ASSUME TypeOK
  PROVE  /\ UNCHANGED <<mu, callVars>> => CallTypeOK'
         /\ UNCHANGED hubVars => HubTypeOK'
         /\ UNCHANGED <<engineVars, servedVars>> => EngineTypeOK'
         /\ UNCHANGED hs => HandshakeTypeOK'
         /\ UNCHANGED causeVars => CauseTypeOK'
BY DEF TypeOK, CallTypeOK, HubTypeOK, EngineTypeOK, HandshakeTypeOK, CauseTypeOK,
       callVars, hubVars, engineVars, servedVars, causeVars

\* The handler's last step gives d.mu back and clears its locals.
LEMMA FinishType ==
  ASSUME TypeOK, CallInv, UNCHANGED up, NEW c \in Clients,
         NEW a \in Outcomes \cup {"internal"}, Finish(c, a)
  PROVE  CallTypeOK' /\ CallInv'
<1> USE DEF Goto
<1>1. NoRoutes \in RouteMap
  BY DEF NoRoutes, RouteMap
<1>2. CallTypeOK'
  BY <1>1 DEF Finish, TypeOK, CallTypeOK, CallStep
<1>3. CallInv'
  BY DEF Finish, TypeOK, CallTypeOK, CallInv, Working
<1> QED BY <1>2, <1>3

\* Every step of a call preserves the types and the locals of all handlers.
LEMMA CallType ==
  ASSUME TypeOK, CallInv, NEW c \in Clients, Lock(c) \/ CallStepOf(c)
  PROVE  TypeOK' /\ CallInv'
<1> USE UnchangedTypes DEF Goto
<1>1. CASE Lock(c)
  <2>1. CallTypeOK' /\ CallInv'
    BY <1>1 DEF Lock, TypeOK, CallTypeOK, CallStep, CallInv, Working
  <2> QED BY <1>1, <2>1 DEF Lock, TypeOK
<1>2. CASE Check(c)
  <2> DEFINE q == call[c]
             v == Verdict(q, store[q.dom])
             r == Requested(q, store[q.dom])
  <2>1. q \in Request /\ store[q.dom] \in Route \cup {None}
    BY <1>2, RequestDom DEF Check, TypeOK, CallTypeOK, RouteMap, CallInv
  <2>2. v \in Outcomes
    BY VerdictType
  <2>3. v = "ok" => r \in Route \cup {None}
    BY <2>1, RequestedType
  <2>4. /\ pc[c] = "check"
        /\ result' = [result EXCEPT ![c] = v]
        /\ \/ v = "ok" /\ new' = [new EXCEPT ![c] = r] /\ pc' = [pc EXCEPT ![c] = "put"]
           \/ v # "ok" /\ new' = new /\ pc' = [pc EXCEPT ![c] = "unlock"]
        /\ UNCHANGED <<up, store, mu, call, answer, todo, routes>>
    BY <1>2 DEF Check
  <2> HIDE DEF v, r
  <2>5. CallTypeOK'
    BY <2>2, <2>3, <2>4 DEF TypeOK, CallTypeOK, CallStep
  <2>6. CallInv'
    BY <2>2, <2>4 DEF TypeOK, CallTypeOK, CallInv, Working
  <2> QED BY <1>2, <2>5, <2>6 DEF Check, TypeOK
<1>3. CASE Put(c)
  <2>1. call[c].dom \in Domains
    BY <1>3, RequestDom DEF Put, CallInv
  <2>2. store' \in RouteMap
    BY <1>3, <2>1 DEF Put, TypeOK, CallTypeOK, RouteMap
  <2>3. CallTypeOK'
    BY <1>3 DEF Put, TypeOK, CallTypeOK, CallStep, Outcomes, Refusal
  <2>4. CallInv'
    BY <1>3 DEF Put, TypeOK, CallTypeOK, Outcomes, Refusal, CallInv, Working
  <2> QED BY <1>3, <2>2, <2>3, <2>4 DEF Put, TypeOK
<1>4. CASE Snapshot(c)
  <2> DEFINE next == IF open = {} THEN "list" ELSE "send"
  <2>1. /\ pc[c] = "snapshot" /\ todo' = [todo EXCEPT ![c] = open]
        /\ pc' = [pc EXCEPT ![c] = next]
        /\ UNCHANGED <<up, mu, call, result, answer, new, routes>>
    BY <1>4 DEF Snapshot
  <2>2. next \in {"list", "send"}
    OBVIOUS
  <2> HIDE DEF next
  <2>3. CallTypeOK' /\ CallInv'
    BY <2>1, <2>2 DEF TypeOK, CallTypeOK, HubTypeOK, CallStep, CallInv, Working
  <2> QED BY <1>4, <2>3 DEF Snapshot, TypeOK
<1>5. ASSUME NEW s \in Streams, Send(c, s)
      PROVE  TypeOK' /\ CallInv'
  <2>1. CallTypeOK' /\ CallInv'
    <3>1. CASE s \in left
      BY <1>5, <3>1, FinishType DEF Send
    <3>2. CASE s \notin left
      <4> DEFINE next == IF todo[c] = {s} THEN "list" ELSE "send"
      <4>1. /\ pc[c] = "send" /\ todo' = [todo EXCEPT ![c] = @ \ {s}]
            /\ pc' = [pc EXCEPT ![c] = next]
            /\ UNCHANGED <<up, mu, call, result, answer, new, routes>>
        BY <1>5, <3>2 DEF Send
      <4>2. next \in {"list", "send"}
        OBVIOUS
      <4> HIDE DEF next
      <4>3. todo' \in [Clients -> SUBSET Streams]
        BY <4>1 DEF TypeOK, CallTypeOK
      <4> QED BY <4>1, <4>2, <4>3 DEF TypeOK, CallTypeOK, CallStep, CallInv, Working
    <3> QED BY <3>1, <3>2
  <2>2. CauseTypeOK'
    BY <1>5 DEF Send, TypeOK, CauseTypeOK
  <2> QED BY <1>5, <2>1, <2>2 DEF Send, TypeOK
<1>6. CASE List(c)
  <2>1. CallTypeOK' /\ CallInv'
    BY <1>6 DEF List, TypeOK, CallTypeOK, CallStep, CallInv, Working, Outcomes
  <2> QED BY <1>6, <2>1 DEF List, TypeOK
<1>7. CASE SetTable(c)
  <2>1. TableOf(routes[c]) \in [Domains -> Entry \cup {None}]
    BY TableOfType DEF TypeOK, CallTypeOK
  <2>2. CallTypeOK' /\ CallInv'
    BY <1>7 DEF SetTable, TypeOK, CallTypeOK, CallStep, CallInv, Working
  <2>3. EngineTypeOK'
    BY <1>7, <2>1 DEF SetTable, TypeOK, EngineTypeOK, engineVars
  <2>4. CauseTypeOK'
    BY <1>7 DEF SetTable, TypeOK, CauseTypeOK
  <2> QED BY <1>7, <2>2, <2>3, <2>4 DEF SetTable, TypeOK
<1>8. CASE Prune(c)
  <2>1. CallTypeOK' /\ CallInv'
    BY <1>8 DEF Prune, TypeOK, CallTypeOK, CallStep, CallInv, Working
  <2>2. EngineTypeOK' /\ CauseTypeOK'
    BY <1>8 DEF Prune, TypeOK, EngineTypeOK, CauseTypeOK, engineVars
  <2> QED BY <1>8, <2>1, <2>2 DEF Prune, TypeOK
<1>9. CASE LoadPublisher(c)
  <2>1. CallTypeOK' /\ CallInv'
    BY <1>9 DEF LoadPublisher, TypeOK, CallTypeOK, CallStep, CallInv, Working, Outcomes
  <2>2. CauseTypeOK'
    BY <1>9 DEF LoadPublisher, TypeOK, CauseTypeOK
  <2> QED BY <1>9, <2>1, <2>2 DEF LoadPublisher, TypeOK
<1>10. CASE SetAdverts(c)
  <2>1. CallTypeOK' /\ CallInv'
    BY <1>10 DEF SetAdverts, TypeOK, CallTypeOK, CallStep, CallInv, Working, Outcomes
  <2>2. EngineTypeOK'
    BY <1>10, RouteDaemonAssumption
       DEF SetAdverts, PublisherSet, Advertisable, TypeOK, EngineTypeOK, engineVars
  <2>3. CauseTypeOK'
    BY <1>10 DEF SetAdverts, PublisherSet, TypeOK, CauseTypeOK
  <2> QED BY <1>10, <2>1, <2>2, <2>3 DEF SetAdverts, TypeOK
<1>11. CASE Unlock(c)
  <2>1. result[c] \in Outcomes
    BY <1>11 DEF Unlock, CallInv
  <2>2. CallTypeOK' /\ CallInv'
    BY <1>11, <2>1, FinishType DEF Unlock
  <2> QED BY <1>11, <2>2 DEF Unlock, TypeOK
<1> QED BY <1>1, <1>2, <1>3, <1>4, <1>5, <1>6, <1>7, <1>8, <1>9, <1>10, <1>11
        DEF CallStepOf

\* So does every step of the connections, the engine and the handshakes.
LEMMA OtherType ==
  ASSUME TypeOK, CallInv, HostInv
  PROVE  /\ \A s \in Streams : Subscribe(s) \/ Unsubscribe(s) => TypeOK' /\ CallInv'
         /\ EngineStep => TypeOK' /\ CallInv'
         /\ \A h \in Handshakes :
              ReadCache(h) \/ FillCache(h) \/ (\E d \in Domains : Hello(h, d)) => TypeOK' /\ CallInv'
<1> USE UnchangedTypes
<1>1. UNCHANGED <<up, callVars>> => CallInv'
  BY DEF CallInv, callVars
<1>2. ASSUME NEW s \in Streams, Subscribe(s) \/ Unsubscribe(s) PROVE TypeOK' /\ CallInv'
  <2>1. HubTypeOK'
    BY <1>2 DEF Subscribe, Unsubscribe, TypeOK, HubTypeOK
  <2> QED BY <1>1, <1>2, <2>1 DEF Subscribe, Unsubscribe, TypeOK
<1>3. CASE ListInitial
  <2>1. EngineTypeOK' /\ CauseTypeOK'
    BY <1>3 DEF ListInitial, TypeOK, EngineTypeOK, CauseTypeOK, EngineStage, servedVars
  <2> QED BY <1>1, <1>3, <2>1 DEF ListInitial, TypeOK
<1>4. CASE SetInitial
  <2>1. TableOf(initial) \in [Domains -> Entry \cup {None}]
    BY TableOfType DEF TypeOK, EngineTypeOK
  <2>2. EngineTypeOK'
    BY <1>4, <2>1 DEF SetInitial, TypeOK, EngineTypeOK, EngineStage
  <2> QED BY <1>1, <1>4, <2>2 DEF SetInitial, TypeOK
<1>5. CASE Announce
  <2>1. EngineTypeOK'
    BY <1>5, RouteDaemonAssumption
       DEF Announce, PublisherSet, Advertisable, TypeOK, EngineTypeOK, EngineStage
  <2>2. CauseTypeOK'
    BY <1>5 DEF Announce, PublisherSet, TypeOK, CauseTypeOK
  <2> QED BY <1>1, <1>5, <2>1, <2>2 DEF Announce, TypeOK
<1>6. CASE StorePublisher
  <2>1. EngineTypeOK'
    BY <1>6 DEF StorePublisher, TypeOK, EngineTypeOK, EngineStage, servedVars
  <2> QED BY <1>1, <1>6, <2>1 DEF StorePublisher, TypeOK
<1>7. ASSUME NEW h \in Handshakes, ReadCache(h) PROVE TypeOK' /\ CallInv'
  <2>1. HandshakeTypeOK'
    BY <1>7 DEF ReadCache, TypeOK, HandshakeTypeOK, Idle
  <2> QED BY <1>1, <1>7, <2>1 DEF ReadCache, TypeOK
<1>8. ASSUME NEW h \in Handshakes, NEW d \in Domains, Hello(h, d) PROVE TypeOK' /\ CallInv'
  <2>1. HandshakeTypeOK'
    BY <1>8 DEF Hello, TypeOK, HandshakeTypeOK
  <2> QED BY <1>1, <1>8, <2>1 DEF Hello, TypeOK
<1>9. ASSUME NEW h \in Handshakes, FillCache(h) PROVE TypeOK' /\ CallInv'
  <2>1. HandshakeTypeOK'
    BY <1>9 DEF FillCache, TypeOK, HandshakeTypeOK, Idle
  <2>2. EngineTypeOK' /\ CauseTypeOK'
    BY <1>9 DEF FillCache, TypeOK, HandshakeTypeOK, HostInv, EngineTypeOK, CauseTypeOK, engineVars
  <2> QED BY <1>1, <1>9, <2>1, <2>2 DEF FillCache, TypeOK
<1> QED BY <1>2, <1>3, <1>4, <1>5, <1>6, <1>7, <1>8, <1>9 DEF EngineStep

\* A handshake starts with a domain and keeps it.
LEMMA HostKept ==
  ASSUME TypeOK, HostInv, [Next]_vars
  PROVE  HostInv'
<1>1. ASSUME UNCHANGED hs PROVE HostInv'
  BY <1>1 DEF HostInv
<1>2. ASSUME NEW c \in Clients, Lock(c) \/ CallStepOf(c) \/ \E q \in Calls : Invoke(c, q)
      PROVE  UNCHANGED hs
  BY <1>2 DEF CallStepOf, Lock, Check, Put, Snapshot, Send, List, SetTable, Prune,
              LoadPublisher, SetAdverts, Unlock, Invoke
<1>3. ASSUME (\E s \in Streams : Subscribe(s) \/ Unsubscribe(s)) \/ EngineStep
      PROVE  UNCHANGED hs
  BY <1>3 DEF Subscribe, Unsubscribe, EngineStep, ListInitial, SetInitial, Announce,
              StorePublisher
<1>4. ASSUME NEW h \in Handshakes,
             ReadCache(h) \/ FillCache(h) \/ \E d \in Domains : Hello(h, d)
      PROVE  HostInv'
  <2>1. CASE ReadCache(h)
    BY <2>1 DEF ReadCache, HostInv, TypeOK, HandshakeTypeOK, Idle
  <2>2. CASE FillCache(h)
    BY <2>2 DEF FillCache, HostInv, TypeOK, HandshakeTypeOK, Idle
  <2>3. ASSUME NEW d \in Domains, Hello(h, d) PROVE HostInv'
    BY <2>3 DEF Hello, HostInv, TypeOK, HandshakeTypeOK
  <2> QED BY <1>4, <2>1, <2>2, <2>3
<1>5. ASSUME Stop \/ Boot PROVE HostInv'
  BY <1>5 DEF Stop, Boot, Fresh, HostInv, Idle
<1>6. CASE UNCHANGED vars
  BY <1>6, <1>1 DEF vars
<1> QED BY <1>1, <1>2, <1>3, <1>4, <1>5, <1>6 DEF Next

\* Every step keeps the types.
LEMMA NextType ==
  ASSUME WellTyped, [Next]_vars
  PROVE  WellTyped'
<1> USE DEF WellTyped
<1> SUFFICES TypeOK' /\ CallInv'
  BY HostKept
<1>1. ASSUME NEW c \in Clients, NEW q \in Calls, Invoke(c, q) PROVE TypeOK' /\ CallInv'
  <2>1. q \in Request
    BY RouteDaemonAssumption
  <2>2. CallTypeOK' /\ CallInv'
    BY <1>1, <2>1 DEF Invoke, Goto, TypeOK, CallTypeOK, CallStep, CallInv, Working
  <2> QED BY <1>1, <2>2, UnchangedTypes DEF Invoke, TypeOK
<1>2. CASE Stop
  BY <1>2, FreshType DEF Stop
<1>3. CASE Boot
  BY <1>3, FreshType DEF Boot
<1>4. CASE UNCHANGED vars
  BY <1>4, UnchangedTypes DEF vars, callVars, TypeOK, CallInv
<1> QED BY <1>1, <1>2, <1>3, <1>4, CallType, OtherType DEF Next

\* The types hold in every reachable state.
LEMMA WellTypedAlways == Spec => []WellTyped
<1>1. Init => WellTyped
  BY InitType
<1>2. WellTyped /\ [Next]_vars => WellTyped'
  BY NextType
<1> QED BY <1>1, <1>2, PTL DEF Spec

\* Type correctness of the daemon's core.
THEOREM TypeCorrect == Spec => []TypeOK
<1>1. WellTyped => TypeOK
  BY DEF WellTyped
<1> QED BY <1>1, WellTypedAlways, PTL

-----------------------------------------------------------------------------
(* d.mu: a handler past its Lock is the only one, so the store does not     *)
(* change under it and what reloadEngine listed is still the store.         *)

Inside == CallStep \ {"idle", "lock"}
Reloading == {"table", "prune", "publisher", "adverts"}

Exclusion == \A c \in Clients : pc[c] \in Inside => mu = c
Prepared ==
  \A c \in Clients :
    /\ pc[c] = "put" => LET q == call[c] IN
                         /\ Verdict(q, store[q.dom]) = "ok"
                         /\ new[c] = Requested(q, store[q.dom])
    /\ pc[c] \in Reloading => routes[c] = store

LockInv == Exclusion /\ Prepared

\* A handler's step leaves the locals of the others alone.
LEMMA Frame ==
  ASSUME TypeOK, NEW c \in Clients, NEW b \in Clients, b # c, Lock(c) \/ CallStepOf(c)
  PROVE  pc'[b] = pc[b] /\ call'[b] = call[b] /\ result'[b] = result[b]
         /\ new'[b] = new[b] /\ routes'[b] = routes[b]
<1> USE DEF TypeOK, CallTypeOK, Goto
<1>1. CASE Lock(c) BY <1>1 DEF Lock
<1>2. CASE Check(c) BY <1>2 DEF Check
<1>3. CASE Put(c) BY <1>3 DEF Put
<1>4. CASE Snapshot(c) BY <1>4 DEF Snapshot
<1>5. ASSUME NEW s \in Streams, Send(c, s)
      PROVE  pc'[b] = pc[b] /\ call'[b] = call[b] /\ result'[b] = result[b]
             /\ new'[b] = new[b] /\ routes'[b] = routes[b]
  <2>1. CASE s \in left BY <1>5, <2>1 DEF Send, Finish
  <2>2. CASE s \notin left BY <1>5, <2>2 DEF Send
  <2> QED BY <2>1, <2>2
<1>6. CASE List(c) BY <1>6 DEF List
<1>7. CASE SetTable(c) BY <1>7 DEF SetTable
<1>8. CASE Prune(c) BY <1>8 DEF Prune
<1>9. CASE LoadPublisher(c) BY <1>9 DEF LoadPublisher
<1>10. CASE SetAdverts(c) BY <1>10 DEF SetAdverts
<1>11. CASE Unlock(c) BY <1>11 DEF Unlock, Finish
<1> QED BY <1>1, <1>2, <1>3, <1>4, <1>5, <1>6, <1>7, <1>8, <1>9, <1>10, <1>11
        DEF CallStepOf

\* Where a handler's step is taken, where it leads, and what else it changes.
LEMMA Progress ==
  ASSUME TypeOK, NEW c \in Clients
  PROVE  /\ Lock(c) => mu = None /\ pc'[c] = "check" /\ mu' = c
         /\ CallStepOf(c) => pc[c] \in Inside
                             /\ \/ mu' = mu /\ pc'[c] \in Inside
                                \/ pc'[c] = "idle"
         /\ (Lock(c) \/ CallStepOf(c)) /\ pc[c] # "put" => UNCHANGED store
<1> USE DEF TypeOK, CallTypeOK, Goto, Inside, CallStep
<1>1. Lock(c) => mu = None /\ pc'[c] = "check" /\ mu' = c /\ UNCHANGED store
  BY DEF Lock
<1>2. Check(c) => /\ pc[c] = "check" /\ mu' = mu /\ pc'[c] \in Inside /\ UNCHANGED store
  BY DEF Check
<1>3. Put(c) => pc[c] = "put" /\ mu' = mu /\ pc'[c] \in Inside
  BY DEF Put
<1>4. Snapshot(c) => pc[c] = "snapshot" /\ mu' = mu /\ pc'[c] \in Inside /\ UNCHANGED store
  BY DEF Snapshot
<1>5. ASSUME NEW s \in Streams, Send(c, s)
      PROVE  pc[c] = "send" /\ ((mu' = mu /\ pc'[c] \in Inside) \/ pc'[c] = "idle")
             /\ UNCHANGED store
  <2>1. CASE s \in left BY <1>5, <2>1 DEF Send, Finish
  <2>2. CASE s \notin left BY <1>5, <2>2 DEF Send
  <2> QED BY <2>1, <2>2
<1>6. List(c) => pc[c] = "list" /\ mu' = mu /\ pc'[c] \in Inside /\ UNCHANGED store
  BY DEF List
<1>7. SetTable(c) => pc[c] = "table" /\ mu' = mu /\ pc'[c] \in Inside /\ UNCHANGED store
  BY DEF SetTable
<1>8. Prune(c) => pc[c] = "prune" /\ mu' = mu /\ pc'[c] \in Inside /\ UNCHANGED store
  BY DEF Prune
<1>9. LoadPublisher(c) => pc[c] = "publisher" /\ mu' = mu /\ pc'[c] \in Inside /\ UNCHANGED store
  BY DEF LoadPublisher
<1>10. SetAdverts(c) => pc[c] = "adverts" /\ mu' = mu /\ pc'[c] \in Inside /\ UNCHANGED store
  BY DEF SetAdverts
<1>11. Unlock(c) => pc[c] = "unlock" /\ pc'[c] = "idle" /\ UNCHANGED store
  BY DEF Unlock, Finish
<1> QED BY <1>1, <1>2, <1>3, <1>4, <1>5, <1>6, <1>7, <1>8, <1>9, <1>10, <1>11
        DEF CallStepOf

\* Steps of the connections, the engine and the handshakes touch no handler.
LEMMA Apart ==
  ASSUME \/ \E s \in Streams : Subscribe(s) \/ Unsubscribe(s)
         \/ EngineStep
         \/ \E h \in Handshakes : ReadCache(h) \/ FillCache(h) \/ \E d \in Domains : Hello(h, d)
  PROVE  UNCHANGED <<up, store, mu, callVars>>
BY DEF Subscribe, Unsubscribe, EngineStep, ListInitial, SetInitial, Announce,
       StorePublisher, ReadCache, FillCache, Hello

\* What a handler's own step makes of its locals.
LEMMA PreparedStep ==
  ASSUME TypeOK, LockInv, NEW c \in Clients, Lock(c) \/ CallStepOf(c)
  PROVE  /\ pc'[c] = "put" => LET q == call'[c] IN
                              /\ Verdict(q, store'[q.dom]) = "ok"
                              /\ new'[c] = Requested(q, store'[q.dom])
         /\ pc'[c] \in Reloading => routes'[c] = store'
<1> DEFINE Goal == /\ pc'[c] = "put" => LET q == call'[c] IN
                                        /\ Verdict(q, store'[q.dom]) = "ok"
                                        /\ new'[c] = Requested(q, store'[q.dom])
                   /\ pc'[c] \in Reloading => routes'[c] = store'
<1> USE DEF TypeOK, CallTypeOK, Goto, Reloading, LockInv, Prepared
<1>1. CASE Check(c) BY <1>1 DEF Check
<1>2. CASE List(c) BY <1>2 DEF List
<1>3. CASE SetTable(c) BY <1>3 DEF SetTable
<1>4. CASE Prune(c) BY <1>4 DEF Prune
<1>5. CASE LoadPublisher(c) BY <1>5 DEF LoadPublisher
<1>6. CASE Lock(c) BY <1>6 DEF Lock
<1>7. CASE Put(c) BY <1>7 DEF Put
<1>8. CASE Snapshot(c) BY <1>8 DEF Snapshot
<1>9. ASSUME NEW s \in Streams, Send(c, s) PROVE Goal
  <2>1. CASE s \in left BY <1>9, <2>1 DEF Send, Finish
  <2>2. CASE s \notin left BY <1>9, <2>2 DEF Send
  <2> QED BY <2>1, <2>2
<1>10. CASE SetAdverts(c) BY <1>10 DEF SetAdverts
<1>11. CASE Unlock(c) BY <1>11 DEF Unlock, Finish
<1> QED BY <1>1, <1>2, <1>3, <1>4, <1>5, <1>6, <1>7, <1>8, <1>9, <1>10, <1>11
        DEF CallStepOf

\* Every step keeps the mutual exclusion and what was read under the lock.
LEMMA LockStep ==
  ASSUME TypeOK, LockInv, [Next]_vars
  PROVE  LockInv'
<1> USE DEF LockInv
<1>1. ASSUME NEW c \in Clients, Lock(c) \/ CallStepOf(c) PROVE LockInv'
  <2>1. \A b \in Clients \ {c} : pc'[b] = pc[b]
    BY <1>1, Frame
  <2>2. mu = None \/ mu = c
    BY <1>1, Progress DEF Exclusion
  <2>3. \A b \in Clients \ {c} : pc[b] \notin Inside
    BY <2>2, RouteDaemonAssumption DEF Exclusion
  <2>4. Exclusion'
    BY <1>1, <2>1, <2>3, Progress DEF Exclusion, Inside
  <2>5. Prepared'
    BY <1>1, <2>1, <2>3, PreparedStep DEF Prepared, Inside, Reloading, CallStep
  <2> QED BY <2>4, <2>5
<1>2. ASSUME NEW c \in Clients, NEW q \in Calls, Invoke(c, q) PROVE LockInv'
  BY <1>2 DEF Invoke, Goto, TypeOK, CallTypeOK, Exclusion, Prepared, Inside, Reloading
<1>3. ASSUME Stop \/ Boot PROVE LockInv'
  BY <1>3 DEF Stop, Boot, Fresh, Exclusion, Prepared, Inside, Reloading
<1>4. ASSUME UNCHANGED <<up, store, mu, callVars>> PROVE LockInv'
  BY <1>4 DEF callVars, Exclusion, Prepared
<1>5. CASE UNCHANGED vars
  BY <1>5, <1>4 DEF vars
<1> QED BY <1>1, <1>2, <1>3, <1>4, <1>5, Apart DEF Next

\* d.mu keeps the mutators apart, and what a call read under it, the verdict on
\* its request and the routes it reloads with, is still true until it unlocks.
THEOREM LockAlways == Spec => [](WellTyped /\ LockInv)
<1>1. Init => LockInv
  BY DEF Init, LockInv, Exclusion, Prepared, Inside, Reloading
<1>2. WellTyped /\ LockInv /\ [Next]_vars => LockInv'
  BY LockStep DEF WellTyped
<1> QED BY <1>1, <1>2, WellTypedAlways, PTL DEF Spec
=============================================================================
