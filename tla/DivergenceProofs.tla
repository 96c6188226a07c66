--------------------------- MODULE DivergenceProofs ---------------------------
(***************************************************************************)
(* The proxy's table, the mDNS names and the cached leaves differ from the *)
(* stored routes only for the causes that the model records, and a request *)
(* that no reload overtook is forwarded by one entry of that table.        *)
(***************************************************************************)
EXTENDS RouteDaemonProofs, ProxyPath

-----------------------------------------------------------------------------
(* The table.  While the list that RunEngine took is still to be applied,  *)
(* it is the store's unless a reload has been recorded as overtaken.       *)

TableInv ==
  TableSettled /\ tableCause = {} =>
    /\ engine = "listed" => initial = store
    /\ Routed => table = TableOf(store)

\* A handler that changes the store, or goes on from there, leaves the table
\* unsettled, with a cause, or rebuilt.
LEMMA TableCallStep ==
  ASSUME TypeOK, LockInv, TableInv, NEW c \in Clients, Lock(c) \/ CallStepOf(c)
  PROVE  TableInv'
<1> USE DEF TypeOK, CallTypeOK, Goto, Routed
<1> DEFINE Unsettled == {"snapshot", "send", "list", "table"}
<1>1. \A b \in Clients \ {c} : pc'[b] = pc[b]
  BY Frame
<1>2. ASSUME pc[c] \notin Unsettled, UNCHANGED <<store, table, engine, initial, tableCause>>
      PROVE  TableInv'
  BY <1>1, <1>2 DEF TableInv, TableSettled
<1>3. ASSUME pc'[c] \in Unsettled PROVE TableInv'
  BY <1>3 DEF TableInv, TableSettled
<1>4. CASE Lock(c)
  BY <1>2, <1>4 DEF Lock, engineVars, servedVars, causeVars
<1>5. CASE Check(c)
  BY <1>2, <1>5 DEF Check, engineVars, servedVars, causeVars
<1>6. CASE Put(c)
  BY <1>2, <1>3, <1>6 DEF Put, engineVars, servedVars, causeVars
<1>7. CASE Snapshot(c)
  BY <1>3, <1>7 DEF Snapshot
<1>8. ASSUME NEW s \in Streams, Send(c, s) PROVE TableInv'
  <2>1. CASE s \in left
    BY <1>8, <2>1 DEF Send, TableInv
  <2>2. CASE s \notin left
    BY <1>3, <1>8, <2>2 DEF Send
  <2> QED BY <2>1, <2>2
<1>9. CASE List(c)
  BY <1>3, <1>9 DEF List, engineVars, TableInv
<1>10. CASE SetTable(c)
  <2>1. routes[c] = store
    BY <1>10 DEF SetTable, LockInv, Prepared, Reloading
  <2> QED BY <1>10, <2>1 DEF SetTable, engineVars, TableInv
<1>11. CASE Prune(c)
  BY <1>2, <1>11 DEF Prune, engineVars
<1>12. CASE LoadPublisher(c)
  BY <1>2, <1>12 DEF LoadPublisher, engineVars, servedVars
<1>13. CASE SetAdverts(c)
  BY <1>2, <1>13 DEF SetAdverts, engineVars
<1>14. CASE Unlock(c)
  BY <1>2, <1>14 DEF Unlock, engineVars, servedVars, causeVars
<1> QED BY <1>4, <1>5, <1>6, <1>7, <1>8, <1>9, <1>10, <1>11, <1>12, <1>13, <1>14
        DEF CallStepOf

\* Every step keeps the table's invariant.
LEMMA TableStep ==
  ASSUME TypeOK, LockInv, TableInv, [Next]_vars
  PROVE  TableInv'
<1> USE DEF Routed
<1>1. ASSUME UNCHANGED <<pc, store, table, engine, initial, tableCause>> PROVE TableInv'
  BY <1>1 DEF TableInv, TableSettled, TableOf
<1>2. ASSUME NEW c \in Clients, NEW q \in Calls, Invoke(c, q) PROVE TableInv'
  BY <1>2 DEF Invoke, Goto, TypeOK, CallTypeOK, TableInv, TableSettled, TableOf,
              engineVars, servedVars, causeVars
<1>3. ASSUME NEW s \in Streams, Subscribe(s) \/ Unsubscribe(s) PROVE TableInv'
  BY <1>1, <1>3 DEF Subscribe, Unsubscribe, callVars, engineVars, servedVars, causeVars
<1>4. CASE ListInitial
  BY <1>4 DEF ListInitial, TableInv
<1>5. CASE SetInitial
  BY <1>5 DEF SetInitial, callVars, causeVars, TableInv, TableSettled, TableOf
<1>6. CASE Announce
  BY <1>6 DEF Announce, callVars, TableInv, TableSettled, TableOf
<1>7. CASE StorePublisher
  BY <1>7 DEF StorePublisher, callVars, servedVars, causeVars, TableInv, TableSettled, TableOf
<1>8. ASSUME NEW h \in Handshakes,
             ReadCache(h) \/ FillCache(h) \/ \E d \in Domains : Hello(h, d)
      PROVE  TableInv'
  BY <1>1, <1>8 DEF ReadCache, FillCache, Hello, callVars, engineVars, servedVars, causeVars
<1>9. ASSUME Stop \/ Boot PROVE TableInv'
  BY <1>9 DEF Stop, Boot, Fresh, TableInv
<1>10. CASE UNCHANGED vars
  BY <1>1, <1>10 DEF vars, callVars, engineVars, servedVars, causeVars
<1> QED BY <1>2, <1>3, <1>4, <1>5, <1>6, <1>7, <1>8, <1>9, <1>10, TableCallStep
        DEF Next, EngineStep

\* The proxy serves the stored routes unless a panic skipped a reload or
\* engine.Start overtook one.
THEOREM TableDivergence == Spec => []TableDivergenceHasACause
<1>1. Init => TableInv
  BY DEF Init, TableInv, Routed
<1>2. WellTyped /\ LockInv /\ TableInv /\ [Next]_vars => TableInv'
  BY TableStep DEF WellTyped
<1>3. TableInv => TableDivergenceHasACause
  BY DEF TableInv, TableDivergenceHasACause
<1> QED BY <1>1, <1>2, <1>3, LockAlways, PTL DEF Spec

-----------------------------------------------------------------------------
(* The advertisements.  e.pub is set once, after the publisher was filled   *)
(* from the list of RunEngine; a reload that finds it unset records that.   *)

AdvertInv ==
  /\ pub => engine = "serving"
  /\ \A c \in Clients : pc[c] = "adverts" => pub
  /\ AdvertsSettled /\ advertCause = {} =>
       /\ engine \in {"listed", "routed"} => initial = store
       /\ engine = "announced" \/ pub => adverts = Advertisable(store)

\* A step of a call keeps the advertised names' invariant.
LEMMA AdvertCallStep ==
  ASSUME TypeOK, LockInv, AdvertInv, NEW c \in Clients, Lock(c) \/ CallStepOf(c)
  PROVE  AdvertInv'
<1> USE DEF TypeOK, CallTypeOK, Goto, AdvertInv
<1> DEFINE Unsettled == {"snapshot", "send", "list", "table", "prune", "publisher", "adverts"}
<1>1. \A b \in Clients \ {c} : pc'[b] = pc[b]
  BY Frame
<1>2. ASSUME pc[c] \notin Unsettled, pc'[c] # "adverts",
             UNCHANGED <<store, adverts, engine, initial, pub, advertCause>>
      PROVE  AdvertInv'
  BY <1>1, <1>2 DEF AdvertsSettled, TableSettled, Advertisable
<1>3. ASSUME pc'[c] \in Unsettled, pc'[c] = "adverts" => pub, UNCHANGED <<engine, pub>>
      PROVE  AdvertInv'
  BY <1>1, <1>3 DEF AdvertsSettled, TableSettled
<1>4. CASE Lock(c)
  BY <1>2, <1>4 DEF Lock, engineVars, servedVars, causeVars
<1>5. CASE Check(c)
  BY <1>2, <1>5 DEF Check, engineVars, servedVars, causeVars
<1>6. CASE Put(c)
  BY <1>2, <1>3, <1>6 DEF Put, engineVars, servedVars, causeVars
<1>7. CASE Snapshot(c)
  BY <1>3, <1>7 DEF Snapshot, engineVars
<1>8. ASSUME NEW s \in Streams, Send(c, s) PROVE AdvertInv'
  <2>1. CASE s \in left
    BY <1>1, <1>8, <2>1 DEF Send, Finish, engineVars
  <2>2. CASE s \notin left
    BY <1>3, <1>8, <2>2 DEF Send, engineVars
  <2> QED BY <2>1, <2>2
<1>9. CASE List(c)
  BY <1>1, <1>3, <1>9 DEF List, engineVars
<1>10. CASE SetTable(c)
  BY <1>3, <1>10 DEF SetTable, engineVars
<1>11. CASE Prune(c)
  BY <1>3, <1>11 DEF Prune, engineVars
<1>12. CASE LoadPublisher(c)
  <2>1. CASE pub
    BY <1>3, <1>12, <2>1 DEF LoadPublisher, engineVars
  <2>2. CASE ~pub
    BY <1>1, <1>12, <2>2 DEF LoadPublisher, engineVars, servedVars, EngineTypeOK
  <2> QED BY <2>1, <2>2
<1>13. CASE SetAdverts(c)
  <2>1. routes[c] = store
    BY <1>13 DEF SetAdverts, LockInv, Prepared, Reloading
  <2>2. pub /\ engine = "serving"
    BY <1>13 DEF SetAdverts
  <2>3. \/ adverts' = Advertisable(store)
        \/ advertCause' # {}
    BY <1>13, <2>1 DEF SetAdverts, PublisherSet
  <2> QED BY <1>1, <1>13, <2>2, <2>3 DEF SetAdverts, engineVars, Advertisable
<1>14. CASE Unlock(c)
  BY <1>2, <1>14 DEF Unlock, Finish, engineVars, servedVars, causeVars
<1> QED BY <1>4, <1>5, <1>6, <1>7, <1>8, <1>9, <1>10, <1>11, <1>12, <1>13, <1>14
        DEF CallStepOf

\* Every step keeps the advertised names' invariant.
LEMMA AdvertStep ==
  ASSUME TypeOK, LockInv, AdvertInv, [Next]_vars
  PROVE  AdvertInv'
<1> USE DEF AdvertInv, AdvertsSettled, TableSettled, Advertisable
<1>1. ASSUME UNCHANGED <<pc, store, adverts, engine, initial, pub, advertCause>>
      PROVE  AdvertInv'
  BY <1>1
<1>2. ASSUME NEW c \in Clients, NEW q \in Calls, Invoke(c, q) PROVE AdvertInv'
  BY <1>2 DEF Invoke, Goto, TypeOK, CallTypeOK, engineVars, servedVars, causeVars
<1>3. ASSUME NEW s \in Streams, Subscribe(s) \/ Unsubscribe(s) PROVE AdvertInv'
  BY <1>1, <1>3 DEF Subscribe, Unsubscribe, callVars, engineVars, servedVars, causeVars
<1>4. CASE ListInitial
  BY <1>4 DEF ListInitial, callVars, servedVars
<1>5. CASE SetInitial
  BY <1>5 DEF SetInitial, callVars, causeVars
<1>6. CASE Announce
  <2>1. CASE PublisherSet(initial, advertCause) /\ engine' = "announced"
    BY <1>6, <2>1 DEF Announce, PublisherSet, callVars
  <2>2. CASE engine' = "serving" /\ UNCHANGED <<adverts, advertCause>>
    BY <1>6, <2>2 DEF Announce, callVars
  <2> QED BY <1>6, <2>1, <2>2 DEF Announce
<1>7. CASE StorePublisher
  BY <1>7 DEF StorePublisher, callVars, servedVars, causeVars
<1>8. ASSUME NEW h \in Handshakes,
             ReadCache(h) \/ FillCache(h) \/ \E d \in Domains : Hello(h, d)
      PROVE  AdvertInv'
  BY <1>1, <1>8 DEF ReadCache, FillCache, Hello, callVars, engineVars, servedVars, causeVars
<1>9. ASSUME Stop \/ Boot PROVE AdvertInv'
  BY <1>9 DEF Stop, Boot, Fresh
<1>10. CASE UNCHANGED vars
  BY <1>1, <1>10 DEF vars, callVars, engineVars, servedVars, causeVars
<1> QED BY <1>2, <1>3, <1>4, <1>5, <1>6, <1>7, <1>8, <1>9, <1>10, AdvertCallStep
        DEF Next, EngineStep

\* The mDNS names are those of the stored routes unless a registration failed
\* or a reload did not reach the publisher.
THEOREM AdvertDivergence == Spec => []AdvertDivergenceHasACause
<1>1. Init => AdvertInv
  BY DEF Init, AdvertInv
<1>2. WellTyped /\ LockInv /\ AdvertInv /\ [Next]_vars => AdvertInv'
  BY AdvertStep DEF WellTyped
<1>3. AdvertInv => AdvertDivergenceHasACause
  BY DEF AdvertInv, AdvertDivergenceHasACause
<1> QED BY <1>1, <1>2, <1>3, LockAlways, PTL DEF Spec

-----------------------------------------------------------------------------
(* The cached leaves.  Nothing is cached before the TLS server runs, and    *)
(* afterwards only a reload takes a host out of the table.                  *)

LeafInv ==
  /\ StaleLeafWasLate
  /\ engine # "serving" => cache = {} /\ \A h \in Handshakes : hs[h].at = "idle"

\* Every step keeps the leaf cache's invariant.
LEMMA LeafStep ==
  ASSUME TypeOK, LeafInv, [Next]_vars
  PROVE  LeafInv'
<1> USE DEF TypeOK, CallTypeOK, HandshakeTypeOK, LeafInv, StaleLeafWasLate, Has
<1>1. ASSUME UNCHANGED <<table, cache, engine, hs, late>>,
             \A c \in Clients : pc[c] = "prune" => pc'[c] = "prune"
      PROVE  LeafInv'
  BY <1>1
<1>2. ASSUME NEW c \in Clients,
             Lock(c) \/ (CallStepOf(c) /\ ~SetTable(c) /\ ~Prune(c))
      PROVE  LeafInv'
  <2>1. \A b \in Clients \ {c} : pc'[b] = pc[b]
    BY <1>2, Frame
  <2>2. pc[c] # "prune" /\ UNCHANGED <<table, cache, engine, hs, late>>
    BY <1>2 DEF CallStepOf, Lock, Check, Put, Snapshot, Send, List, LoadPublisher,
                SetAdverts, Unlock, engineVars, servedVars, causeVars
  <2> QED BY <1>1, <2>1, <2>2
<1>3. ASSUME NEW c \in Clients, SetTable(c) PROVE LeafInv'
  BY <1>3 DEF SetTable, Goto, engineVars
<1>4. ASSUME NEW c \in Clients, Prune(c) PROVE LeafInv'
  BY <1>4 DEF Prune, engineVars
<1>5. ASSUME NEW c \in Clients, NEW q \in Calls, Invoke(c, q) PROVE LeafInv'
  BY <1>1, <1>5 DEF Invoke, Goto, engineVars, servedVars, causeVars
<1>6. ASSUME NEW s \in Streams, Subscribe(s) \/ Unsubscribe(s) PROVE LeafInv'
  BY <1>1, <1>6 DEF Subscribe, Unsubscribe, callVars, engineVars, servedVars, causeVars
<1>7. CASE ListInitial
  BY <1>7 DEF ListInitial, callVars, servedVars
<1>8. CASE SetInitial
  BY <1>8 DEF SetInitial, callVars, causeVars
<1>9. CASE Announce
  BY <1>9 DEF Announce, callVars
<1>10. CASE StorePublisher
  BY <1>10 DEF StorePublisher, callVars, servedVars, causeVars
<1>11. ASSUME NEW h \in Handshakes, NEW d \in Domains, Hello(h, d) PROVE LeafInv'
  BY <1>11 DEF Hello, callVars, engineVars, servedVars, causeVars
<1>12. ASSUME NEW h \in Handshakes, ReadCache(h) PROVE LeafInv'
  BY <1>12 DEF ReadCache, callVars, engineVars, servedVars, causeVars
<1>13. ASSUME NEW h \in Handshakes, FillCache(h) PROVE LeafInv'
  BY <1>13 DEF FillCache, callVars, engineVars
<1>14. ASSUME Stop \/ Boot PROVE LeafInv'
  BY <1>14 DEF Stop, Boot, Fresh, Idle
<1>15. CASE UNCHANGED vars
  BY <1>1, <1>15 DEF vars, callVars, engineVars, servedVars, causeVars
<1> QED BY <1>2, <1>3, <1>4, <1>5, <1>6, <1>7, <1>8, <1>9, <1>10, <1>11, <1>12, <1>13,
           <1>14, <1>15 DEF Next, EngineStep, CallStepOf

\* A cached leaf for a host without a route was minted by a handshake that the
\* reload overtook.
THEOREM StaleLeaves == Spec => []StaleLeafWasLate
<1>1. Init => LeafInv
  BY DEF Init, LeafInv, StaleLeafWasLate, Idle
<1>2. TypeOK /\ LeafInv /\ [Next]_vars => LeafInv'
  BY LeafStep
<1>3. LeafInv => StaleLeafWasLate
  BY DEF LeafInv
<1> QED BY <1>1, <1>2, <1>3, TypeCorrect, PTL DEF Spec
-----------------------------------------------------------------------------
(* Requests.  While the table has not been replaced since its first lookup, *)
(* what a request has read is what the table still says.                    *)

\* The entry by which request q was let in is the one of table tab.
ReadFrom(q, tab) ==
  /\ tab[q.host] # None
  /\ q.via = tab[q.host].target /\ q.shared = tab[q.host].shared
  /\ q.lan /\ q.at # "acl" => q.shared
  /\ q.at = "forward" => q.target = q.via

HasHost == \A r \in Requests : rq[r].at # "idle" => rq[r].host \in Domains
ReadsAgree == \A r \in Requests : rq[r].at # "idle" /\ ~rq[r].moved => ReadFrom(rq[r], table)

RequestInv == RequestTypeOK /\ HasHost /\ ReadsAgree

RequestRecord ==
  [at : {"idle", "acl", "target", "forward"}, host : Domains \cup {None},
   lan : BOOLEAN, via : Targets \cup {None}, shared : BOOLEAN,
   target : Targets \cup {None}, moved : BOOLEAN]

\* The request invariant, of one request q under table tab.
Sound(q, tab) ==
  /\ q \in RequestRecord
  /\ q.at # "idle" => q.host \in Domains
  /\ q.at # "idle" /\ ~q.moved => ReadFrom(q, tab)

\* The invariant holds of all requests when it holds of each.
LEMMA SoundEach ==
  RequestInv <=> /\ rq = [r \in Requests |-> rq[r]]
                 /\ \A r \in Requests : Sound(rq[r], table)
BY DEF RequestInv, RequestTypeOK, HasHost, ReadsAgree, Sound, RequestRecord

\* An idle request has read nothing.
LEMMA NoRequestSound == ASSUME NEW tab PROVE Sound(NoRequest, tab)
BY DEF Sound, NoRequest, RequestRecord

\* The daemon's step of one request: it goes with the process, or notes that
\* the table has been replaced.
LEMMA OvertakenSound ==
  ASSUME NEW q, NEW tab, NEW tab2, Sound(q, tab),
         NEW m \in BOOLEAN, m <=> q.moved \/ tab2 # tab
  PROVE  Sound([q EXCEPT !.moved = m], tab2)
<1> DEFINE p == [q EXCEPT !.moved = m]
<1>1. /\ p \in RequestRecord /\ p.at = q.at /\ p.host = q.host /\ p.lan = q.lan
      /\ p.via = q.via /\ p.shared = q.shared /\ p.target = q.target /\ p.moved = m
  BY DEF Sound, RequestRecord
<1> SUFFICES Sound(p, tab2)
  OBVIOUS
<1> HIDE DEF p
<1>2. CASE m
  BY <1>1, <1>2 DEF Sound
<1>3. CASE ~m
  BY <1>1, <1>3 DEF Sound, ReadFrom
<1> QED BY <1>2, <1>3

-----------------------------------------------------------------------------
\* The four steps of a request, each with the table of that moment.
LEMMA RequestStep ==
  ASSUME TypeOK, NEW r \in Requests, NEW q, Sound(q, table),
         NEW p,
         \/ \E d \in Domains, lan \in BOOLEAN :
              /\ Has(d)
              /\ p = [NoRequest EXCEPT
                        !.at = IF lan THEN "acl" ELSE "target", !.host = d, !.lan = lan,
                        !.via = table[d].target, !.shared = table[d].shared]
         \/ q.at = "acl" /\ p = IF Shared(q.host) THEN [q EXCEPT !.at = "target"] ELSE NoRequest
         \/ q.at = "target" /\ p = [q EXCEPT !.at = "forward", !.target = Lookup(q.host)]
         \/ p = NoRequest
  PROVE  Sound(p, table)
<1> USE NoRequestSound
<1>1. ASSUME NEW d \in Domains, Has(d)
      PROVE  table[d] \in Entry /\ table[d].target \in Targets /\ table[d].shared \in BOOLEAN
  BY <1>1 DEF TypeOK, EngineTypeOK, Has, Entry
<1>2. ASSUME NEW d \in Domains, NEW lan \in BOOLEAN, Has(d),
             p = [NoRequest EXCEPT
                   !.at = IF lan THEN "acl" ELSE "target", !.host = d, !.lan = lan,
                   !.via = table[d].target, !.shared = table[d].shared]
      PROVE  Sound(p, table)
  <2> DEFINE at == IF lan THEN "acl" ELSE "target"
  <2>1. at \in {"acl", "target"} /\ (lan => at = "acl")
    OBVIOUS
  <2>2. p = [at |-> at, host |-> d, lan |-> lan, via |-> table[d].target,
             shared |-> table[d].shared, target |-> None, moved |-> FALSE]
    BY <1>2 DEF NoRequest
  <2> HIDE DEF at
  <2>3. /\ p \in RequestRecord /\ p.at = at /\ p.host = d /\ p.lan = lan
        /\ p.via = table[d].target /\ p.shared = table[d].shared
    <3>1. /\ d \in Domains /\ lan \in BOOLEAN
          /\ table[d].target \in Targets /\ table[d].shared \in BOOLEAN
      BY <1>1, <1>2
    <3> DEFINE via == table[d].target
               shared == table[d].shared
    <3> HIDE DEF via, shared
    <3>2. p = [at |-> at, host |-> d, lan |-> lan, via |-> via,
               shared |-> shared, target |-> None, moved |-> FALSE]
      BY <2>2 DEF via, shared
    <3>3. via \in Targets /\ shared \in BOOLEAN
      BY <3>1 DEF via, shared
    <3>4. p \in RequestRecord
      BY <2>1, <3>1, <3>2, <3>3 DEF RequestRecord
    <3> QED BY <2>2, <3>4
  <2> QED BY <1>2, <2>1, <2>3 DEF Sound, ReadFrom, Has
<1>3. CASE q.at = "acl" /\ p = IF Shared(q.host) THEN [q EXCEPT !.at = "target"] ELSE NoRequest
  <2>1. CASE ~Shared(q.host)
    BY <1>3, <2>1
  <2>2. CASE Shared(q.host)
    <3>1. /\ p \in RequestRecord /\ p.at = "target" /\ p.host = q.host /\ p.lan = q.lan
          /\ p.via = q.via /\ p.shared = q.shared /\ p.moved = q.moved
      BY <1>3, <2>2 DEF Sound, RequestRecord
    <3> QED BY <1>3, <2>2, <3>1 DEF Sound, ReadFrom, Shared
  <2> QED BY <2>1, <2>2
<1>4. CASE q.at = "target" /\ p = [q EXCEPT !.at = "forward", !.target = Lookup(q.host)]
  <2>1. Lookup(q.host) \in Targets \cup {None}
    BY <1>1, <1>4 DEF Lookup, Sound
  <2>2. /\ p \in RequestRecord /\ p.at = "forward" /\ p.host = q.host /\ p.lan = q.lan
        /\ p.via = q.via /\ p.shared = q.shared /\ p.moved = q.moved
        /\ p.target = Lookup(q.host)
    BY <1>4, <2>1 DEF Sound, RequestRecord
  <2> QED BY <1>4, <2>2 DEF Sound, ReadFrom, Lookup, Has
<1> QED BY <1>2, <1>3, <1>4

\* A step of request r changes nothing but where r is.
LEMMA RequestFrame ==
  ASSUME RequestInv, NEW r \in Requests,
         \/ \E d \in Domains, lan \in BOOLEAN : LookupProxy(r, d, lan)
         \/ CheckShared(r) \/ LookupTarget(r) \/ Forward(r), TypeOK
  PROVE  UNCHANGED vars /\ RequestInv'
<1> USE DEF LookupProxy, CheckShared, LookupTarget, Forward
<1>1. UNCHANGED vars /\ UNCHANGED table
  BY DEF vars, servedVars
<1>2. /\ \A s \in Requests : Sound(rq[s], table)
      /\ rq = [s \in Requests |-> rq[s]]
  BY SoundEach
<1> DEFINE p == rq'[r]
<1>3. rq' = [rq EXCEPT ![r] = p]
  BY <1>2
<1>4. Sound(p, table)
  BY <1>2, RequestStep
<1> HIDE DEF p
<1>5. \A s \in Requests : Sound(rq'[s], table')
  BY <1>1, <1>2, <1>3, <1>4
<1>6. rq' = [s \in Requests |-> rq'[s]]
  BY <1>2, <1>3
<1> QED BY <1>1, <1>5, <1>6 DEF RequestInv, RequestTypeOK, HasHost, ReadsAgree, Sound, RequestRecord

\* A step of the daemon ends the requests, or notes that it moved the table.
LEMMA DaemonFrame ==
  ASSUME RequestInv, DaemonStep
  PROVE  RequestInv'
<1> DEFINE m(r) == rq[r].moved \/ table' # table
<1>1. /\ \A s \in Requests : Sound(rq[s], table)
      /\ rq = [s \in Requests |-> rq[s]]
  BY SoundEach
<1>2. ASSUME NEW r \in Requests PROVE Sound(rq'[r], table')
  <2>1. rq'[r] = IF ~up' \/ rq[r].at = "idle" THEN NoRequest
                 ELSE [rq[r] EXCEPT !.moved = m(r)]
    BY DEF DaemonStep
  <2>2. m(r) \in BOOLEAN
    OBVIOUS
  <2>3. Sound([rq[r] EXCEPT !.moved = m(r)], table')
    BY <1>1, <2>2, OvertakenSound
  <2> QED BY <2>1, <2>3, NoRequestSound
<1>3. rq' = [s \in Requests |-> rq'[s]]
  BY DEF DaemonStep
<1> QED BY <1>2, <1>3 DEF RequestInv, RequestTypeOK, HasHost, ReadsAgree, Sound, RequestRecord

\* Every step keeps the invariant, and is one of the daemon or a stutter.
LEMMA RequestNext ==
  ASSUME TypeOK, RequestInv, [ProxyNext]_proxyVars
  PROVE  RequestInv' /\ [Next]_vars
<1>1. CASE DaemonStep
  BY <1>1, DaemonFrame DEF DaemonStep
<1>2. ASSUME NEW r \in Requests,
             \/ \E d \in Domains, lan \in BOOLEAN : LookupProxy(r, d, lan)
             \/ CheckShared(r) \/ LookupTarget(r) \/ Forward(r)
      PROVE  RequestInv' /\ UNCHANGED vars
  BY <1>2, RequestFrame
<1>3. CASE UNCHANGED proxyVars
  BY <1>3 DEF proxyVars, vars, servedVars, RequestInv, RequestTypeOK, HasHost, ReadsAgree, ReadFrom
<1> QED BY <1>1, <1>2, <1>3 DEF ProxyNext

\* With requests the daemon's core behaves as it does without them, so all
\* that is proved of Spec holds of ProxySpec.
THEOREM RequestsOnlyRead == ProxySpec => Spec /\ []RequestInv
<1>1. ProxyInit => Init /\ WellTyped /\ RequestInv
  <2> SUFFICES ASSUME ProxyInit PROVE Init /\ WellTyped /\ RequestInv
    OBVIOUS
  <2>1. \A r \in Requests : Sound(rq[r], table)
    BY NoRequestSound DEF ProxyInit
  <2> QED BY <2>1, InitType
       DEF ProxyInit, RequestInv, RequestTypeOK, HasHost, ReadsAgree, Sound, RequestRecord
<1>2. WellTyped /\ RequestInv /\ [ProxyNext]_proxyVars
        => [Next]_vars /\ WellTyped' /\ RequestInv'
  BY NextType, RequestNext DEF WellTyped
<1> QED BY <1>1, <1>2, PTL DEF ProxySpec, Spec

\* What a request has read is well-typed.
THEOREM RequestTypeCorrect == ProxySpec => []RequestTypeOK
<1>1. RequestInv => RequestTypeOK
  BY DEF RequestInv
<1> QED BY <1>1, RequestsOnlyRead, PTL

\* A request that no reload overtook goes to the upstream of its Host header,
\* and from the LAN only if that entry is shared (Server.handle).
THEOREM ConsistentRequests == ProxySpec => []UndisturbedRequestIsConsistent
<1>1. RequestInv => UndisturbedRequestIsConsistent
  BY DEF RequestInv, HasHost, ReadsAgree, ReadFrom, UndisturbedRequestIsConsistent, Has
<1> QED BY <1>1, RequestsOnlyRead, PTL
=============================================================================
