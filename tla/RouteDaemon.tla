----------------------------- MODULE RouteDaemon -----------------------------
(***************************************************************************)
(* The daemon's core: the route store, the API calls that change it under  *)
(* d.mu (internal/daemon/daemon.go), the events they publish, and the      *)
(* engine they reload (internal/daemon/proxy.go): the proxy's routing      *)
(* table, the cache of leaf certificates and the mDNS publisher.  The      *)
(* engine starts concurrently with the first calls, TLS handshakes use the *)
(* table and the cache at any time, SSE connections come and go, and the   *)
(* process may stop between any two steps; only the store survives.        *)
(***************************************************************************)
EXTENDS Routes, Naturals

CONSTANTS
  Clients,      \* concurrent API calls
  Streams,      \* SSE connections (GET /v1/events); the hub itself is in Hub
  Handshakes,   \* concurrent TLS handshakes
  MdnsDomains,  \* the domains with suffix .local
  Routable,     \* the targets normalizeUpstream can parse
  Calls         \* the requests the clients make

ASSUME RouteDaemonAssumption ==
  /\ MdnsDomains \subseteq Domains
  /\ Routable \subseteq Targets
  /\ Calls \subseteq Request
  /\ None \notin Clients

VARIABLES
  up,           \* the process runs
  store,        \* the bolt bucket: [Domains -> Route or None]
  mu,           \* the call that holds d.mu, or None
  pc,           \* [Clients -> the next step of the call's handler]
  call,         \* [Clients -> the request, or None]
  result,       \* [Clients -> what the handler will answer]
  answer,       \* [Clients -> what it did answer, or None]
  new,          \* [Clients -> the route its handler is about to put]
  todo,         \* [Clients -> Publish's snapshot, not yet sent to]
  routes,       \* [Clients -> what reloadEngine listed]
  open,         \* Hub.subs: the registered streams
  left,         \* streams that have unsubscribed: their channel is closed
  engine,       \* how far the goroutine that runs engine.Start has come
  initial,      \* the routes RunEngine listed
  table,        \* Router.table: [Domains -> entry or None]
  pub,          \* e.pub holds the publisher
  adverts,      \* Publisher.servers: the domains advertised
  cache,        \* Issuer.cache: the domains with a cached leaf
  hs,           \* [Handshakes -> where GetCertificate is, for which host]
  tableCause,   \* history: why the table may differ from the store
  advertCause,  \* history: why the adverts may differ from the store
  late          \* history: hosts whose leaf was cached after they were dropped

callVars == <<pc, call, result, answer, new, todo, routes>>
hubVars == <<open, left>>
engineVars == <<engine, initial, pub>>
servedVars == <<table, adverts, cache>>
causeVars == <<tableCause, advertCause, late>>
vars == <<up, store, mu, callVars, hubVars, engineVars, servedVars, hs, causeVars>>

NoRoutes == [d \in Domains |-> None]
Entry == [target : Targets, shared : BOOLEAN]
EngineStage == {"nil", "created", "listed", "routed", "announced", "serving"}
CallStep == {"idle", "lock", "check", "put", "snapshot", "send", "list", "table",
             "prune", "publisher", "adverts", "unlock"}
Idle == [at |-> "idle", host |-> None]

CallTypeOK ==
  /\ mu \in Clients \cup {None}
  /\ pc \in [Clients -> CallStep]
  /\ call \in [Clients -> Request \cup {None}]
  /\ result \in [Clients -> Outcomes \cup {None}]
  /\ answer \in [Clients -> Outcomes \cup {"internal", None}]
  /\ new \in [Clients -> Route \cup {None}]
  /\ todo \in [Clients -> SUBSET Streams]
  /\ routes \in [Clients -> RouteMap]

HubTypeOK == open \subseteq Streams /\ left \subseteq Streams

EngineTypeOK ==
  /\ engine \in EngineStage
  /\ initial \in RouteMap
  /\ pub \in BOOLEAN
  /\ table \in [Domains -> Entry \cup {None}]
  /\ adverts \subseteq Domains /\ cache \subseteq Domains

HandshakeTypeOK ==
  hs \in [Handshakes -> [at : {"idle", "known", "mint"}, host : Domains \cup {None}]]

CauseTypeOK ==
  /\ tableCause \subseteq {"overtaken", "aborted"}
  /\ advertCause \subseteq {"skipped", "aborted", "unregistered"}
  /\ late \subseteq Domains

TypeOK ==
  /\ up \in BOOLEAN /\ store \in RouteMap
  /\ CallTypeOK /\ HubTypeOK /\ EngineTypeOK /\ HandshakeTypeOK /\ CauseTypeOK

-----------------------------------------------------------------------------
(* Router.Set keeps the enabled routes whose target parses, Publisher.Set  *)
(* advertises the enabled, shared .local ones.                             *)

TableOf(rs) ==
  [d \in Domains |->
     IF rs[d] # None /\ rs[d].enabled /\ rs[d].target \in Routable
       THEN [target |-> rs[d].target, shared |-> rs[d].shared] ELSE None]

Advertisable(rs) == {d \in MdnsDomains : rs[d] # None /\ rs[d].enabled /\ rs[d].shared}

Has(d) == table[d] # None

\* Mutant: what is no longer wanted stays registered.
PublisherSetAdding(rs, cause) ==
  /\ adverts' = adverts \cup Advertisable(rs) /\ advertCause' = cause

\* Publisher.Set: all new registrations succeed and the rest is shut down,
\* or one fails and nothing changes (then some domain was to be registered).
PublisherSet(rs, cause) ==
  \/ adverts' = Advertisable(rs) /\ advertCause' = cause
  \/ /\ Advertisable(rs) \ adverts # {}
     /\ adverts' = adverts
     /\ advertCause' = advertCause \cup {"unregistered"}

-----------------------------------------------------------------------------
(* One API call: AddRoute, RemoveRoute or EditRoute (ToggleShare is one).  *)

Goto(c, step) == pc' = [pc EXCEPT ![c] = step]

Invoke(c, q) ==
  /\ up /\ pc[c] = "idle"
  /\ call' = [call EXCEPT ![c] = q]
  /\ answer' = [answer EXCEPT ![c] = None]
  /\ Goto(c, "lock")
  /\ UNCHANGED <<up, store, mu, result, new, todo, routes, hubVars, engineVars,
                 servedVars, hs, causeVars>>

\* Mutant: no mutual exclusion.
LockAnyway(c) ==
  /\ pc[c] = "lock"
  /\ mu' = c
  /\ Goto(c, "check")
  /\ UNCHANGED <<up, store, call, result, answer, new, todo, routes, hubVars,
                 engineVars, servedVars, hs, causeVars>>

Lock(c) ==
  /\ pc[c] = "lock" /\ mu = None
  /\ mu' = c
  /\ Goto(c, "check")
  /\ UNCHANGED <<up, store, call, result, answer, new, todo, routes, hubVars,
                 engineVars, servedVars, hs, causeVars>>

\* GetRoute, and the new value of the route.
Check(c) ==
  LET q == call[c]
      verdict == Verdict(q, store[q.dom]) IN
  /\ pc[c] = "check"
  /\ result' = [result EXCEPT ![c] = verdict]
  /\ IF verdict = "ok"
       THEN new' = [new EXCEPT ![c] = Requested(q, store[q.dom])] /\ Goto(c, "put")
       ELSE UNCHANGED new /\ Goto(c, "unlock")
  /\ UNCHANGED <<up, store, mu, call, answer, todo, routes, hubVars, engineVars,
                 servedVars, hs, causeVars>>

\* Mutant: d.mu protects the write only, not the reload.
PutThenUnlock(c) ==
  /\ pc[c] = "put"
  /\ store' = [store EXCEPT ![call[c].dom] = new[c]]
  /\ mu' = None
  /\ Goto(c, "snapshot")
  /\ UNCHANGED <<up, call, result, answer, new, todo, routes, hubVars, engineVars,
                 servedVars, hs, causeVars>>

\* PutRoute or DeleteRoute: one bolt transaction, which may fail.
Put(c) ==
  /\ pc[c] = "put"
  /\ \/ /\ store' = [store EXCEPT ![call[c].dom] = new[c]]
        /\ Goto(c, "snapshot")
        /\ UNCHANGED result
     \/ /\ result' = [result EXCEPT ![c] = "storeWriteFailed"]
        /\ Goto(c, "unlock")
        /\ UNCHANGED store
  /\ UNCHANGED <<up, mu, call, answer, new, todo, routes, hubVars, engineVars,
                 servedVars, hs, causeVars>>

\* Hub.Publish: the snapshot under h.mu, then one send after the other.
Snapshot(c) ==
  /\ pc[c] = "snapshot"
  /\ todo' = [todo EXCEPT ![c] = open]
  /\ Goto(c, IF open = {} THEN "list" ELSE "send")
  /\ UNCHANGED <<up, store, mu, call, result, answer, new, routes, hubVars,
                 engineVars, servedVars, hs, causeVars>>

\* Mutant: d.mu is not released.
FinishLocked(c, a) ==
  /\ answer' = [answer EXCEPT ![c] = a]
  /\ call' = [call EXCEPT ![c] = None]
  /\ result' = [result EXCEPT ![c] = None]
  /\ new' = [new EXCEPT ![c] = None]
  /\ todo' = [todo EXCEPT ![c] = {}]
  /\ routes' = [routes EXCEPT ![c] = NoRoutes]
  /\ Goto(c, "idle")
  /\ UNCHANGED mu

\* The handler is done: the deferred d.mu.Unlock runs and the answer goes out.
Finish(c, a) ==
  /\ mu' = None
  /\ answer' = [answer EXCEPT ![c] = a]
  /\ call' = [call EXCEPT ![c] = None]
  /\ result' = [result EXCEPT ![c] = None]
  /\ new' = [new EXCEPT ![c] = None]
  /\ todo' = [todo EXCEPT ![c] = {}]
  /\ routes' = [routes EXCEPT ![c] = NoRoutes]
  /\ Goto(c, "idle")

\* A send to a stream that has left panics: Recoverer answers 500, and the
\* reload is skipped.
Send(c, s) ==
  /\ pc[c] = "send" /\ s \in todo[c]
  /\ IF s \in left
       THEN /\ Finish(c, "internal")
            /\ tableCause' = tableCause \cup {"aborted"}
            /\ advertCause' = advertCause \cup {"aborted"}
       ELSE /\ todo' = [todo EXCEPT ![c] = @ \ {s}]
            /\ Goto(c, IF todo[c] = {s} THEN "list" ELSE "send")
            /\ UNCHANGED <<mu, call, result, answer, new, routes, tableCause, advertCause>>
  /\ UNCHANGED <<up, store, hubVars, engineVars, servedVars, hs, late>>

\* reloadEngine: nothing to do in API-only mode, else ListRoutes ...
List(c) ==
  /\ pc[c] = "list"
  /\ IF engine = "nil"
       THEN UNCHANGED routes /\ Goto(c, "unlock")
       ELSE routes' = [routes EXCEPT ![c] = store] /\ Goto(c, "table")
  /\ UNCHANGED <<up, store, mu, call, result, answer, new, todo, hubVars, engineVars,
                 servedVars, hs, causeVars>>

\* ... and engine.Reload: Router.Set, ...
SetTable(c) ==
  /\ pc[c] = "table"
  /\ table' = TableOf(routes[c])
  /\ tableCause' = IF engine = "listed" THEN {"overtaken"} ELSE {}
  /\ Goto(c, "prune")
  /\ UNCHANGED <<up, store, mu, call, result, answer, new, todo, routes, hubVars,
                 engineVars, adverts, cache, hs, advertCause, late>>

\* Mutant: prune the hosts that are not stored instead of those not routed.
PruneUnstored(c) ==
  /\ pc[c] = "prune"
  /\ cache' = {d \in cache : routes[c][d] # None}
  /\ late' = late \cap cache'
  /\ Goto(c, "publisher")
  /\ UNCHANGED <<up, store, mu, call, result, answer, new, todo, routes, hubVars,
                 engineVars, table, adverts, hs, tableCause, advertCause>>

\* ... Issuer.Prune, ...
Prune(c) ==
  /\ pc[c] = "prune"
  /\ cache' = {d \in cache : Has(d)}
  /\ late' = late \cap cache'
  /\ Goto(c, "publisher")
  /\ UNCHANGED <<up, store, mu, call, result, answer, new, todo, routes, hubVars,
                 engineVars, table, adverts, hs, tableCause, advertCause>>

\* ... e.pub.Load, ...
LoadPublisher(c) ==
  /\ pc[c] = "publisher"
  /\ Goto(c, IF pub THEN "adverts" ELSE "unlock")
  /\ advertCause' = IF pub \/ engine = "created" THEN advertCause
                    ELSE advertCause \cup {"skipped"}
  /\ UNCHANGED <<up, store, mu, call, result, answer, new, todo, routes, hubVars,
                 engineVars, servedVars, hs, tableCause, late>>

\* ... and Publisher.Set, whose error is only logged.
SetAdverts(c) ==
  /\ pc[c] = "adverts"
  /\ PublisherSet(routes[c], {})
  /\ Goto(c, "unlock")
  /\ UNCHANGED <<up, store, mu, call, result, answer, new, todo, routes, hubVars,
                 engineVars, table, cache, hs, tableCause, late>>

Unlock(c) ==
  /\ pc[c] = "unlock"
  /\ Finish(c, result[c])
  /\ UNCHANGED <<up, store, hubVars, engineVars, servedVars, hs, causeVars>>

-----------------------------------------------------------------------------
(* SSE connections: Hub.Subscribe and Hub.Unsubscribe.                     *)

Subscribe(s) ==
  /\ up /\ s \notin open \cup left
  /\ open' = open \cup {s}
  /\ UNCHANGED <<up, store, mu, callVars, left, engineVars, servedVars, hs, causeVars>>

Unsubscribe(s) ==
  /\ s \in open
  /\ open' = open \ {s} /\ left' = left \cup {s}
  /\ UNCHANGED <<up, store, mu, callVars, engineVars, servedVars, hs, causeVars>>

-----------------------------------------------------------------------------
(* The goroutine of RunEngine and engine.Start.  It does not take d.mu.    *)

ListInitial ==
  /\ up /\ engine = "created"
  /\ initial' = store /\ engine' = "listed"
  /\ tableCause' = {} /\ advertCause' = {}
  /\ UNCHANGED <<up, store, mu, callVars, hubVars, pub, servedVars, hs, late>>

SetInitial ==
  /\ engine = "listed"
  /\ table' = TableOf(initial) /\ engine' = "routed"
  /\ UNCHANGED <<up, store, mu, callVars, hubVars, initial, pub, adverts, cache, hs,
                 causeVars>>

\* The publisher is filled before e.pub.Store makes it visible to Reload;
\* without a LAN address there is none.
Announce ==
  /\ engine = "routed"
  /\ \/ PublisherSet(initial, advertCause) /\ engine' = "announced"
     \/ engine' = "serving" /\ UNCHANGED <<adverts, advertCause>>
  /\ UNCHANGED <<up, store, mu, callVars, hubVars, initial, pub, table, cache, hs,
                 tableCause, late>>

StorePublisher ==
  /\ engine = "announced"
  /\ pub' = TRUE /\ engine' = "serving"
  /\ UNCHANGED <<up, store, mu, callVars, hubVars, initial, servedVars, hs, causeVars>>

-----------------------------------------------------------------------------
(* Issuer.GetCertificate, called by the TLS server for each handshake.     *)

\* The host is known, or the handshake fails (which changes nothing).
Hello(h, d) ==
  /\ engine = "serving" /\ hs[h].at = "idle" /\ Has(d)
  /\ hs' = [hs EXCEPT ![h] = [at |-> "known", host |-> d]]
  /\ UNCHANGED <<up, store, mu, callVars, hubVars, engineVars, servedVars, causeVars>>

\* The cache is read under the read lock; a hit ends the handshake.
ReadCache(h) ==
  /\ hs[h].at = "known"
  /\ hs' = [hs EXCEPT ![h] = IF @.host \in cache THEN Idle ELSE [@ EXCEPT !.at = "mint"]]
  /\ UNCHANGED <<up, store, mu, callVars, hubVars, engineVars, servedVars, causeVars>>

\* The leaf has been minted; it goes into the cache unless one is there.
FillCache(h) ==
  /\ hs[h].at = "mint"
  /\ cache' = cache \cup {hs[h].host}
  /\ late' = IF Has(hs[h].host) THEN late ELSE late \cup {hs[h].host}
  /\ hs' = [hs EXCEPT ![h] = Idle]
  /\ UNCHANGED <<up, store, mu, callVars, hubVars, engineVars, table, adverts,
                 tableCause, advertCause>>

-----------------------------------------------------------------------------
(* The process: a stop at any point (shutdown, crash, a failed listen, a   *)
(* panic of a ticker) loses everything but the store.                      *)

Fresh(stage) ==
  /\ mu' = None
  /\ pc' = [c \in Clients |-> "idle"] /\ call' = [c \in Clients |-> None]
  /\ result' = [c \in Clients |-> None] /\ new' = [c \in Clients |-> None]
  /\ todo' = [c \in Clients |-> {}] /\ routes' = [c \in Clients |-> NoRoutes]
  /\ open' = {} /\ left' = {}
  /\ engine' = stage /\ initial' = NoRoutes /\ pub' = FALSE
  /\ table' = NoRoutes /\ adverts' = {} /\ cache' = {}
  /\ hs' = [h \in Handshakes |-> Idle]
  /\ tableCause' = {} /\ advertCause' = {} /\ late' = {}

Init ==
  /\ up = FALSE /\ mu = None
  /\ store = NoRoutes
  /\ pc = [c \in Clients |-> "idle"] /\ call = [c \in Clients |-> None]
  /\ result = [c \in Clients |-> None] /\ answer = [c \in Clients |-> None]
  /\ new = [c \in Clients |-> None]
  /\ todo = [c \in Clients |-> {}] /\ routes = [c \in Clients |-> NoRoutes]
  /\ open = {} /\ left = {}
  /\ engine = "nil" /\ initial = NoRoutes /\ pub = FALSE
  /\ table = NoRoutes /\ adverts = {} /\ cache = {}
  /\ hs = [h \in Handshakes |-> Idle]
  /\ tableCause = {} /\ advertCause = {} /\ late = {}

Stop ==
  /\ up /\ up' = FALSE
  /\ Fresh("nil")
  /\ UNCHANGED <<store, answer>>

\* daemon.New: without a CA or a proxy port the engine stays nil.
Boot ==
  /\ ~up /\ up' = TRUE
  /\ \E stage \in {"nil", "created"} : Fresh(stage)
  /\ UNCHANGED <<store, answer>>

CallStepOf(c) ==
  \/ Check(c) \/ Put(c) \/ Snapshot(c) \/ (\E s \in Streams : Send(c, s))
  \/ List(c) \/ SetTable(c) \/ Prune(c) \/ LoadPublisher(c) \/ SetAdverts(c) \/ Unlock(c)

EngineStep == ListInitial \/ SetInitial \/ Announce \/ StorePublisher

Next ==
  \/ \E c \in Clients : Lock(c) \/ CallStepOf(c) \/ \E q \in Calls : Invoke(c, q)
  \/ \E s \in Streams : Subscribe(s) \/ Unsubscribe(s)
  \/ EngineStep
  \/ \E h \in Handshakes : ReadCache(h) \/ FillCache(h) \/ \E d \in Domains : Hello(h, d)
  \/ Stop \/ Boot

Spec == Init /\ [][Next]_vars

(* A handler that holds d.mu is never blocked, so the scheduler runs it on; *)
(* a sync.Mutex in starvation mode hands itself to the longest waiter, so   *)
(* Lock is strongly fair.                                                   *)
CallFairness ==
  \A c \in Clients : WF_vars(CallStepOf(c)) /\ SF_vars(Lock(c))

-----------------------------------------------------------------------------
(* Properties.                                                             *)

\* No call is between its write of the store and its Router.Set, or between
\* its write and its Publisher.Set.
TableSettled == \A c \in Clients : pc[c] \notin {"snapshot", "send", "list", "table"}
AdvertsSettled == TableSettled /\ \A c \in Clients : pc[c] \notin {"prune", "publisher", "adverts"}

Routed == engine \in {"routed", "announced", "serving"}

\* The table that the proxy serves from is the one of the stored routes, from
\* before a call is answered on, unless a panicking Publish skipped the reload
\* or engine.Start set the table from a list that a reload had overtaken.
TableDivergenceHasACause ==
  Routed /\ TableSettled /\ table # TableOf(store) => tableCause # {}

\* The published mDNS names are those of the stored routes, unless a
\* registration failed, a panic skipped the reload, or the reload ran before
\* e.pub was set.
AdvertDivergenceHasACause ==
  pub /\ AdvertsSettled /\ adverts # Advertisable(store) => advertCause # {}

\* Outside of a reload, the only leaves cached for hosts that are not routed
\* are those whose handshake was overtaken by the reload that dropped the host
\* (Issuer.Prune runs after Router.Set).
StaleLeafWasLate ==
  (\A c \in Clients : pc[c] # "prune") => \A d \in cache : Has(d) \/ d \in late

\* The API implements the linearizable registry of RouteRegistry.
CallState(c) ==
  IF pc[c] \in {"idle", "lock", "check", "put"}
    THEN IF pc[c] = "idle" THEN "idle" ELSE "called"
    ELSE result[c]
Registry == INSTANCE RouteRegistry WITH reg <- store, state <- [c \in Clients |-> CallState(c)]
RegistrySpec == Registry!Spec

\* Every call is answered, or the daemon stops (d.mu is released on every
\* path, panics included, and no step under it waits for anybody).
CallsAreAnswered == \A c \in Clients : pc[c] # "idle" ~> pc[c] = "idle"

\* README.md:220 "The proxy's route table reloads in-process on every add /
\* remove, no restart."
TableMatchesStore == Routed /\ TableSettled => table = TableOf(store)
=============================================================================
