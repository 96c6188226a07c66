--------------------------------- MODULE Bar ---------------------------------
(***************************************************************************)
(* The menu bar process (internal/bar) and what it sees of the daemon      *)
(* through the API client (internal/client): the reconnecting event        *)
(* stream, the mirror of the routes, and the refreshes that fetch the list *)
(* beside the events.  How the mirror is drawn is BarMenu.                 *)
(*                                                                         *)
(* Of the daemon there is the store, which outlives it, the change whose   *)
(* publication is still to come, and the channel the hub keeps for this    *)
(* bar (see Hub).  The tickers' events are not in it: they change nothing  *)
(* of the mirror, but they may fill the channel and evict what is there.   *)
(***************************************************************************)
EXTENDS Integers, FiniteSets, SequencesExt

CONSTANTS
  Names,        \* route names
  Values,       \* what a route says
  None,         \* no route, no list
  Refreshers,   \* bound on the refreshes under way at once (model only)
  HubCap,       \* hubChannelCap
  OutCap        \* capacity of the client's channel, and of what is on the wire

Lists == [Names -> Values \cup {None}]
NoRoutes == [n \in Names |-> None]

ASSUME BarAssumption ==
  /\ None \notin Names /\ None \notin Values /\ None \notin Lists
  /\ IsFiniteSet(Refreshers) /\ None \notin Refreshers
  /\ HubCap \in Nat \ {0} /\ OutCap \in Nat \ {0}

VARIABLES
  up,         \* the daemon runs
  store,      \* its routes
  unpublished,  \* the route a mutator has written and not yet published, or None
  conn,       \* the daemon's end of the stream: "none", "open", "registered"
  queue,      \* the channel of the hub
  stage,      \* where subscribeLoop is
  out,        \* the channel from the client to listenLoop
  mirror,     \* State.routes
  daemonUp,   \* State.daemonUp
  refresh,    \* [Refreshers -> a run of the function refresh]
  marker,     \* history: the last connection event applied
  causes,     \* history: why the mirror may be behind the store
  lateStatus  \* history: a status answer was applied without a connection

daemonVars == <<up, store, unpublished, conn, queue>>
stateVars == <<mirror, daemonUp>>
historyVars == <<marker, causes, lateStatus>>
vars == <<daemonVars, stage, out, stateVars, refresh, historyVars>>

RouteEvents == [type : {"route"}, name : Names, route : Values \cup {None}]
Reconnected == [type |-> "reconnected"]
Disconnected == [type |-> "disconnected"]

\* overtaken: a list was fetched, something newer came in, the list replaced it;
\* unseen: published before the handler had registered; dropped: the hub's channel
\* was full; unserved: the publication panicked on another subscriber before this
\* one's turn; failed: a refresh got no list.
Causes == {"overtaken", "unseen", "dropped", "unserved", "failed"}

\* A refresh is asking for the status, has the answer, asks for the routes,
\* or has them.
RefreshStage == {"off", "status", "answered", "routes", "listed"}
Refreshes ==
  [stage : RefreshStage, ok : BOOLEAN, list : Lists \cup {None}, passed : BOOLEAN]
NoRefresh == [stage |-> "off", ok |-> FALSE, list |-> None, passed |-> FALSE]

TypeOK ==
  /\ up \in BOOLEAN /\ store \in Lists /\ unpublished \in Names \cup {None}
  /\ conn \in {"none", "open", "registered"}
  /\ queue \in BoundedSeq(RouteEvents, HubCap)
  /\ stage \in {"dial", "announce", "stream", "lost"}
  /\ out \in BoundedSeq(RouteEvents \cup {Reconnected, Disconnected}, OutCap)
  /\ mirror \in Lists /\ daemonUp \in BOOLEAN
  /\ refresh \in [Refreshers -> Refreshes]
  /\ marker \in {Reconnected, Disconnected}
  /\ causes \subseteq Causes /\ lateStatus \in BOOLEAN

\* onReady starts a refresh and the listener.
Init ==
  /\ up \in BOOLEAN /\ store \in Lists /\ unpublished = None
  /\ conn = "none" /\ queue = <<>>
  /\ stage = "dial" /\ out = <<>>
  /\ mirror = NoRoutes /\ daemonUp = FALSE
  /\ \E r \in Refreshers :
       refresh = [q \in Refreshers |-> IF q = r THEN [NoRefresh EXCEPT !.stage = "status"]
                                                ELSE NoRefresh]
  /\ marker = Disconnected /\ causes = {} /\ lateStatus = FALSE

-----------------------------------------------------------------------------
(* The daemon.                                                             *)

Registered == conn = "registered"

\* Mutant: nothing goes, the channel is taken to have room.
PublishUnbounded(e) == queue' = Append(queue, e)

\* Hub.Publish to this bar's channel.  It has room; or it is full and its oldest
\* event goes, after which a tick may take the place; or a tick was the oldest.
Publish(e) ==
  \/ Len(queue) < HubCap /\ queue' = Append(queue, e)
  \/ queue # <<>> /\ queue' \in {Tail(queue), Append(Tail(queue), e)}
  \/ UNCHANGED queue

\* A mutator writes a route it adds, changes or removes, and holds d.mu.
Change(n, v) ==
  /\ up /\ unpublished = None /\ store[n] # v
  /\ store' = [store EXCEPT ![n] = v]
  /\ unpublished' = n
  /\ UNCHANGED <<up, conn, queue, stage, out, stateVars, refresh, historyVars>>

beyondPublication == <<up, store, conn, stage, out, stateVars, refresh, marker, lateStatus>>

\* It publishes what it wrote.
PublishChange ==
  /\ unpublished # None /\ unpublished' = None
  /\ LET e == [type |-> "route", name |-> unpublished, route |-> store[unpublished]]
     IN IF Registered
          THEN /\ Publish(e)
               /\ causes' = causes \cup (IF queue' = Append(queue, e) THEN {} ELSE {"dropped"})
          ELSE /\ UNCHANGED queue
               /\ causes' = causes \cup (IF conn = "open" THEN {"unseen"} ELSE {})
  /\ UNCHANGED beyondPublication

\* Publish meets another subscriber's closed channel before it comes to this one:
\* net/http recovers the panic, and the route stays written.
AbortPublish ==
  /\ unpublished # None /\ unpublished' = None
  /\ causes' = causes \cup (IF conn = "none" THEN {} ELSE {"unserved"})
  /\ UNCHANGED <<queue, beyondPublication>>

\* A ticker publishes to a full channel, whose oldest event goes.
PublishTick ==
  /\ Registered /\ queue # <<>> /\ queue' = Tail(queue)
  /\ causes' = causes \cup {"dropped"}
  /\ UNCHANGED <<unpublished, beyondPublication>>

StartDaemon ==
  /\ ~up /\ up' = TRUE
  /\ UNCHANGED <<store, unpublished, conn, queue, stage, out, stateVars, refresh, historyVars>>

\* The stream ends, and what the handler had not written is gone.
Cut == conn' = "none" /\ queue' = <<>>

StopDaemon ==
  /\ up /\ up' = FALSE /\ unpublished' = None /\ Cut
  /\ UNCHANGED <<store, stage, out, stateVars, refresh, historyVars>>

\* The connection breaks under the handler: a write fails.
CutStream ==
  /\ conn # "none" /\ Cut
  /\ UNCHANGED <<up, store, unpublished, stage, out, stateVars, refresh, historyVars>>

\* handleEvents has sent the headers and now subscribes.
Register ==
  /\ conn = "open" /\ conn' = "registered"
  /\ UNCHANGED <<up, store, unpublished, queue, stage, out, stateVars, refresh, historyVars>>

-----------------------------------------------------------------------------
(* The client's subscribeLoop.                                             *)

beyondClient == <<up, store, unpublished, stateVars, refresh, historyVars>>

Active(r) == refresh[r].stage # "off"
FreeRefreshers == {r \in Refreshers : ~Active(r)}

\* doStream answers 200; a dial that fails is tried again after the backoff.
\* Modelled while there is a free slot for the refresh this connection starts.
Dial ==
  /\ stage = "dial" /\ up
  /\ Cardinality(FreeRefreshers) > Cardinality({i \in DOMAIN out : out[i] = Reconnected})
  /\ stage' = "announce" /\ conn' = "open"
  /\ UNCHANGED <<queue, out, beyondClient>>

Send(e) == Len(out) < OutCap /\ out' = Append(out, e)

Announce ==
  /\ stage = "announce" /\ Send(Reconnected)
  /\ stage' = "stream"
  /\ UNCHANGED <<conn, queue, beyondClient>>

\* The handler writes an event, the scanner reads it and passes it on.
Deliver ==
  /\ stage = "stream" /\ queue # <<>> /\ Send(Head(queue))
  /\ queue' = Tail(queue)
  /\ UNCHANGED <<conn, stage, beyondClient>>

EndOfStream ==
  /\ stage = "stream" /\ conn = "none"
  /\ stage' = "lost"
  /\ UNCHANGED <<conn, queue, out, beyondClient>>

Lose ==
  /\ stage = "lost" /\ Send(Disconnected)
  /\ stage' = "dial"
  /\ UNCHANGED <<conn, queue, beyondClient>>

-----------------------------------------------------------------------------
(* listenLoop.                                                             *)

\* The lists that refreshes hold are older than what has just come in.
Passed(r) ==
  [q \in Refreshers |-> IF q # r /\ refresh[q].stage = "listed"
                          THEN [refresh[q] EXCEPT !.passed = TRUE] ELSE refresh[q]]

\* Mutant: a removal deletes nothing.
ApplyRouteKeeping(e) ==
  /\ mirror' = IF e.route = None THEN mirror ELSE [mirror EXCEPT ![e.name] = e.route]
  /\ refresh' = Passed(None)
  /\ UNCHANGED <<daemonUp, marker, lateStatus>>

ApplyRoute(e) ==
  /\ mirror' = [mirror EXCEPT ![e.name] = e.route]
  /\ refresh' = Passed(None)
  /\ UNCHANGED <<daemonUp, marker, lateStatus>>

\* Mutant: only a status answer shows the daemon as up.
ApplyMarkerByRefresh(e) ==
  /\ daemonUp' = (daemonUp /\ e = Reconnected)
  /\ IF e = Reconnected
       THEN \E r \in FreeRefreshers : refresh' = [refresh EXCEPT ![r].stage = "status"]
       ELSE UNCHANGED refresh
  /\ marker' = e /\ lateStatus' = FALSE
  /\ UNCHANGED mirror

\* Mutant: a lost connection leaves daemonUp as it is.
ApplyMarkerUp(e) ==
  /\ daemonUp' = (daemonUp \/ e = Reconnected)
  /\ IF e = Reconnected
       THEN \E r \in FreeRefreshers : refresh' = [refresh EXCEPT ![r].stage = "status"]
       ELSE UNCHANGED refresh
  /\ marker' = e /\ lateStatus' = FALSE
  /\ UNCHANGED mirror

\* Connected or disconnected; the former starts a refresh.
ApplyMarker(e) ==
  /\ daemonUp' = (e = Reconnected)
  /\ IF e = Reconnected
       THEN \E r \in FreeRefreshers : refresh' = [refresh EXCEPT ![r].stage = "status"]
       ELSE UNCHANGED refresh
  /\ marker' = e /\ lateStatus' = FALSE
  /\ UNCHANGED mirror

Receive ==
  /\ out # <<>> /\ out' = Tail(out)
  /\ LET e == Head(out)
     IN IF e \in RouteEvents THEN ApplyRoute(e) ELSE ApplyMarker(e)
  /\ UNCHANGED <<daemonVars, stage, causes>>

-----------------------------------------------------------------------------
(* The function refresh of Run.                                            *)

\* The daemon answers, or the call fails: it is down, or the answer is late.
AskStatus(r) ==
  /\ refresh[r].stage = "status"
  /\ \E ok \in BOOLEAN :
       /\ ok => up
       /\ refresh' = [refresh EXCEPT ![r].stage = "answered", ![r].ok = ok]
  /\ UNCHANGED <<daemonVars, stage, out, stateVars, historyVars>>

\* SetTLD, SetMeta and SetDaemonUp(true), if there is an answer.
ApplyStatus(r) ==
  /\ refresh[r].stage = "answered"
  /\ daemonUp' = (daemonUp \/ refresh[r].ok)
  /\ lateStatus' = (lateStatus \/ (refresh[r].ok /\ marker = Disconnected))
  /\ refresh' = [refresh EXCEPT ![r].stage = "routes", ![r].ok = FALSE]
  /\ UNCHANGED <<daemonVars, stage, out, mirror, marker, causes>>

\* The list is read here and arrives later; or there is none, and the refresh ends.
AskRoutes(r) ==
  /\ refresh[r].stage = "routes"
  /\ \/ /\ up
        /\ refresh' = [refresh EXCEPT ![r].stage = "listed", ![r].list = store]
        /\ UNCHANGED causes
     \/ /\ refresh' = [refresh EXCEPT ![r] = NoRefresh]
        /\ causes' = causes \cup {"failed"}
  /\ UNCHANGED <<daemonVars, stage, out, stateVars, marker, lateStatus>>

\* Mutant: the list is merged into the mirror.
ReplaceRoutesMerging(list) ==
  mirror' = [n \in Names |-> IF list[n] = None THEN mirror[n] ELSE list[n]]

ReplaceRoutes(list) == mirror' = list

NoRouteUnderWay == \A e \in ToSet(queue) \cup ToSet(out) : e \notin RouteEvents

\* The mirror is current again if the list is and nothing older can follow.
ApplyRoutes(r) ==
  /\ refresh[r].stage = "listed"
  /\ ReplaceRoutes(refresh[r].list)
  /\ refresh' = [Passed(r) EXCEPT ![r] = NoRefresh]
  /\ causes' =
       IF refresh[r].list = store
         THEN IF NoRouteUnderWay THEN {} ELSE causes
         ELSE causes \cup (IF refresh[r].passed THEN {"overtaken"} ELSE {})
  /\ UNCHANGED <<daemonVars, stage, out, daemonUp, marker, lateStatus>>

RefreshStep(r) == AskStatus(r) \/ ApplyStatus(r) \/ AskRoutes(r) \/ ApplyRoutes(r)

-----------------------------------------------------------------------------
ClientStep == Dial \/ Announce \/ Deliver \/ EndOfStream \/ Lose

Next ==
  \/ \E n \in Names, v \in Values \cup {None} : Change(n, v)
  \/ PublishChange \/ AbortPublish \/ PublishTick
  \/ StartDaemon \/ StopDaemon \/ CutStream \/ Register
  \/ ClientStep \/ Receive
  \/ \E r \in Refreshers : RefreshStep(r)

Spec == Init /\ [][Next]_vars

(* The bar's goroutines run, and its calls end within five seconds.  The   *)
(* daemon need not run, nor a connection hold.                             *)
Fairness ==
  /\ WF_vars(ClientStep) /\ WF_vars(Receive)
  /\ \A r \in Refreshers : WF_vars(RefreshStep(r))

FairSpec == Spec /\ Fairness

-----------------------------------------------------------------------------
(* Properties.                                                             *)

NoRefreshUnderWay == \A r \in Refreshers : ~Active(r)

\* When nothing is under way on a registered stream, the mirror is the
\* daemon's list, or one of the causes has happened since the last refresh
\* that brought it up to date: a list that newer news overtook (bar.go:73), a
\* change between the response headers and Subscribe, an event the hub
\* dropped, a publication that panicked on another subscriber's closed channel
\* (sse.go:57), a refresh that failed.  There is no other way to lag behind.
MirrorLagHasACause ==
  /\ Registered /\ stage = "stream" /\ queue = <<>> /\ out = <<>>
  /\ unpublished = None /\ NoRefreshUnderWay /\ causes = {}
  => mirror = store

\* A connected bar shows the daemon as up; one that cannot connect shows it as
\* down, unless a status answer was applied while no stream was there: the
\* refresh says SetDaemonUp(true) and nothing takes that back (bar.go:68).
DotFollowsStream ==
  out = <<>> /\ NoRefreshUnderWay =>
    /\ stage = "stream" => daemonUp
    /\ stage = "dial" /\ daemonUp => lateStatus

\* README.md:128 "The bar reconnects automatically when the daemon restarts.  The
\* status dot updates without a manual refresh": while the daemon is up, the bar
\* comes to show it as up, however often connections break.
Reconnects == up ~> daemonUp \/ ~up
=============================================================================
