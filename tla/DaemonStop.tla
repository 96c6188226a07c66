----------------------------- MODULE DaemonStop ------------------------------
(***************************************************************************)
(* The end of one daemon process: runDaemonServe (internal/cli/daemon.go)  *)
(* from the first reason to stop until os.Exit, against the goroutines     *)
(* that are still at work then: the API's handlers and event streams, the  *)
(* two tickers, the requests in the proxy, and the engine's own shutdown   *)
(* (internal/daemon/proxy.go), for which nobody waits.                     *)
(*                                                                         *)
(* There is one route, shared on the LAN or not; a call of the API shares  *)
(* it or takes that back.  What the calls answer, and the proxy's table,   *)
(* are RouteDaemon's; what is in the streams' channels is Hub's; other     *)
(* processes are Lifecycle's.                                              *)
(***************************************************************************)
CONSTANTS
  Calls,      \* goroutines of API handlers that change the route
  Streams,    \* goroutines of API handlers that serve an event stream
  Requests    \* goroutines of proxied requests, one after another

VARIABLES
  main,       \* where runDaemonServe is
  told,       \* a signal, or POST /v1/shutdown
  refusing,   \* Shutdown has been called on the API's server
  ctxDone,    \* engineCtx is cancelled
  engine,     \* engine.Start serves, has failed, or has returned after Shutdown
  drain,      \* the goroutine that engine.Start leaves behind
  expired,    \* its five seconds are over
  hub,        \* d.hub: open, closed, nil
  stream,     \* [Streams -> the channel: not yet there, open, closed]
  store,      \* d.store: open, closed, nil
  pidfile,
  pub,        \* e.pub holds the publisher
  announced,  \* the publisher has the route's name registered
  shared,     \* the store's route
  call,       \* [Calls -> what the handler does next, its value, its channels]
  ticker,     \* what the ticker that has a tick does next
  due,        \* the channels it has yet to send to
  request,    \* [Requests -> forwarded, cut, or neither]
  panicked,   \* the process ended by a panic
  late        \* history: a name was registered after e.pub was emptied

mainVars == <<main, told, refusing, ctxDone>>
engineVars == <<engine, drain, expired, pub>>
hubVars == <<hub, stream>>
daemonVars == <<hubVars, store, pidfile>>
routeVars == <<announced, shared, call, late>>
tickerVars == <<ticker, due>>
stopVars == <<mainVars, engineVars, daemonVars, routeVars, tickerVars, request, panicked>>

MainSteps == {"serve", "await", "hub", "forgethub", "store", "forgetstore", "release", "exit", "gone"}
CallSteps == {"idle", "write", "publish", "send", "list", "load", "set"}

StopTypeOK ==
  /\ main \in MainSteps
  /\ {told, refusing, ctxDone, expired, pidfile, pub, announced, shared, panicked, late}
       \subseteq BOOLEAN
  /\ engine \in {"serving", "failed", "returned"}
  /\ drain \in {"wait", "drain", "swap", "close", "done"}
  /\ store \in {"open", "closed", "nil"}
  /\ hub \in {"open", "closed", "nil"} /\ stream \in [Streams -> {"none", "open", "closed"}]
  /\ call \in [Calls -> [step : CallSteps, val : BOOLEAN, due : SUBSET Streams]]
  /\ ticker \in {"wait", "list", "publish", "send", "ended"} /\ due \subseteq Streams
  /\ request \in [Requests -> {"none", "forwarded", "cut"}]

\* A daemon at work.
StopInit ==
  /\ main = "serve" /\ told = FALSE /\ refusing = FALSE /\ ctxDone = FALSE
  /\ engine = "serving" /\ drain = "wait" /\ expired = FALSE /\ pub = TRUE
  /\ hub = "open" /\ store = "open" /\ pidfile = TRUE
  /\ stream \in [Streams -> {"none", "open"}]
  /\ shared \in BOOLEAN /\ announced = shared /\ late = FALSE
  /\ call = [c \in Calls |-> [step |-> "idle", val |-> FALSE, due |-> {}]]
  /\ ticker = "wait" /\ due = {}
  /\ request = [r \in Requests |-> "none"]
  /\ panicked = FALSE

-----------------------------------------------------------------------------
(* runDaemonServe.                                                         *)

CutRequests ==
  request' = [r \in Requests |-> IF request[r] = "forwarded" THEN "cut" ELSE request[r]]

BeTold ==
  /\ ~told /\ told' = TRUE
  /\ UNCHANGED <<main, refusing, ctxDone, engineVars, daemonVars, routeVars, tickerVars, request, panicked>>

\* The goroutine that waits for a reason to stop.
ShutAPI ==
  /\ told \/ engine # "serving"
  /\ ~refusing /\ refusing' = TRUE
  /\ UNCHANGED <<main, told, ctxDone, engineVars, daemonVars, routeVars, tickerVars, request, panicked>>

\* Mutant: it is left to the deferred call to cancel the engine.
ServeReturnsOnly ==
  /\ main = "serve" /\ refusing
  /\ main' = "await"
  /\ UNCHANGED <<told, refusing, ctxDone, engineVars, daemonVars, routeVars, tickerVars, request, panicked>>

\* Serve returns as soon as Shutdown is called, whatever the handlers do.
ServeReturns ==
  /\ main = "serve" /\ refusing
  /\ main' = "await" /\ ctxDone' = TRUE
  /\ UNCHANGED <<told, refusing, engineVars, daemonVars, routeVars, tickerVars, request, panicked>>

AwaitEngine ==
  /\ main = "await" /\ engine # "serving"
  /\ main' = "hub"
  /\ UNCHANGED <<told, refusing, ctxDone, engineVars, daemonVars, routeVars, tickerVars, request, panicked>>

\* The deferred calls: Close, in four steps, and release.
Leave(at, next) == main = at /\ main' = next /\ UNCHANGED <<told, refusing, ctxDone, engineVars, routeVars,
                                                          tickerVars, request, panicked>>

\* Hub.Close closes every channel, and then d.hub is set to nil.
CloseHub ==
  /\ Leave("hub", "forgethub") /\ hub' = "closed"
  /\ stream' = [s \in Streams |-> IF stream[s] = "open" THEN "closed" ELSE stream[s]]
  /\ UNCHANGED <<store, pidfile>>

ForgetHub   == Leave("forgethub", "store") /\ hub' = "nil" /\ UNCHANGED <<stream, store, pidfile>>
CloseStore  == Leave("store", "forgetstore") /\ store' = "closed" /\ UNCHANGED <<hubVars, pidfile>>
ForgetStore == Leave("forgetstore", "release") /\ store' = "nil" /\ UNCHANGED <<hubVars, pidfile>>
ReleasePid  == Leave("release", "exit") /\ pidfile' = FALSE /\ UNCHANGED <<hubVars, store>>

\* os.Exit: all goroutines end where they are.
Exit ==
  /\ main = "exit" /\ main' = "gone"
  /\ CutRequests
  /\ UNCHANGED <<told, refusing, ctxDone, engineVars, daemonVars, routeVars, tickerVars, panicked>>

MainStep == \/ ServeReturns \/ AwaitEngine \/ CloseHub \/ ForgetHub
            \/ CloseStore \/ ForgetStore \/ ReleasePid \/ Exit

-----------------------------------------------------------------------------
(* engine.Start, and the goroutine it leaves behind.                       *)

EngineStays == UNCHANGED <<mainVars, daemonVars, tickerVars, panicked>>

EngineFails ==
  /\ engine = "serving" /\ engine' = "failed"
  /\ UNCHANGED <<drain, expired, pub, routeVars, request>> /\ EngineStays

\* Shutdown closes the proxy's listener, and with that its Serve returns.
StartDrain ==
  /\ drain = "wait" /\ ctxDone /\ drain' = "drain"
  /\ UNCHANGED <<engine, expired, pub, routeVars, request>> /\ EngineStays

EngineReturns ==
  /\ engine = "serving" /\ drain # "wait" /\ engine' = "returned"
  /\ UNCHANGED <<drain, expired, pub, routeVars, request>> /\ EngineStays

\* No request is under way any more, or the five seconds are over.
EndDrain ==
  /\ drain = "drain" /\ drain' = "swap"
  /\ expired' = (\E r \in Requests : request[r] = "forwarded")
  /\ UNCHANGED <<engine, pub, routeVars, request>> /\ EngineStays

\* Mutant: the pointer is loaded and left.
SwapNothing ==
  /\ drain = "swap" /\ drain' = "close"
  /\ UNCHANGED <<engine, expired, pub, routeVars, request>> /\ EngineStays

SwapPublisher ==
  /\ drain = "swap" /\ drain' = "close" /\ pub' = FALSE
  /\ UNCHANGED <<engine, expired, routeVars, request>> /\ EngineStays

ClosePublisher ==
  /\ drain = "close" /\ drain' = "done" /\ announced' = FALSE
  /\ UNCHANGED <<engine, expired, pub, shared, call, late, request>> /\ EngineStays

DrainStep == StartDrain \/ EngineReturns \/ EndDrain \/ SwapPublisher \/ ClosePublisher

-----------------------------------------------------------------------------
(* What is still at work.                                                  *)

WorkStays == UNCHANGED <<mainVars, engineVars, daemonVars>>

Does(c, step) == call' = [call EXCEPT ![c].step = step, ![c].due = {}]
\* The handler answers, or its panic is recovered: d.mu is free again.
Returns(c) == Does(c, "idle")
CallStays == UNCHANGED <<tickerVars, request, panicked>> /\ WorkStays

Accept(c, val) ==
  /\ ~refusing /\ call[c].step = "idle"
  /\ call' = [call EXCEPT ![c] = [step |-> "write", val |-> val, due |-> {}]]
  /\ UNCHANGED <<announced, shared, late>> /\ CallStays

Locked == \E c \in Calls : call[c].step \notin {"idle", "write"}

\* With the database closed the transaction fails, with the store nil it panics.
WriteRoute(c) ==
  /\ call[c].step = "write" /\ ~Locked
  /\ IF store = "open" THEN shared' = call[c].val /\ Does(c, "publish")
                       ELSE UNCHANGED shared /\ Returns(c)
  /\ UNCHANGED <<announced, late>> /\ CallStays

\* Hub.Publish takes the channels there are, and sends when it has released h.mu.
\* A nil hub panics, and so does a send on a channel that has been closed since.
Subscribed == {s \in Streams : stream[s] = "open"}
Ended(channels) == \E s \in channels : stream[s] = "closed"

PublishChange(c) ==
  /\ call[c].step = "publish"
  /\ IF hub = "nil" THEN Returns(c)
                    ELSE call' = [call EXCEPT ![c].step = "send", ![c].due = Subscribed]
  /\ UNCHANGED <<announced, shared, late>> /\ CallStays

SendChange(c) ==
  /\ call[c].step = "send"
  /\ IF Ended(call[c].due) THEN Returns(c) ELSE Does(c, "list")
  /\ UNCHANGED <<announced, shared, late>> /\ CallStays

\* reloadEngine: a closed database skips the reload, a nil store panics.
ListForReload(c) ==
  /\ call[c].step = "list"
  /\ IF store = "open" THEN Does(c, "load") ELSE Returns(c)
  /\ UNCHANGED <<announced, shared, late>> /\ CallStays

LoadPointer(c) ==
  /\ call[c].step = "load"
  /\ IF pub THEN Does(c, "set") ELSE Returns(c)
  /\ UNCHANGED <<announced, shared, late>> /\ CallStays

\* The publisher knows nothing of its own Close.
SetName(c) ==
  /\ call[c].step = "set"
  /\ announced' = call[c].val
  /\ late' = (late \/ ~pub)
  /\ Returns(c)
  /\ UNCHANGED shared /\ CallStays

\* A handler that was let in before subscribes.
Subscribe(s) ==
  /\ stream[s] = "none" /\ hub = "open"
  /\ stream' = [stream EXCEPT ![s] = "open"]
  /\ UNCHANGED <<mainVars, engineVars, hub, store, pidfile, routeVars, tickerVars, request, panicked>>

\* Its client has left, or a write fails: Unsubscribe closes the channel.
LeaveStream(s) ==
  /\ stream[s] = "open"
  /\ stream' = [stream EXCEPT ![s] = "closed"]
  /\ UNCHANGED <<mainVars, engineVars, hub, store, pidfile, routeVars, tickerVars, request, panicked>>

TickerStays == UNCHANGED <<routeVars, request, panicked>> /\ WorkStays

\* One ticker lists the routes for the statistics, the other does not.  Their
\* select may take a tick although the context is done.
Tick ==
  /\ ticker = "wait" /\ hub # "nil"
  /\ ticker' \in {"list", "publish"}
  /\ UNCHANGED due /\ TickerStays

EndTickers == ticker = "wait" /\ ctxDone /\ ticker' = "ended" /\ UNCHANGED due /\ TickerStays

\* Nobody recovers a ticker's panic: it ends the process without the deferred calls.
TickerPanics ==
  /\ main' = "gone" /\ panicked' = TRUE /\ CutRequests
  /\ UNCHANGED <<told, refusing, ctxDone, engineVars, daemonVars, routeVars, tickerVars>>

\* With the database closed the tick is passed over.
ListForStats ==
  /\ ticker = "list"
  /\ IF store = "nil" THEN TickerPanics
     ELSE /\ ticker' = (IF store = "open" THEN "publish" ELSE "wait")
          /\ UNCHANGED due /\ TickerStays

PublishTick ==
  /\ ticker = "publish"
  /\ IF hub = "nil" THEN TickerPanics
                    ELSE ticker' = "send" /\ due' = Subscribed /\ TickerStays

SendTick ==
  /\ ticker = "send"
  /\ IF Ended(due) THEN TickerPanics
                   ELSE ticker' = "wait" /\ due' = {} /\ TickerStays

Forwarded(r) ==
  /\ engine = "serving" /\ drain = "wait" /\ request[r] = "none"
  /\ request' = [request EXCEPT ![r] = "forwarded"]
  /\ UNCHANGED <<routeVars, tickerVars, panicked>> /\ WorkStays

Answered(r) ==
  /\ request[r] = "forwarded"
  /\ request' = [request EXCEPT ![r] = "none"]
  /\ UNCHANGED <<routeVars, tickerVars, panicked>> /\ WorkStays

CallStep(c) == \/ WriteRoute(c) \/ PublishChange(c) \/ SendChange(c) \/ ListForReload(c)
               \/ LoadPointer(c) \/ SetName(c)

DaemonStopNext ==
  /\ main # "gone"
  /\ \/ BeTold \/ ShutAPI \/ MainStep
     \/ EngineFails \/ DrainStep
     \/ \E c \in Calls : CallStep(c) \/ \E val \in BOOLEAN : Accept(c, val)
     \/ \E s \in Streams : Subscribe(s) \/ LeaveStream(s)
     \/ Tick \/ EndTickers \/ ListForStats \/ PublishTick \/ SendTick
     \/ \E r \in Requests : Forwarded(r) \/ Answered(r)

\* The goroutines of the stop run; handlers, tickers and upstreams need not.
DaemonStopFairness ==
  /\ WF_stopVars(ShutAPI) /\ WF_stopVars(MainStep)
  /\ WF_stopVars(StartDrain) /\ WF_stopVars(EngineReturns)

DaemonStopSpec == StopInit /\ [][DaemonStopNext]_stopVars

-----------------------------------------------------------------------------
(* Properties.                                                             *)

\* server.go:38: "Shutdown gracefully drains in-flight requests within ctx's
\* deadline": a forwarded request is not cut before that, if the engine has
\* ended by Shutdown and nothing panics.
RequestsAreDrained ==
  \A r \in Requests : request[r] = "cut" /\ engine = "returned" /\ ~panicked => expired

\* Once the publisher is closed no name is announced, unless by a call that had
\* loaded it before and sets it later (proxy.go:112); and a process that ends
\* leaves its pid file only if a ticker met what Close had set to nil, or a
\* stream that ended between its snapshot of the channels and its send (sse.go:57).
EndIsClean ==
  /\ drain = "done" /\ ~late => ~announced
  /\ main = "gone" /\ pidfile => panicked /\ (hub = "nil" \/ Ended(due))

\* A daemon that is told to stop ends, whatever its handlers and the requests
\* in the proxy wait for (cli/daemon.go:124-146).
StopEnds == told ~> main = "gone"
=============================================================================
