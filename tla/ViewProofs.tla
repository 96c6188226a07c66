------------------------------ MODULE ViewProofs ------------------------------
(***************************************************************************)
(* What holds of the prober, the menu of the bar and the end of a daemon   *)
(* for all their constants, and of the three together.                     *)
(***************************************************************************)
EXTENDS MCView, FiniteSetTheorems, FunctionTheorems, TLAPS

-----------------------------------------------------------------------------
(* The end of a daemon.                                                    *)

\* The part of the type of the end of a daemon that handlers and requests have.
WorkTypeOK ==
  /\ call \in [Calls -> [step : CallSteps, val : BOOLEAN, due : SUBSET Streams]]
  /\ stream \in [Streams -> {"none", "open", "closed"}] /\ due \subseteq Streams
  /\ request \in [Requests -> {"none", "forwarded", "cut"}]

FlagTypeOK ==
  /\ told \in BOOLEAN /\ refusing \in BOOLEAN /\ ctxDone \in BOOLEAN /\ expired \in BOOLEAN
  /\ pidfile \in BOOLEAN /\ pub \in BOOLEAN /\ announced \in BOOLEAN
  /\ shared \in BOOLEAN /\ panicked \in BOOLEAN /\ late \in BOOLEAN

StepTypeOK ==
  /\ main \in MainSteps
  /\ engine \in {"serving", "failed", "returned"}
  /\ drain \in {"wait", "drain", "swap", "close", "done"}
  /\ store \in {"open", "closed", "nil"}
  /\ hub \in {"open", "closed", "nil"}
  /\ ticker \in {"wait", "list", "publish", "send", "ended"}

\* The types in three parts.
LEMMA StopTypeParts ==
  /\ StopTypeOK <=> WorkTypeOK /\ FlagTypeOK /\ StepTypeOK
  /\ StopTypeOK' <=> WorkTypeOK' /\ FlagTypeOK' /\ StepTypeOK'
BY DEF StopTypeOK, WorkTypeOK, FlagTypeOK, StepTypeOK

\* A call's next step keeps the types.
LEMMA CallMoves ==
  ASSUME WorkTypeOK, NEW c \in Calls, NEW step \in CallSteps,
         Does(c, step) \/ call' = [call EXCEPT ![c].step = step, ![c].due = Subscribed]
  PROVE  call' \in [Calls -> [step : CallSteps, val : BOOLEAN, due : SUBSET Streams]]
<1>1. Subscribed \in SUBSET Streams /\ {} \in SUBSET Streams
  BY DEF Subscribed
<1>2. /\ call[c] \in [step : CallSteps, val : BOOLEAN, due : SUBSET Streams]
      /\ call \in [Calls -> [step : CallSteps, val : BOOLEAN, due : SUBSET Streams]]
  BY DEF WorkTypeOK
<1>3. \A d \in SUBSET Streams :
        [call[c] EXCEPT !.step = step, !.due = d] \in [step : CallSteps, val : BOOLEAN, due : SUBSET Streams]
  BY <1>2
<1>4. PICK d \in SUBSET Streams : call' = [call EXCEPT ![c] = [call[c] EXCEPT !.step = step, !.due = d]]
  <2>1. \A d : [call EXCEPT ![c].step = step, ![c].due = d]
                 = [call EXCEPT ![c] = [call[c] EXCEPT !.step = step, !.due = d]]
    BY <1>2
  <2> QED BY <1>1, <2>1 DEF Does
<1> QED BY <1>2, <1>3, <1>4

\* Cutting the requests keeps the types.
LEMMA RequestsCut ==
  ASSUME WorkTypeOK, CutRequests
  PROVE  request' \in [Requests -> {"none", "forwarded", "cut"}]
BY DEF WorkTypeOK, CutRequests

\* Every variable has its type.
THEOREM StopTypeCorrect == DaemonStopSpec => []StopTypeOK
<1>1. StopInit => StopTypeOK
  <2>1. StopInit => WorkTypeOK /\ StepTypeOK
    BY DEF StopInit, WorkTypeOK, StepTypeOK, MainSteps, CallSteps
  <2>2. StopInit => FlagTypeOK
    BY DEF StopInit, FlagTypeOK
  <2> QED BY <2>1, <2>2, StopTypeParts
<1>2. StopTypeOK /\ [DaemonStopNext]_stopVars => StopTypeOK'
  <2> SUFFICES ASSUME WorkTypeOK, FlagTypeOK, StepTypeOK, [DaemonStopNext]_stopVars
               PROVE  WorkTypeOK' /\ FlagTypeOK' /\ StepTypeOK'
    BY StopTypeParts
  <2> USE DEF mainVars, engineVars, hubVars, daemonVars, routeVars, tickerVars
  <2>1. CASE BeTold \/ ShutAPI \/ ServeReturns \/ AwaitEngine \/ CloseHub \/ ForgetHub
             \/ CloseStore \/ ForgetStore \/ ReleasePid
    <3>1. UNCHANGED <<engineVars, routeVars, tickerVars, request, panicked>>
      BY <2>1 DEF BeTold, ShutAPI, ServeReturns, AwaitEngine, CloseHub, ForgetHub, CloseStore,
                  ForgetStore, ReleasePid, Leave
    <3>2. WorkTypeOK'
      <4>1. stream' \in [Streams -> {"none", "open", "closed"}]
        BY <2>1 DEF WorkTypeOK, BeTold, ShutAPI, ServeReturns, AwaitEngine, CloseHub, ForgetHub,
                    CloseStore, ForgetStore, ReleasePid, Leave
      <4> QED BY <3>1, <4>1 DEF WorkTypeOK
    <3>3. /\ told' = told \/ told' = TRUE
          /\ refusing' = refusing \/ refusing' = TRUE
          /\ ctxDone' = ctxDone \/ ctxDone' = TRUE
          /\ pidfile' = pidfile \/ pidfile' = FALSE
          /\ UNCHANGED <<expired, pub, announced, shared, panicked, late>>
      BY <2>1 DEF BeTold, ShutAPI, ServeReturns, AwaitEngine, CloseHub, ForgetHub, CloseStore,
                  ForgetStore, ReleasePid, Leave
    <3>5. FlagTypeOK'
      <4>1. told' \in BOOLEAN /\ refusing' \in BOOLEAN /\ ctxDone' \in BOOLEAN
        BY <3>3 DEF FlagTypeOK
      <4>2. pidfile' \in BOOLEAN
        BY <3>3 DEF FlagTypeOK
      <4> QED BY <3>3, <4>1, <4>2 DEF FlagTypeOK
    <3>4. StepTypeOK'
      BY <2>1, <3>1 DEF StepTypeOK, MainSteps, BeTold, ShutAPI, ServeReturns, AwaitEngine, CloseHub,
                        ForgetHub, CloseStore, ForgetStore, ReleasePid, Leave
    <3> QED BY <3>2, <3>4, <3>5
  <2>2. CASE Exit \/ TickerPanics
    <3>1. WorkTypeOK'
      BY <2>2, RequestsCut DEF WorkTypeOK, Exit, TickerPanics
    <3>2. StepTypeOK'
      BY <2>2 DEF StepTypeOK, MainSteps, Exit, TickerPanics
    <3>3. /\ panicked' \in {panicked, TRUE}
          /\ UNCHANGED <<told, refusing, ctxDone, expired, pidfile, pub, announced, shared, late>>
      BY <2>2 DEF Exit, TickerPanics
    <3>4. FlagTypeOK'
      BY <3>3 DEF FlagTypeOK
    <3> QED BY <3>1, <3>2, <3>4
  <2>3. CASE EngineFails \/ DrainStep
    <3>1. WorkTypeOK' /\ StepTypeOK'
      BY <2>3 DEF WorkTypeOK, StepTypeOK, EngineFails, DrainStep, StartDrain, EngineReturns, EndDrain,
                  SwapPublisher, ClosePublisher, EngineStays
    <3>2. EndDrain => expired' \in BOOLEAN
      <4>1. (\E r \in Requests : request[r] = "forwarded") \in BOOLEAN
        OBVIOUS
      <4> QED BY <4>1, Zenon DEF EndDrain
    <3>3. /\ expired' = expired \/ EndDrain
          /\ pub' \in {pub, FALSE} /\ announced' \in {announced, FALSE}
          /\ UNCHANGED <<told, refusing, ctxDone, pidfile, shared, panicked, late>>
      BY <2>3 DEF EngineFails, DrainStep, StartDrain, EngineReturns, EndDrain,
                  SwapPublisher, ClosePublisher, EngineStays
    <3>4. FlagTypeOK'
      BY <3>2, <3>3 DEF FlagTypeOK
    <3> QED BY <3>1, <3>4
  <2>4. ASSUME NEW c \in Calls, CallStep(c) PROVE WorkTypeOK' /\ FlagTypeOK' /\ StepTypeOK'
    <3> USE DEF WriteRoute, PublishChange, SendChange, ListForReload, LoadPointer, SetName
    <3>1. \E step \in CallSteps : \/ Does(c, step)
                                  \/ call' = [call EXCEPT ![c].step = step, ![c].due = Subscribed]
      BY <2>4 DEF CallStep, Returns, CallSteps
    <3>2. UNCHANGED <<mainVars, engineVars, daemonVars, tickerVars, request, panicked>>
      BY <2>4 DEF CallStep, CallStays, WorkStays
    <3>3. call[c].val \in BOOLEAN
      BY DEF WorkTypeOK
    <3>4. shared' \in BOOLEAN /\ announced' \in BOOLEAN
      BY <2>4, <3>3 DEF CallStep, FlagTypeOK
    <3>5. late' \in BOOLEAN
      <4>1. (late \/ ~pub) \in BOOLEAN
        OBVIOUS
      <4> QED BY <2>4, <4>1, Zenon DEF CallStep, FlagTypeOK
    <3>6. WorkTypeOK'
      BY <3>1, <3>2, CallMoves DEF WorkTypeOK
    <3> QED BY <3>2, <3>4, <3>5, <3>6 DEF FlagTypeOK, StepTypeOK
  <2>5. ASSUME NEW c \in Calls, NEW val \in BOOLEAN, Accept(c, val)
        PROVE  WorkTypeOK' /\ FlagTypeOK' /\ StepTypeOK'
    BY <2>5 DEF Accept, CallStays, WorkStays, WorkTypeOK, FlagTypeOK, StepTypeOK, CallSteps
  <2>6. CASE Tick \/ EndTickers \/ ListForStats \/ PublishTick \/ SendTick
    <3>1. CASE /\ TickerStays /\ ticker' \in {"wait", "list", "publish", "send", "ended"}
               /\ due' \subseteq Streams
      BY <3>1 DEF TickerStays, WorkStays, WorkTypeOK, FlagTypeOK, StepTypeOK
    <3>2. due \subseteq Streams /\ Subscribed \subseteq Streams
      BY DEF WorkTypeOK, Subscribed
    <3> QED BY <2>2, <2>6, <3>1, <3>2 DEF Tick, EndTickers, ListForStats, PublishTick, SendTick
  <2>9. ASSUME NEW s \in Streams, Subscribe(s) \/ LeaveStream(s)
        PROVE  WorkTypeOK' /\ FlagTypeOK' /\ StepTypeOK'
    BY <2>9 DEF Subscribe, LeaveStream, WorkTypeOK, FlagTypeOK, StepTypeOK
  <2>7. ASSUME NEW r \in Requests, Forwarded(r) \/ Answered(r)
        PROVE  WorkTypeOK' /\ FlagTypeOK' /\ StepTypeOK'
    BY <2>7 DEF Forwarded, Answered, WorkStays, WorkTypeOK, FlagTypeOK, StepTypeOK
  <2>8. CASE UNCHANGED stopVars
    BY <2>8 DEF stopVars, WorkTypeOK, FlagTypeOK, StepTypeOK
  <2> QED BY <2>1, <2>2, <2>3, <2>4, <2>5, <2>6, <2>7, <2>8, <2>9 DEF DaemonStopNext, MainStep
<1> QED BY <1>1, <1>2, PTL DEF DaemonStopSpec

\* Once the engine's own shutdown has emptied e.pub it stays empty, and what is
\* announced after Close was announced by a call that had loaded it before.
PublisherGone ==
  /\ drain \in {"close", "done"} => ~pub
  /\ drain = "done" /\ ~late => ~announced

\* The deferred calls come in their order; a panic needs one of them, or a
\* stream that ends under the ticker.
StopOrder ==
  /\ main \in {"store", "forgetstore", "release", "exit"} => hub = "nil"
  /\ store = "nil" => hub = "nil" /\ main \in {"release", "exit", "gone"}
  /\ main = "exit" => ~pidfile
  /\ main = "gone" /\ ~panicked => ~pidfile
  /\ panicked => main = "gone" /\ (hub = "nil" \/ Ended(due))

\* Whatever the handlers, the streams, the tickers, the requests and the engine's
\* shutdown do while the daemon ends: no name stays announced but by a call that
\* was late, and the pid file stays only where a ticker met the hub or the store
\* gone, or a channel closed since its snapshot.
THEOREM EndIsCleanCorrect == DaemonStopSpec => []EndIsClean
<1>1. StopInit => PublisherGone /\ StopOrder
  BY DEF StopInit, PublisherGone, StopOrder
<1>2. StopTypeOK /\ PublisherGone /\ StopOrder /\ [DaemonStopNext]_stopVars =>
        PublisherGone' /\ StopOrder'
  <2> SUFFICES ASSUME StopTypeOK, PublisherGone, StopOrder, [DaemonStopNext]_stopVars
               PROVE  PublisherGone' /\ StopOrder'
    OBVIOUS
  <2> USE DEF mainVars, engineVars, hubVars, daemonVars, routeVars, tickerVars
  <2>1. CASE main # "gone" /\ (BeTold \/ ShutAPI \/ MainStep)
    <3> USE <2>1 DEF BeTold, ShutAPI, MainStep, ServeReturns, AwaitEngine, CloseHub, ForgetHub,
                     CloseStore, ForgetStore, ReleasePid, Leave, Exit
    <3>1. UNCHANGED <<drain, pub, announced, late, panicked>> /\ ~panicked
      BY DEF StopOrder
    <3>2. StopOrder'
      BY <3>1 DEF StopOrder
    <3> QED BY <3>1, <3>2 DEF PublisherGone
  <2>2. CASE EngineFails \/ DrainStep
    <3> USE <2>2 DEF EngineFails, DrainStep, StartDrain, EngineReturns, EndDrain,
                     SwapPublisher, ClosePublisher, EngineStays
    <3>1. UNCHANGED <<main, hub, stream, due, store, pidfile, panicked, late>>
      OBVIOUS
    <3>2. StopOrder'
      BY <3>1 DEF StopOrder, Ended
    <3>3. CASE SwapPublisher \/ ClosePublisher
      BY <3>2, <3>3 DEF PublisherGone
    <3>4. CASE EngineFails \/ StartDrain \/ EngineReturns \/ EndDrain
      <4>1. UNCHANGED <<pub, announced, late>> /\ (drain' = drain \/ drain' \in {"drain", "swap"})
        BY <3>4
      <4> QED BY <3>2, <4>1 DEF PublisherGone
    <3> QED BY <3>3, <3>4
  <2>3. ASSUME NEW c \in Calls, CallStep(c) \/ \E val \in BOOLEAN : Accept(c, val)
        PROVE  PublisherGone' /\ StopOrder'
    <3>1. /\ UNCHANGED <<mainVars, engineVars, daemonVars, due, panicked>>
          /\ UNCHANGED <<announced, late>> \/ late' = (late \/ ~pub)
      BY <2>3 DEF CallStep, WriteRoute, PublishChange, SendChange, ListForReload, LoadPointer,
                  SetName, Accept, CallStays, WorkStays
    <3>2. late' \/ UNCHANGED <<announced, late>> \/ pub
      BY <3>1
    <3>3. late => late'
      BY <3>1
    <3> QED BY <3>1, <3>2, <3>3 DEF PublisherGone, StopOrder, Ended
  <2>4. CASE main # "gone" /\ (Tick \/ EndTickers \/ ListForStats \/ PublishTick \/ SendTick)
    <3>1. CASE TickerPanics
      <4>1. hub = "nil" \/ Ended(due)
        BY <2>4, <3>1 DEF StopOrder, Tick, EndTickers, ListForStats, PublishTick, SendTick,
                          TickerStays, TickerPanics
      <4>2. UNCHANGED <<hub, stream, due, store, pidfile, drain, pub, announced, late>>
        BY <3>1 DEF TickerPanics
      <4> QED BY <3>1, <4>1, <4>2 DEF TickerPanics, PublisherGone, StopOrder, Ended
    <3>2. CASE TickerStays
      BY <2>4, <3>2 DEF TickerStays, WorkStays, PublisherGone, StopOrder
    <3> QED BY <2>4, <3>1, <3>2 DEF Tick, EndTickers, ListForStats, PublishTick, SendTick
  <2>7. ASSUME main # "gone", NEW s \in Streams, Subscribe(s) \/ LeaveStream(s)
        PROVE  PublisherGone' /\ StopOrder'
    BY <2>7 DEF Subscribe, LeaveStream, PublisherGone, StopOrder
  <2>5. ASSUME NEW r \in Requests, Forwarded(r) \/ Answered(r) PROVE PublisherGone' /\ StopOrder'
    BY <2>5 DEF Forwarded, Answered, WorkStays, PublisherGone, StopOrder, Ended
  <2>6. CASE UNCHANGED stopVars
    BY <2>6 DEF stopVars, PublisherGone, StopOrder, Ended
  <2> QED BY <2>1, <2>2, <2>3, <2>4, <2>5, <2>6, <2>7 DEF DaemonStopNext
<1>3. PublisherGone /\ StopOrder => EndIsClean
  BY DEF PublisherGone, StopOrder, EndIsClean
<1> QED BY <1>1, <1>2, <1>3, StopTypeCorrect, PTL DEF DaemonStopSpec

-----------------------------------------------------------------------------
(* The prober.                                                             *)

\* What the prober's jobs and routes are made of.
LEMMA Jobs ==
  /\ None \notin Job /\ None \notin Route /\ None \notin {"off", "up", "down"}
  /\ \A h \in Hosts, t \in Targets :
       /\ [host |-> h, target |-> t, verdict |-> None] \in Job
       /\ [host |-> h, target |-> t, verdict |-> None].host = h
       /\ [host |-> h, target |-> t, verdict |-> None].target = t
       /\ [host |-> h, target |-> t, verdict |-> None].verdict = None
  /\ \A j \in Job : j.host \in Hosts /\ j.target \in Targets /\ j.verdict \in {"up", "down", None}
  /\ \A r \in Route : r.target \in Targets /\ r.enabled \in BOOLEAN
BY ProberAssumption DEF Job, Route, Status

\* A verdict changes a job in nothing else.
LEMMA Verdicts ==
  ASSUME NEW j \in Job, NEW v \in {"up", "down"}
  PROVE  /\ [j EXCEPT !.verdict = v] \in Job
         /\ [j EXCEPT !.verdict = v].host = j.host /\ [j EXCEPT !.verdict = v].target = j.target
         /\ [j EXCEPT !.verdict = v].verdict = v
BY DEF Job

\* Every step of the prober keeps the types.
LEMMA ProberTypeStep ==
  ASSUME ProberTypeOK, [ProberNext]_proberVars
  PROVE  ProberTypeOK'
<1> USE DEF ProberTypeOK, worldVars, passVars
<1>1. CASE ListRoutes \/ ListFails \/ CloseJobs \/ GiveUp \/ EndTick \/ Wake \/ Return
  BY <1>1 DEF ListRoutes, ListFails, CloseJobs, GiveUp, EndTick, Wake, Return
<1>2. CASE PruneStates
  BY <1>2 DEF PruneStates
<1>3. ASSUME NEW h \in Hosts, MarkOff(h) PROVE ProberTypeOK'
  BY <1>3 DEF MarkOff, Take, Status
<1>4. ASSUME NEW h \in Hosts, NEW w \in Workers, HandOut(h, w) PROVE ProberTypeOK'
  <2>1. todo[h].target \in Targets
    BY <1>4, Jobs DEF HandOut
  <2>2. [host |-> h, target |-> todo[h].target, verdict |-> None] \in Job
    BY <2>1, Jobs
  <2> QED BY <1>4, <2>2 DEF HandOut, Take
<1>5. ASSUME NEW w \in Workers, Dial(w) PROVE ProberTypeOK'
  <2>1. PICK v \in {"up", "down"} : job' = [job EXCEPT ![w].verdict = v]
    BY <1>5 DEF Dial
  <2>2. job[w] \in Job /\ [job[w] EXCEPT !.verdict = v] \in Job
    BY <1>5, Verdicts DEF Dial
  <2>3. job' = [job EXCEPT ![w] = [job[w] EXCEPT !.verdict = v]]
    BY <2>1
  <2> QED BY <1>5, <2>2, <2>3 DEF Dial
<1>6. ASSUME NEW w \in Workers, StoreVerdict(w) PROVE ProberTypeOK'
  <2>1. job[w].host \in Hosts /\ job[w].verdict \in Status
    BY <1>6, Jobs DEF StoreVerdict, Status
  <2> QED BY <1>6, <2>1 DEF StoreVerdict
<1>7. ASSUME NEW h \in Hosts, NEW r \in Route \cup {None}, ChangeRoute(h, r) PROVE ProberTypeOK'
  BY <1>7, ProberAssumption DEF ChangeRoute
<1>8. ASSUME NEW t \in Targets, ChangeUpstream(t) PROVE ProberTypeOK'
  BY <1>8, ProberAssumption DEF ChangeUpstream
<1>9. CASE CancelProbes \/ UNCHANGED proberVars
  BY <1>9 DEF CancelProbes, proberVars
<1> QED BY <1>1, <1>2, <1>3, <1>4, <1>5, <1>6, <1>7, <1>8, <1>9 DEF ProberNext, TickStep

\* Every variable of the prober has its type.
THEOREM ProberTypeCorrect == ProberSpec => []ProberTypeOK
<1>1. ProberInit => ProberTypeOK
  <2>1. 0 \in 0..MaxMoves
    BY ProberAssumption
  <2> QED BY <2>1 DEF ProberInit, ProberTypeOK
<1> QED BY <1>1, ProberTypeStep, PTL DEF ProberSpec

\* Between two ticks nothing of the last one is left, and only a tick that was
\* told to stop ends without the prune.
BetweenTicks ==
  /\ tick \in {"due", "asleep", "stopped"} => PoolIsIdle
  /\ tick # "feed" => \A h \in Hosts : todo[h] = None
  /\ tick = "end" => cancelled
  /\ \A h \in Hosts : todo[h] # None => h \notin live

\* What a tick has done about a host that stays as it was listed: its route is
\* still to be handed out, or is dialled for, or its state is true.
Probed(h) ==
  /\ h \notin live => todo[h] = routes[h]
  /\ h \in live => routes[h] # None
  /\ \A w \in Workers :
       job[w] # None /\ job[w].host = h =>
         /\ routes[h] # None /\ routes[h].enabled /\ routes[h].target = job[w].target
         /\ job[w].verdict # None => job[w].verdict = Truth(h)
  /\ h \in live /\ (\A w \in Workers : job[w] # None => job[w].host # h) => states[h] = Truth(h)

ProbesAreTrue ==
  tick \in {"feed", "wait"} /\ ~cancelled => \A h \in Hosts \ moved : Probed(h)

ProbeInv == BetweenTicks /\ ProbesAreTrue /\ HealthIsCurrent

\* A step that leaves alone what Probed speaks of.
LEMMA SameProbe ==
  ASSUME NEW h \in Hosts, Probed(h), routes'[h] = routes[h], Truth(h)' = Truth(h),
         states'[h] = states[h], todo'[h] = todo[h], h \in live' <=> h \in live, job' = job
  PROVE  Probed(h)'
BY DEF Probed

\* One listed route has been dealt with.
LEMMA TakenProbe ==
  ASSUME ProberTypeOK, ProbeInv, tick = "feed", ~cancelled, NEW g \in Hosts, NEW h \in Hosts,
         h \notin moved, todo[g] # None, Take(g), routes' = routes, answers' = answers,
         \A w \in Workers : job'[w] = job[w] \/ (job[w] = None /\ job'[w] # None /\ job'[w].host = g),
         states'[h] = states[h], g # h
  PROVE  Probed(h)'
<1>1. Probed(h) /\ Truth(h)' = Truth(h)
  BY DEF ProbeInv, ProbesAreTrue, Truth
<1>2. todo'[h] = todo[h] /\ (h \in live' <=> h \in live)
  BY DEF Take, ProberTypeOK
<1> QED BY <1>1, <1>2 DEF Probed

\* Every step keeps the prober's invariant.
LEMMA ProbeInvStep == ProberTypeOK /\ ProbeInv /\ [ProberNext]_proberVars => ProbeInv'
<1> SUFFICES ASSUME ProberTypeOK, ProbeInv, [ProberNext]_proberVars PROVE ProbeInv'
  OBVIOUS
<1> USE DEF worldVars, passVars
<1>1. CASE ListRoutes
  <2>1. /\ tick' = "feed" /\ todo' = routes /\ live' = {} /\ moved' = {} /\ PoolIsIdle
        /\ UNCHANGED <<routes, answers, job>>
    BY <1>1 DEF ListRoutes, ProbeInv, BetweenTicks
  <2>2. \A h \in Hosts : Probed(h)'
    BY <2>1 DEF Probed, PoolIsIdle
  <2> QED BY <2>1, <2>2 DEF ProbeInv, BetweenTicks, ProbesAreTrue, HealthIsCurrent
<1>2. CASE ListFails \/ GiveUp \/ EndTick \/ Return
  <2>1. /\ cancelled' /\ UNCHANGED <<job, live>> /\ \A h \in Hosts : todo'[h] = None
        /\ tick' \in {"asleep", "end", "stopped"} /\ (tick' # "end" => PoolIsIdle)
    BY <1>2 DEF ListFails, GiveUp, EndTick, Return, ProbeInv, BetweenTicks
  <2> QED BY <2>1 DEF ProbeInv, BetweenTicks, ProbesAreTrue, HealthIsCurrent, PoolIsIdle
<1>3. CASE CloseJobs
  <2>1. /\ tick = "feed" /\ tick' = "wait" /\ \A h \in Hosts : todo[h] = None
        /\ UNCHANGED <<routes, answers, cancelled, states, todo, live, job, moved>>
    BY <1>3 DEF CloseJobs
  <2>2. ASSUME ~cancelled', NEW h \in Hosts \ moved' PROVE Probed(h)'
    BY <2>1, <2>2, SameProbe DEF ProbeInv, ProbesAreTrue, Truth
  <2> QED BY <2>1, <2>2 DEF ProbeInv, BetweenTicks, ProbesAreTrue, HealthIsCurrent
<1>4. CASE Wake
  BY <1>4 DEF Wake, ProbeInv, BetweenTicks, ProbesAreTrue, HealthIsCurrent, PoolIsIdle
<1>5. CASE PruneStates
  <2>1. /\ tick = "wait" /\ tick' = "asleep" /\ PoolIsIdle /\ \A h \in Hosts : todo[h] = None
        /\ \A h \in Hosts : states'[h] = IF h \in live THEN states[h] ELSE None
        /\ UNCHANGED <<routes, answers, cancelled, todo, live, job, moved>>
    BY <1>5 DEF PruneStates, ProbeInv, BetweenTicks
  <2>2. ASSUME ~cancelled, NEW h \in Hosts \ moved PROVE states'[h] = Truth(h)'
    <3>1. Probed(h) /\ Truth(h)' = Truth(h)
      BY <2>1, <2>2 DEF ProbeInv, ProbesAreTrue, Truth
    <3>2. h \notin live => Truth(h) = None
      BY <2>1, <3>1 DEF Probed, Truth
    <3> QED BY <2>1, <3>1, <3>2 DEF Probed, PoolIsIdle
  <2> QED BY <2>1, <2>2 DEF ProbeInv, BetweenTicks, ProbesAreTrue, HealthIsCurrent, PoolIsIdle
<1>6. ASSUME NEW g \in Hosts, MarkOff(g) PROVE ProbeInv'
  <2>1. /\ tick = "feed" /\ tick' = "feed" /\ todo[g] # None /\ ~todo[g].enabled /\ Take(g)
        /\ states' = [states EXCEPT ![g] = "off"]
        /\ UNCHANGED <<routes, answers, cancelled, job, moved>>
    BY <1>6 DEF MarkOff
  <2>2. BetweenTicks'
    BY <2>1 DEF ProbeInv, BetweenTicks, Take, ProberTypeOK
  <2>3. ASSUME ~cancelled, NEW h \in Hosts \ moved PROVE Probed(h)'
    <3>1. CASE h # g
      <4>1. states'[h] = states[h]
        BY <2>1, <3>1 DEF ProberTypeOK
      <4> QED BY <2>1, <2>3, <3>1, <4>1, TakenProbe
    <3>2. CASE h = g
      <4>1. Probed(h) /\ h \notin live /\ Truth(h)' = Truth(h)
        BY <2>1, <2>3, <3>2 DEF ProbeInv, ProbesAreTrue, BetweenTicks, Truth
      <4>2. routes[h] # None /\ ~routes[h].enabled /\ Truth(h) = "off"
        BY <2>1, <3>2, <4>1 DEF Probed, Truth
      <4>3. h \in live' /\ states'[h] = "off"
        BY <2>1, <3>2 DEF Take, ProberTypeOK
      <4> QED BY <2>1, <4>1, <4>2, <4>3 DEF Probed
    <3> QED BY <3>1, <3>2
  <2> QED BY <2>1, <2>2, <2>3 DEF ProbeInv, ProbesAreTrue, HealthIsCurrent
<1>7. ASSUME NEW g \in Hosts, NEW v \in Workers, HandOut(g, v) PROVE ProbeInv'
  <2> DEFINE j == [host |-> g, target |-> todo[g].target, verdict |-> None]
  <2>1. /\ tick = "feed" /\ tick' = "feed" /\ todo[g] # None /\ todo[g].enabled /\ Take(g)
        /\ job[v] = None /\ job' = [job EXCEPT ![v] = j]
        /\ UNCHANGED <<routes, answers, cancelled, states, moved>>
    BY <1>7 DEF HandOut
  <2>2. /\ j # None /\ j.host = g /\ j.target = todo[g].target /\ j.verdict = None
        /\ \A w \in Workers : job'[w] = IF w = v THEN j ELSE job[w]
    BY <2>1, Jobs DEF ProberTypeOK
  <2> HIDE DEF j
  <2>3. BetweenTicks'
    BY <2>1 DEF ProbeInv, BetweenTicks, Take, ProberTypeOK
  <2>4. ASSUME ~cancelled, NEW h \in Hosts \ moved PROVE Probed(h)'
    <3>1. CASE h # g
      BY <2>1, <2>2, <2>4, <3>1, TakenProbe
    <3>2. CASE h = g
      <4>1. Probed(h) /\ h \notin live /\ Truth(h)' = Truth(h)
        BY <2>1, <2>4, <3>2 DEF ProbeInv, ProbesAreTrue, BetweenTicks, Truth
      <4>2. routes[h] = todo[g] /\ h \in live'
        BY <2>1, <3>2, <4>1 DEF Probed, Take
      <4> QED BY <2>1, <2>2, <3>2, <4>1, <4>2 DEF Probed
    <3> QED BY <3>1, <3>2
  <2> QED BY <2>1, <2>3, <2>4 DEF ProbeInv, ProbesAreTrue, HealthIsCurrent
<1>8. ASSUME NEW v \in Workers, Dial(v) PROVE ProbeInv'
  <2>1. PICK r \in {"up", "down"} :
          /\ r = "up" => job[v].target \in answers
          /\ r = "down" => job[v].target \notin answers \/ cancelled
          /\ job' = [job EXCEPT ![v].verdict = r]
    BY <1>8 DEF Dial
  <2>2. /\ job[v] # None /\ UNCHANGED <<routes, answers, cancelled, states, tick, todo, live, passes, moved>>
    BY <1>8 DEF Dial
  <2>3. /\ job'[v] # None /\ job'[v].host = job[v].host /\ job'[v].target = job[v].target
        /\ job'[v].verdict = r
        /\ \A w \in Workers : w # v => job'[w] = job[w]
    <3>1. /\ job[v] \in Job /\ job'[v] = [job[v] EXCEPT !.verdict = r]
          /\ \A w \in Workers : w # v => job'[w] = job[w]
      BY <2>1, <2>2 DEF ProberTypeOK
    <3>2. /\ [job[v] EXCEPT !.verdict = r] \in Job
          /\ [job[v] EXCEPT !.verdict = r].host = job[v].host
          /\ [job[v] EXCEPT !.verdict = r].target = job[v].target
          /\ [job[v] EXCEPT !.verdict = r].verdict = r
      BY <3>1, Verdicts
    <3> DEFINE i == [job[v] EXCEPT !.verdict = r]
    <3> HIDE DEF i
    <3>3. i # None
      BY <3>2, Jobs DEF i
    <3> QED BY <3>1, <3>2, <3>3 DEF i
  <2>4. tick \notin {"due", "asleep", "stopped"}
    BY <2>2 DEF ProbeInv, BetweenTicks, PoolIsIdle
  <2>5. ASSUME ~cancelled, tick \in {"feed", "wait"}, NEW h \in Hosts \ moved PROVE Probed(h)'
    <3>1. Probed(h) /\ Truth(h)' = Truth(h)
      BY <2>2, <2>5 DEF ProbeInv, ProbesAreTrue, Truth
    <3>2. job[v].host = h => routes[h] # None /\ r = Truth(h)
      BY <2>1, <2>2, <2>5, <3>1 DEF Probed, Truth
    <3> QED BY <2>2, <2>3, <3>1, <3>2 DEF Probed
  <2> QED BY <2>2, <2>4, <2>5 DEF ProbeInv, BetweenTicks, ProbesAreTrue, HealthIsCurrent
<1>9. ASSUME NEW v \in Workers, StoreVerdict(v) PROVE ProbeInv'
  <2>1. /\ job[v] # None /\ job[v].verdict # None /\ job[v].host \in Hosts
        /\ states' = [states EXCEPT ![job[v].host] = job[v].verdict]
        /\ \A w \in Workers : job'[w] = IF w = v THEN None ELSE job[w]
        /\ UNCHANGED <<routes, answers, cancelled, tick, todo, live, passes, moved>>
    BY <1>9, Jobs DEF StoreVerdict, ProberTypeOK
  <2>2. tick \notin {"due", "asleep", "stopped"}
    BY <2>1 DEF ProbeInv, BetweenTicks, PoolIsIdle
  <2>3. ASSUME ~cancelled, tick \in {"feed", "wait"}, NEW h \in Hosts \ moved PROVE Probed(h)'
    <3>1. Probed(h) /\ Truth(h)' = Truth(h)
      BY <2>1, <2>3 DEF ProbeInv, ProbesAreTrue, Truth
    <3>2. states'[h] = IF job[v].host = h THEN Truth(h) ELSE states[h]
      BY <2>1, <3>1 DEF Probed, ProberTypeOK
    <3> QED BY <2>1, <3>1, <3>2 DEF Probed
  <2> QED BY <2>1, <2>2, <2>3 DEF ProbeInv, BetweenTicks, ProbesAreTrue, HealthIsCurrent
<1>10. ASSUME UNCHANGED <<cancelled, states, passVars, job>>, moved \subseteq moved',
              \A h \in Hosts \ moved' : routes'[h] = routes[h] /\ Truth(h)' = Truth(h)
       PROVE  ProbeInv'
  <2>1. \A h \in Hosts \ moved' : Probed(h) => Probed(h)'
    BY <1>10, SameProbe
  <2> QED BY <1>10, <2>1 DEF ProbeInv, BetweenTicks, ProbesAreTrue, HealthIsCurrent, PoolIsIdle
<1>11. ASSUME NEW g \in Hosts, NEW r \in Route \cup {None}, ChangeRoute(g, r) PROVE ProbeInv'
  <2>1. \A h \in Hosts \ moved' : routes'[h] = routes[h] /\ Truth(h)' = Truth(h)
    BY <1>11 DEF ChangeRoute, Truth, ProberTypeOK
  <2> QED BY <1>10, <1>11, <2>1 DEF ChangeRoute
<1>12. ASSUME NEW t \in Targets, ChangeUpstream(t) PROVE ProbeInv'
  <2>1. \A h \in Hosts \ moved' : routes'[h] = routes[h] /\ Truth(h)' = Truth(h)
    BY <1>12 DEF ChangeUpstream, Truth
  <2> QED BY <1>10, <1>12, <2>1 DEF ChangeUpstream
<1>13. CASE CancelProbes
  BY <1>13 DEF CancelProbes, ProbeInv, BetweenTicks, ProbesAreTrue, HealthIsCurrent, PoolIsIdle
<1>14. CASE UNCHANGED proberVars
  BY <1>10, <1>14 DEF proberVars, Truth
<1> QED BY <1>1, <1>2, <1>3, <1>4, <1>5, <1>6, <1>7, <1>8, <1>9, <1>11, <1>12, <1>13, <1>14
        DEF ProberNext, TickStep

\* Between two ticks every state is true of a host that has not moved since the
\* tick listed it, for any number of routes, upstreams and goroutines.
THEOREM HealthIsCurrentCorrect == ProberSpec => []HealthIsCurrent
<1>1. ProberInit => ProbeInv
  BY DEF ProberInit, ProbeInv, BetweenTicks, ProbesAreTrue, HealthIsCurrent, PoolIsIdle
<1>2. ProbeInv => HealthIsCurrent
  BY DEF ProbeInv
<1> QED BY <1>1, <1>2, ProberTypeCorrect, ProbeInvStep, PTL DEF ProberSpec

-----------------------------------------------------------------------------
(* Ranks: the place of a number among those of a finite set.               *)

\* What a part leaves of a finite set.
LEMMA Remaining ==
  ASSUME NEW S, NEW T, IsFiniteSet(S), T \subseteq S
  PROVE  Cardinality(S \ T) = Cardinality(S) - Cardinality(T)
<1>1. S \cap T = T
  OBVIOUS
<1>2. Cardinality(S \ T) = Cardinality(S) - Cardinality(S \cap T)
  BY FS_Difference
<1> QED BY <1>1, <1>2

\* A rank is less than the size of the set.
LEMMA RankBound ==
  ASSUME NEW S, IsFiniteSet(S), S \subseteq Int, NEW x \in S
  PROVE  Rank(x, S) \in 0..(Cardinality(S) - 1) /\ Rank(x, S) \in Nat
<1>1. {y \in S : y < x} \in SUBSET (S \ {x})
  OBVIOUS
<1>2. /\ IsFiniteSet(S \ {x}) /\ Cardinality(S \ {x}) = Cardinality(S) - 1 /\ Cardinality(S) \in Nat
  BY FS_RemoveElement, FS_CardinalityType
<1>3. Rank(x, S) <= Cardinality(S) - 1 /\ Rank(x, S) \in Nat
  BY <1>1, <1>2, FS_Subset, FS_CardinalityType DEF Rank
<1> QED BY <1>2, <1>3

\* A larger number has a larger rank.
LEMMA RankGrows ==
  ASSUME NEW S, IsFiniteSet(S), S \subseteq Int, NEW x \in S, NEW y \in S, x < y
  PROVE  Rank(x, S) < Rank(y, S)
<1> DEFINE below(z) == {u \in S : u < z}
<1>1. IsFiniteSet(below(x)) /\ IsFiniteSet(below(y))
  BY FS_Subset
<1>2. x \notin below(x) /\ below(x) \cup {x} \in SUBSET below(y)
  <2>1. x \in Int /\ y \in Int /\ \A u \in S : u \in Int
    OBVIOUS
  <2>2. \A u \in S : u < x => u < y
    BY <2>1
  <2>3. ~(x < x)
    BY <2>1
  <2>4. \A u \in below(x) \cup {x} : u \in S /\ u < y
    BY <2>2
  <2> QED BY <2>3, <2>4
<1>3. Cardinality(below(x) \cup {x}) = Cardinality(below(x)) + 1 /\ Cardinality(below(x)) \in Nat
  BY <1>1, <1>2, FS_AddElement, FS_CardinalityType
<1>4. Cardinality(below(x) \cup {x}) <= Cardinality(below(y)) /\ Cardinality(below(y)) \in Nat
  BY <1>1, <1>2, FS_Subset, FS_CardinalityType
<1> QED BY <1>3, <1>4 DEF Rank

\* No two numbers have one rank.
LEMMA RankInjective ==
  ASSUME NEW S, IsFiniteSet(S), S \subseteq Int, NEW x \in S, NEW y \in S, Rank(x, S) = Rank(y, S)
  PROVE  x = y
<1>1. Rank(x, S) \in Nat /\ Rank(y, S) \in Nat /\ x \in Int /\ y \in Int
  BY RankBound
<1>2. ASSUME x < y PROVE FALSE
  <2>1. Rank(x, S) < Rank(y, S)
    BY <1>2, RankGrows
  <2> QED BY <1>1, <2>1
<1>3. ASSUME y < x PROVE FALSE
  <2>1. Rank(y, S) < Rank(x, S)
    BY <1>3, RankGrows
  <2> QED BY <1>1, <2>1
<1> QED BY <1>1, <1>2, <1>3

\* Every rank below the size of the set is taken.
LEMMA RankTaken ==
  ASSUME NEW S, IsFiniteSet(S), S \subseteq Int, NEW k \in 0..(Cardinality(S) - 1)
  PROVE  \E x \in S : Rank(x, S) = k
<1> DEFINE T == 0..(Cardinality(S) - 1)
           f == [x \in S |-> Rank(x, S)]
<1>1. Cardinality(S) \in Nat /\ IsFiniteSet(T) /\ Cardinality(T) = Cardinality(S)
  BY FS_CardinalityType, FS_Interval
<1>2. f \in Injection(S, T)
  <2>1. f \in [S -> T]
    BY RankBound
  <2>2. \A x, y \in S : f[x] = f[y] => x = y
    BY RankInjective
  <2> QED BY <2>1, <2>2, Fun_IsInj
<1>3. f \in Surjection(S, T)
  BY <1>1, <1>2, FS_Injection
<1> QED BY <1>3 DEF Surjection

-----------------------------------------------------------------------------
(* The menu.                                                               *)

\* The routes row s may take of a list: at most one.
Takers(list, s) ==
  {n \in list : /\ Reached(n, list)
                /\ IF rows[s] # NoRoute THEN rows[s] = n
                   ELSE n \in Waiting(list) /\ Rank(n, Waiting(list)) = Rank(s, FreeRows)}

\* No route has two rows.
OneRowEach == \A s, t \in Rows : s # t /\ rows[s] # NoRoute => rows[s] # rows[t]

\* The sets that a reconciliation ranks are finite sets of integers.
LEMMA MenuSets ==
  ASSUME NEW list \in SUBSET MenuNames
  PROVE  /\ IsFiniteSet(list) /\ IsFiniteSet(Waiting(list)) /\ Waiting(list) \subseteq list
         /\ Waiting(list) \subseteq Int /\ NoRoute \notin list
         /\ IsFiniteSet(FreeRows) /\ FreeRows \subseteq Rows /\ FreeRows \subseteq Int
<1>1. IsFiniteSet(list) /\ list \subseteq Int /\ NoRoute \notin list
  BY BarMenuAssumption, FS_Subset
<1>2. Waiting(list) \in SUBSET list /\ FreeRows \in SUBSET Rows
  BY DEF Waiting, FreeRows
<1>3. IsFiniteSet(Waiting(list)) /\ IsFiniteSet(FreeRows)
  BY <1>1, <1>2, BarMenuAssumption, FS_Subset
<1>4. Rows \subseteq Int
  BY BarMenuAssumption
<1> QED BY <1>1, <1>2, <1>3, <1>4

\* A row gets the route that takes it.
LEMMA TakenRow ==
  ASSUME NEW list \in SUBSET MenuNames, NEW s \in Rows
  PROVE  /\ Binding(list)[s] \in Takers(list, s) \cup {NoRoute}
         /\ \A n \in Takers(list, s) : Binding(list)[s] = n
<1>1. Binding(list)[s] = IF Takers(list, s) = {} THEN NoRoute ELSE CHOOSE n \in Takers(list, s) : TRUE
  BY DEF Binding, Takers, Unbound
<1>2. \A m, n \in Takers(list, s) : m = n
  BY MenuSets, RankInjective DEF Takers
<1> QED BY <1>1, <1>2

\* A Reconcile gives no route two rows.
LEMMA BindingIsInjective ==
  ASSUME NEW list \in SUBSET MenuNames, OneRowEach, NEW s \in Rows, NEW t \in Rows, s # t,
         Binding(list)[s] # NoRoute
  PROVE  Binding(list)[s] # Binding(list)[t]
<1> SUFFICES ASSUME NEW n \in Takers(list, s), n \in Takers(list, t) PROVE FALSE
  BY TakenRow
<1>1. CASE rows[s] # NoRoute /\ rows[t] # NoRoute
  BY <1>1 DEF OneRowEach, Takers
<1>2. CASE rows[s] = NoRoute /\ rows[t] = NoRoute
  <2>1. s \in FreeRows /\ t \in FreeRows /\ Rank(s, FreeRows) = Rank(t, FreeRows)
    BY <1>2 DEF FreeRows, Takers
  <2> QED BY <2>1, MenuSets, RankInjective
<1>3. CASE (rows[s] = NoRoute) # (rows[t] = NoRoute)
  BY <1>3 DEF Takers, Waiting
<1> QED BY <1>1, <1>2, <1>3

\* If no row is bound to a route that has gone and there are enough rows, every
\* route of the list gets one.
LEMMA BindingIsComplete ==
  ASSUME MenuTypeOK, NEW list \in SUBSET MenuNames, OneRowEach,
         \A s \in Rows : rows[s] # NoRoute => rows[s] \in list,
         Cardinality(list) <= Cardinality(Rows), NEW n \in list
  PROVE  \E s \in Rows : Binding(list)[s] = n
<1> DEFINE bound == Rows \ FreeRows
           kept == list \ Waiting(list)
           f == [s \in bound |-> rows[s]]
<1>1. /\ IsFiniteSet(list) /\ IsFiniteSet(Waiting(list)) /\ Waiting(list) \subseteq list
      /\ Waiting(list) \subseteq Int
      /\ IsFiniteSet(FreeRows) /\ FreeRows \subseteq Rows /\ FreeRows \subseteq Int /\ IsFiniteSet(Rows)
  BY MenuSets, BarMenuAssumption
<1>2. Cardinality(Waiting(list)) <= Cardinality(FreeRows)
  <2>1. f \in Bijection(bound, kept)
    <3>1. f \in [bound -> kept]
      BY DEF FreeRows, Waiting, MenuTypeOK
    <3>2. \A s, t \in bound : f[s] = f[t] => s = t
      BY DEF OneRowEach, FreeRows
    <3>3. \A m \in kept : \E s \in bound : f[s] = m
      <4> SUFFICES ASSUME NEW m \in kept PROVE \E s \in bound : f[s] = m
        OBVIOUS
      <4>1. PICK s \in Rows : rows[s] = m
        BY DEF Waiting
      <4>2. m # NoRoute
        BY MenuSets
      <4> QED BY <4>1, <4>2 DEF FreeRows
    <3> QED BY <3>1, <3>2, <3>3, Fun_IsBij
  <2>2. IsFiniteSet(bound) /\ Cardinality(kept) = Cardinality(bound)
    BY <1>1, <2>1, FS_Subset, FS_Bijection DEF ExistsBijection
  <2>3. Cardinality(bound) = Cardinality(Rows) - Cardinality(FreeRows)
    BY <1>1, Remaining
  <2>4. Cardinality(kept) = Cardinality(list) - Cardinality(Waiting(list))
    BY <1>1, Remaining
  <2>5. /\ Cardinality(list) \in Nat /\ Cardinality(Waiting(list)) \in Nat
        /\ Cardinality(Rows) \in Nat /\ Cardinality(FreeRows) \in Nat
    BY <1>1, FS_CardinalityType
  <2> HIDE DEF bound, kept
  <2> QED BY <2>2, <2>3, <2>4, <2>5
<1>3. Cardinality(Waiting(list)) \in Nat /\ Cardinality(FreeRows) \in Nat
  BY <1>1, FS_CardinalityType
<1>4. Reached(n, list)
  <2>1. {m \in Waiting(list) : m <= n} \in SUBSET Waiting(list)
    OBVIOUS
  <2>2. /\ Cardinality({m \in Waiting(list) : m <= n}) <= Cardinality(Waiting(list))
        /\ Cardinality({m \in Waiting(list) : m <= n}) \in Nat
    BY <1>1, <2>1, FS_Subset, FS_CardinalityType
  <2> QED BY <1>2, <1>3, <2>2 DEF Reached
<1>5. CASE n \notin Waiting(list)
  <2>1. PICK s \in Rows : rows[s] = n
    BY <1>5 DEF Waiting
  <2>2. n \in Takers(list, s)
    BY <1>4, <2>1, MenuSets DEF Takers
  <2> QED BY <2>2, TakenRow
<1>6. CASE n \in Waiting(list)
  <2>1. Rank(n, Waiting(list)) \in 0..(Cardinality(Waiting(list)) - 1)
    BY <1>1, <1>6, RankBound
  <2>2. Rank(n, Waiting(list)) \in 0..(Cardinality(FreeRows) - 1)
    BY <1>2, <1>3, <2>1
  <2>3. PICK s \in FreeRows : Rank(s, FreeRows) = Rank(n, Waiting(list))
    BY <1>1, <2>2, RankTaken
  <2>4. s \in Rows /\ n \in Takers(list, s)
    BY <1>4, <1>6, <2>3 DEF Takers, FreeRows
  <2> QED BY <2>4, TakenRow
<1> QED BY <1>5, <1>6

\* Every variable of the menu has its type.
THEOREM MenuTypeCorrect == MenuSpec => []MenuTypeOK
<1>1. MenuInit => MenuTypeOK
  <2> SUFFICES ASSUME MenuInit PROVE MenuTypeOK
    OBVIOUS
  <2>1. snap \in [up : BOOLEAN, routes : SUBSET MenuNames] /\ rows \in [Rows -> MenuNames \cup {NoRoute}]
    BY DEF MenuInit
  <2> QED BY <2>1 DEF MenuInit, MenuTypeOK
<1>2. MenuTypeOK /\ [MenuNext]_menuVars => MenuTypeOK'
  <2> SUFFICES ASSUME MenuTypeOK, [MenuNext]_menuVars PROVE MenuTypeOK'
    OBVIOUS
  <2> USE DEF MenuTypeOK, stateVars, drawVars, footVars
  <2>1. CASE \E w \in Writers : Write(w) \/ MarkDirty(w)
    BY <2>1 DEF Write, MarkDirty
  <2>2. CASE WakeLoop \/ Absorb
    BY <2>2 DEF WakeLoop, Absorb
  <2>3. CASE Reconcile
    <3>1. rows' \in [Rows -> MenuNames \cup {NoRoute}]
      <4>1. mirrored \in SUBSET MenuNames /\ rows' = Binding(mirrored)
        BY <2>3 DEF Reconcile
      <4>2. \A s \in Rows : Binding(mirrored)[s] \in MenuNames \cup {NoRoute}
        BY <4>1, TakenRow DEF Takers
      <4>3. Binding(mirrored) = [s \in Rows |-> Binding(mirrored)[s]]
        BY DEF Binding
      <4> QED BY <4>1, <4>2, <4>3
    <3>2. displaced' \in BOOLEAN
      <4>1. (\E s \in Rows : rows[s] # NoRoute /\ rows[s] \notin mirrored) \in BOOLEAN
        OBVIOUS
      <4> QED BY <2>3, <4>1, Zenon DEF Reconcile
    <3> QED BY <2>3, <3>1, <3>2 DEF Reconcile
  <2>4. CASE Draw \/ ClickToggle \/ JobEnds
    BY <2>4 DEF Draw, ClickToggle, JobEnds
  <2>5. CASE UNCHANGED menuVars
    BY <2>5 DEF menuVars
  <2> QED BY <2>1, <2>2, <2>3, <2>4, <2>5 DEF MenuNext
<1> QED BY <1>1, <1>2, PTL DEF MenuSpec

\* A change is drawn, or there is a token, or a writer will put one in.
ChangeIsNoted ==
  marking = {} /\ ~dirty /\ loop \in {"wait", "bound"} => snap = [up |-> up, routes |-> mirrored]

\* The item is out of reach only while a job is under way or after it has ended.
ToggleIsOwed == pending \/ enabled \/ ended

MenuInv == ChangeIsNoted /\ RowsShowRoutes /\ ToggleIsOwed

\* After a reconciliation the rows show the listed routes.
LEMMA ReconcileShows ==
  ASSUME MenuTypeOK, RowsShowRoutes, Reconcile
  PROVE  RowsShowRoutes'
<1>1. /\ mirrored \in SUBSET MenuNames /\ snap'.routes = mirrored
      /\ rows' = Binding(mirrored)
      /\ ~displaced' => \A s \in Rows : rows[s] # NoRoute => rows[s] \in mirrored
  BY DEF Reconcile, MenuTypeOK
<1>2. OneRowEach
  BY DEF RowsShowRoutes, OneRowEach
<1>3. \A s, t \in Rows : s # t /\ rows'[s] # NoRoute => rows'[s] # rows'[t]
  BY <1>1, <1>2, BindingIsInjective
<1>4. {rows'[s] : s \in Rows} \ {NoRoute} \subseteq snap'.routes
  BY <1>1, TakenRow DEF Takers
<1>5. ASSUME ~displaced', Cardinality(snap'.routes) <= Cardinality(Rows)
      PROVE  {rows'[s] : s \in Rows} \ {NoRoute} = snap'.routes
  <2>1. \A n \in mirrored : \E s \in Rows : rows'[s] = n
    BY <1>1, <1>2, <1>5, BindingIsComplete
  <2>2. NoRoute \notin mirrored
    BY <1>1, MenuSets
  <2> QED BY <1>1, <1>4, <2>1, <2>2
<1> QED BY <1>3, <1>4, <1>5 DEF RowsShowRoutes

\* Every step keeps the menu's invariant.
LEMMA MenuInvStep == MenuTypeOK /\ MenuInv /\ [MenuNext]_menuVars => MenuInv'
<1> SUFFICES ASSUME MenuTypeOK, MenuInv, [MenuNext]_menuVars PROVE MenuInv'
  OBVIOUS
<1> USE DEF stateVars, drawVars, footVars
<1>1. RowsShowRoutes'
  <2>1. CASE UNCHANGED <<rows, snap, displaced>>
    BY <2>1 DEF MenuInv, RowsShowRoutes
  <2>2. UNCHANGED <<rows, snap, displaced>> \/ Reconcile
    BY DEF MenuNext, Write, MarkDirty, WakeLoop, Absorb, Draw, ClickToggle, JobEnds, menuVars
  <2> QED BY <2>1, <2>2, ReconcileShows DEF MenuInv
<1>2. ChangeIsNoted'
  <2>1. CASE \E w \in Writers : Write(w) \/ MarkDirty(w)
    <3>1. PICK w \in Writers : Write(w) \/ MarkDirty(w)
      BY <2>1
    <3>2. marking' # {} \/ dirty'
      BY <3>1 DEF Write, MarkDirty
    <3> QED BY <3>2 DEF ChangeIsNoted
  <2>2. CASE WakeLoop \/ Absorb
    BY <2>2 DEF WakeLoop, Absorb, ChangeIsNoted
  <2>3. CASE Reconcile
    BY <2>3 DEF Reconcile, ChangeIsNoted
  <2>4. CASE Draw \/ ClickToggle \/ JobEnds \/ UNCHANGED menuVars
    BY <2>4 DEF Draw, ClickToggle, JobEnds, menuVars, MenuInv, ChangeIsNoted
  <2> QED BY <2>1, <2>2, <2>3, <2>4 DEF MenuNext
<1>3. ToggleIsOwed'
  <2>1. CASE UNCHANGED footVars
    BY <2>1 DEF MenuInv, ToggleIsOwed
  <2>2. CASE Draw
    <3>1. enabled' = ~pending /\ pending' = pending
      BY <2>2 DEF Draw
    <3> QED BY <3>1, Zenon DEF ToggleIsOwed
  <2>3. CASE ClickToggle \/ JobEnds
    BY <2>3 DEF ClickToggle, JobEnds, ToggleIsOwed
  <2>4. UNCHANGED footVars \/ Draw \/ ClickToggle \/ JobEnds
    BY DEF MenuNext, Write, MarkDirty, WakeLoop, Absorb, Reconcile, menuVars
  <2> QED BY <2>1, <2>2, <2>3, <2>4
<1> QED BY <1>1, <1>2, <1>3 DEF MenuInv

\* The menu's invariant: a change that is not drawn has a token or a writer that
\* will put one in, the rows show the snapshot's routes, and a toggle that is out
\* of reach has a job that gives it back.
THEOREM MenuInvCorrect == MenuSpec => []MenuInv
<1>1. MenuInit => MenuInv
  <2> SUFFICES ASSUME MenuInit PROVE MenuInv
    OBVIOUS
  <2>1. {rows[s] : s \in Rows} \ {NoRoute} = {} /\ snap.routes = {}
    BY DEF MenuInit
  <2>2. RowsShowRoutes
    BY <2>1 DEF MenuInit, RowsShowRoutes
  <2> QED BY <2>2 DEF MenuInit, MenuInv, ChangeIsNoted, ToggleIsOwed
<1> QED BY <1>1, MenuTypeCorrect, MenuInvStep, PTL DEF MenuSpec

\* The single token of the dirty channel loses no change, and the rows show the
\* routes: for any number of writers, routes and rows.
THEOREM MenuIsCurrentCorrect == MenuSpec => []MenuIsCurrent
<1>1. MenuInv => MenuIsCurrent
  BY DEF MenuInv, ChangeIsNoted, MenuIsCurrent, DrawsTheState, MenuAtRest
<1> QED BY <1>1, MenuInvCorrect, PTL

\* The footer's item comes back, unless the job has ended after the last Reconcile.
THEOREM ToggleComesBackCorrect == MenuSpec => []ToggleComesBack
<1>1. MenuInv => ToggleComesBack
  BY DEF MenuInv, ToggleIsOwed, ToggleComesBack
<1> QED BY <1>1, MenuInvCorrect, PTL

-----------------------------------------------------------------------------
(* The three together.                                                     *)

\* In what MCView composes the menu and the end of the daemon behave as they do
\* alone, so what is proved of them holds there.
THEOREM ViewBehaves == MCSpec => MenuSpec /\ DaemonStopSpec
<1>1. MCInit => MenuInit /\ StopInit
  BY DEF MCInit
<1>2. [MCNext]_<<part, proberVars, menuVars, stopVars>> => [MenuNext]_menuVars
  BY DEF MCNext
<1>3. [MCNext]_<<part, proberVars, menuVars, stopVars>> => [DaemonStopNext]_stopVars
  BY DEF MCNext
<1> QED BY <1>1, <1>2, <1>3, PTL DEF MCSpec, MenuSpec, DaemonStopSpec

\* All the variables of the three parts have their types, those of the prober
\* that has stopped before the others begin too.
THEOREM ViewTypeCorrect == MCSpec => []TypesOK
<1>1. MCInit => ProberTypeOK
  <2>1. 0 \in 0..MaxMoves
    BY ProberAssumption
  <2>2. ProberInit => ProberTypeOK
    BY <2>1 DEF ProberInit, ProberTypeOK
  <2>3. ProberStays => ProberTypeOK
    BY <2>1 DEF ProberStays, ProberTypeOK
  <2> QED BY <2>2, <2>3 DEF MCInit
<1>2. [MCNext]_<<part, proberVars, menuVars, stopVars>> => [ProberNext]_proberVars
  BY DEF MCNext
<1>3. MCSpec => []ProberTypeOK
  BY <1>1, <1>2, ProberTypeStep, PTL DEF MCSpec
<1> QED BY <1>3, ViewBehaves, MenuTypeCorrect, StopTypeCorrect, PTL DEF TypesOK

\* What is proved of the prober holds in what MCView composes too, where it may
\* have stopped before the others begin.
THEOREM ViewHealthCorrect == MCSpec => []HealthIsCurrent
<1>1. MCInit => ProberTypeOK /\ ProbeInv
  <2>1. 0 \in 0..MaxMoves
    BY ProberAssumption
  <2>2. ProberInit => ProberTypeOK /\ ProbeInv
    BY <2>1 DEF ProberInit, ProberTypeOK, ProbeInv, BetweenTicks, ProbesAreTrue, HealthIsCurrent, PoolIsIdle
  <2>3. ProberStays => ProberTypeOK /\ ProbeInv
    BY <2>1 DEF ProberStays, ProberTypeOK, ProbeInv, BetweenTicks, ProbesAreTrue, HealthIsCurrent, PoolIsIdle
  <2> QED BY <2>2, <2>3 DEF MCInit
<1>2. [MCNext]_<<part, proberVars, menuVars, stopVars>> => [ProberNext]_proberVars
  BY DEF MCNext
<1>3. ProbeInv => HealthIsCurrent
  BY DEF ProbeInv
<1> QED BY <1>1, <1>2, <1>3, ProberTypeStep, ProbeInvStep, PTL DEF MCSpec
===============================================================================
