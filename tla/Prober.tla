-------------------------------- MODULE Prober -------------------------------
(***************************************************************************)
(* The prober (internal/proxy/prober/prober.go): at every tick it lists    *)
(* the routes, hands the enabled ones to a pool of goroutines that dial    *)
(* their upstreams, waits for all of them and drops the states of routes   *)
(* it did not see.  Routes change and upstreams come and go meanwhile, and *)
(* the daemon cancels the context when it stops.                           *)
(*                                                                         *)
(* An upstream is the target of a route; a target that does not parse is   *)
(* one that never answers.  Every dial ends: it has a timeout.             *)
(***************************************************************************)
EXTENDS Naturals

CONSTANTS
  Hosts,       \* domains, lower case
  Targets,     \* upstreams a route may have
  Workers,     \* probePoolSize goroutines (8 in the code)
  None,        \* no route, no state, no job
  MaxMoves     \* bound on the moves of routes and upstreams (model only)

Route == [target : Targets, enabled : BOOLEAN]
Status == {"off", "up", "down"}
Job == [host : Hosts, target : Targets, verdict : {"up", "down", None}]

ASSUME ProberAssumption ==
  /\ None \notin Hosts \cup Targets \cup Status
  /\ None \notin Route /\ None \notin Job
  /\ MaxMoves \in Nat

VARIABLES
  routes,     \* the store: [Hosts -> Route or None]
  answers,    \* the upstreams that accept connections
  cancelled,  \* the context is done
  states,     \* p.states: [Hosts -> Status or None]
  tick,       \* where Run is
  todo,       \* the listed routes not handed out yet: [Hosts -> Route or None]
  live,       \* the hosts this tick has come to
  job,        \* [Workers -> None, or the host, the target and the verdict]
  passes,     \* history: has a tick come to its end
  moved,      \* history: hosts disturbed since the routes were last listed
  moves       \* moves so far

passVars == <<tick, todo, live, passes>>
worldVars == <<routes, answers, moves>>
proberVars == <<worldVars, cancelled, states, passVars, job, moved>>

ProberTypeOK ==
  /\ routes \in [Hosts -> Route \cup {None}] /\ todo \in [Hosts -> Route \cup {None}]
  /\ answers \subseteq Targets
  /\ cancelled \in BOOLEAN /\ passes \in BOOLEAN
  /\ states \in [Hosts -> Status \cup {None}]
  /\ tick \in {"due", "feed", "wait", "end", "asleep", "stopped"}
  /\ live \subseteq Hosts /\ moved \subseteq Hosts
  /\ job \in [Workers -> Job \cup {None}]
  /\ moves \in 0..MaxMoves

\* New.  The routes are those of the daemon's last life.
ProberInit ==
  /\ routes \in [Hosts -> Route \cup {None}]
  /\ answers \in SUBSET Targets
  /\ cancelled = FALSE /\ passes = FALSE
  /\ states = [h \in Hosts |-> None]
  /\ tick = "due" /\ todo = [h \in Hosts |-> None] /\ live = {}
  /\ job = [w \in Workers |-> None]
  /\ moved = {} /\ moves = 0

-----------------------------------------------------------------------------
(* Run and tick.                                                           *)

\* p.routes(): a tick works on the routes as they are now.
ListRoutes ==
  /\ tick = "due"
  /\ tick' = "feed" /\ todo' = routes /\ live' = {} /\ moved' = {}
  /\ UNCHANGED <<worldVars, cancelled, states, passes, job>>

\* The list cannot be read: the tick does nothing.  A store fails to list only
\* while it is being closed.
ListFails ==
  /\ tick = "due" /\ cancelled
  /\ tick' = "asleep"
  /\ UNCHANGED <<worldVars, cancelled, states, todo, live, passes, job, moved>>

Take(h) == todo' = [todo EXCEPT ![h] = None] /\ live' = live \cup {h}

MarkOff(h) ==
  /\ tick = "feed" /\ todo[h] # None /\ ~todo[h].enabled
  /\ Take(h)
  /\ states' = [states EXCEPT ![h] = "off"]
  /\ UNCHANGED <<worldVars, cancelled, tick, passes, job, moved>>

\* jobs is not buffered: a route goes straight to a goroutine that waits.
HandOut(h, w) ==
  /\ tick = "feed" /\ todo[h] # None /\ todo[h].enabled
  /\ job[w] = None
  /\ Take(h)
  /\ job' = [job EXCEPT ![w] = [host |-> h, target |-> todo[h].target, verdict |-> None]]
  /\ UNCHANGED <<worldVars, cancelled, states, tick, passes, moved>>

CloseJobs ==
  /\ tick = "feed" /\ \A h \in Hosts : todo[h] = None
  /\ tick' = "wait"
  /\ UNCHANGED <<worldVars, cancelled, states, todo, live, passes, job, moved>>

\* ctx.Done while a route waits for a goroutine: the rest is not probed, the
\* tick ends without the prune.
GiveUp ==
  /\ tick = "feed" /\ cancelled
  /\ \E h \in Hosts : todo[h] # None /\ todo[h].enabled
  /\ tick' = "end" /\ todo' = [h \in Hosts |-> None]
  /\ UNCHANGED <<worldVars, cancelled, states, live, passes, job, moved>>

PoolIsIdle == \A w \in Workers : job[w] = None

\* Mutant: no wg.Wait.
PruneAtOnce ==
  /\ tick = "wait"
  /\ tick' = "asleep" /\ passes' = TRUE
  /\ states' = [h \in Hosts |-> IF h \in live THEN states[h] ELSE None]
  /\ UNCHANGED <<worldVars, cancelled, todo, live, job, moved>>

\* Mutant: states of routes that are gone stay.
PruneNothing ==
  /\ tick = "wait" /\ PoolIsIdle
  /\ tick' = "asleep" /\ passes' = TRUE
  /\ UNCHANGED <<worldVars, cancelled, states, todo, live, job, moved>>

\* wg.Wait, and the states of hosts this tick has not come to go.
PruneStates ==
  /\ tick = "wait" /\ PoolIsIdle
  /\ tick' = "asleep" /\ passes' = TRUE
  /\ states' = [h \in Hosts |-> IF h \in live THEN states[h] ELSE None]
  /\ UNCHANGED <<worldVars, cancelled, todo, live, job, moved>>

\* wg.Wait of a tick that gave up.
EndTick ==
  /\ tick = "end" /\ PoolIsIdle
  /\ tick' = "asleep"
  /\ UNCHANGED <<worldVars, cancelled, states, todo, live, passes, job, moved>>

\* The ticker fires; when the context is done as well, select may take either.
Wake ==
  /\ tick = "asleep"
  /\ tick' = "due"
  /\ UNCHANGED <<worldVars, cancelled, states, todo, live, passes, job, moved>>

Return ==
  /\ tick = "asleep" /\ cancelled
  /\ tick' = "stopped"
  /\ UNCHANGED <<worldVars, cancelled, states, todo, live, passes, job, moved>>

TickStep ==
  \/ ListRoutes \/ ListFails \/ CloseJobs \/ GiveUp \/ PruneStates \/ EndTick \/ Wake
  \/ \E h \in Hosts : MarkOff(h) \/ \E w \in Workers : HandOut(h, w)

-----------------------------------------------------------------------------
(* probe.                                                                  *)

\* Mutant: neither a timeout nor the context ends a dial.
DialForEver(w) ==
  /\ job[w] # None /\ job[w].verdict = None /\ job[w].target \in answers
  /\ job' = [job EXCEPT ![w].verdict = "up"]
  /\ UNCHANGED <<worldVars, cancelled, states, passVars, moved>>

\* The dial ends: with what the upstream does now, and with a failure when the
\* context is done.
Dial(w) ==
  /\ job[w] # None /\ job[w].verdict = None
  /\ \E v \in {"up", "down"} :
       /\ v = "up" => job[w].target \in answers
       /\ v = "down" => job[w].target \notin answers \/ cancelled
       /\ job' = [job EXCEPT ![w].verdict = v]
  /\ UNCHANGED <<worldVars, cancelled, states, passVars, moved>>

StoreVerdict(w) ==
  /\ job[w] # None /\ job[w].verdict # None
  /\ states' = [states EXCEPT ![job[w].host] = job[w].verdict]
  /\ job' = [job EXCEPT ![w] = None]
  /\ UNCHANGED <<worldVars, cancelled, passVars, moved>>

-----------------------------------------------------------------------------
(* The daemon and the upstreams.                                           *)

\* A route is added, edited or removed.
ChangeRoute(h, r) ==
  /\ moves < MaxMoves /\ routes[h] # r
  /\ routes' = [routes EXCEPT ![h] = r]
  /\ moved' = moved \cup {h} /\ moves' = moves + 1
  /\ UNCHANGED <<answers, cancelled, states, passVars, job>>

\* The upstream at t starts or stops.
ChangeUpstream(t) ==
  /\ moves < MaxMoves
  /\ answers' = IF t \in answers THEN answers \ {t} ELSE answers \cup {t}
  /\ moved' = moved \cup {h \in Hosts : routes[h] # None /\ routes[h].target = t}
  /\ moves' = moves + 1
  /\ UNCHANGED <<routes, cancelled, states, passVars, job>>

CancelProbes ==
  /\ ~cancelled
  /\ cancelled' = TRUE
  /\ UNCHANGED <<worldVars, states, passVars, job, moved>>

ProberNext ==
  \/ TickStep \/ Return
  \/ \E w \in Workers : Dial(w) \/ StoreVerdict(w)
  \/ \E h \in Hosts, r \in Route \cup {None} : ChangeRoute(h, r)
  \/ \E t \in Targets : ChangeUpstream(t)
  \/ CancelProbes

\* The goroutines run and a dial ends by its timeout.  When the context is done
\* and the ticker has fired, select takes Done in the long run.
ProberFairness ==
  /\ WF_proberVars(TickStep) /\ SF_proberVars(Return)
  /\ \A w \in Workers : WF_proberVars(Dial(w) \/ StoreVerdict(w))

ProberSpec == ProberInit /\ [][ProberNext]_proberVars /\ ProberFairness

-----------------------------------------------------------------------------
(* Properties.                                                             *)

\* What Health should say of h.
Truth(h) ==
  CASE routes[h] = None -> None
    [] routes[h] # None /\ ~routes[h].enabled -> "off"
    [] OTHER -> IF routes[h].target \in answers THEN "up" ELSE "down"

\* Between two ticks every host has the state that is true of it, none if it
\* has no route, unless its route or its upstream has moved since the tick
\* listed the routes: a verdict that comes late is of a route that moved, and
\* goes with the next tick (prober.go:118-181).
HealthIsCurrent ==
  (tick = "asleep" /\ passes /\ ~cancelled) =>
    \A h \in Hosts \ moved : states[h] = Truth(h)

\* Once routes and upstreams stay as they are every state becomes true and
\* stays so, unless the daemon stops (prober.go:104-116).
HealthCatchesUp == <>[](cancelled \/ \A h \in Hosts : states[h] = Truth(h))

\* A prober told to stop stops: no tick waits for ever for a goroutine, and no
\* goroutine is left behind (prober.go:143-152).
ProberStops == cancelled ~> [](tick = "stopped" /\ PoolIsIdle)
=============================================================================
