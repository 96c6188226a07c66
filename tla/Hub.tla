--------------------------------- MODULE Hub ---------------------------------
(***************************************************************************)
(* The SSE hub of the daemon (internal/daemon/sse.go), the handler that    *)
(* feeds one connection from it (handlers_events.go) and the goroutines    *)
(* that publish (the route mutators, RunStatusTicker, runStatsTicker).     *)
(*                                                                         *)
(* The mutators are ONE source: they hold d.mu through Publish, so at most *)
(* one of them publishes at a time (RouteDaemon shows this).  A source in  *)
(* Recovered runs under Recoverer, which turns a panic into a 500; a panic *)
(* of any other source ends the process.  Every subscriber is one          *)
(* connection: ids, and with them channels, are never reused.              *)
(***************************************************************************)
EXTENDS Naturals, Sequences, FiniteSets

CONSTANTS Sources,      \* publishing goroutines
          Recovered,    \* the sources whose panics Recoverer catches
          Subscribers,  \* SSE connections
          Leavers,      \* those whose peer may go away (all, in the code)
          Cap,          \* hubChannelCap
          MaxEvents,    \* [Sources -> bound on the events it publishes] (model only)
          Nobody        \* "no subscriber"

ASSUME HubAssumption ==
  /\ Recovered \subseteq Sources /\ Leavers \subseteq Subscribers
  /\ Cap \in Nat \ {0}
  /\ MaxEvents \in [Sources -> Nat]
  /\ Nobody \notin Subscribers

VARIABLES
  up,       \* the daemon process runs
  closed,   \* Hub.closed
  subs,     \* keys of Hub.subs, the registered subscribers
  conn,     \* [Subscribers -> state of its handleEvents goroutine]
  queue,    \* [Subscribers -> content of its channel]
  shut,     \* subscribers whose channel has been closed
  issued,   \* [Sources -> number of the event it published last]
  todo,     \* [Sources -> subscribers of the snapshot not served yet]
  at,       \* [Sources -> subscriber whose full channel it is handling]
  stage,    \* [Sources -> where in Publish it is]
  since,    \* history: issued at the time a subscriber registered
  seen,     \* history: [Subscribers -> [Sources -> number of the last event received]]
  handed,   \* history: [Subscribers -> [Sources -> how many it received]]
  full,     \* history: subscribers whose channel was found full
  cut       \* history: [Subscribers -> [Sources -> events a panic kept from it]]

hubVars == <<closed, subs, shut>>
sourceVars == <<issued, todo, at, stage>>
connVars == <<conn, seen, handed, since>>
vars == <<up, hubVars, connVars, queue, sourceVars, full, cut>>

Event == [src : Sources, n : Nat \ {0}]
PerSource == [Sources -> Nat]
ConnState == {"idle", "streaming", "writing", "leaving", "gone"}
Stage == {"idle", "offer", "drop", "retry", "panicked"}

TypeOK ==
  /\ up \in BOOLEAN /\ closed \in BOOLEAN
  /\ subs \subseteq Subscribers /\ shut \subseteq Subscribers
  /\ conn \in [Subscribers -> ConnState]
  /\ queue \in [Subscribers -> Seq(Event)]
  /\ \A s \in Subscribers : Len(queue[s]) <= Cap
  /\ issued \in PerSource
  /\ \A p \in Sources : issued[p] <= MaxEvents[p]
  /\ todo \in [Sources -> SUBSET Subscribers]
  /\ at \in [Sources -> Subscribers \cup {Nobody}]
  /\ stage \in [Sources -> Stage]
  /\ since \in [Subscribers -> PerSource] /\ seen \in [Subscribers -> PerSource]
  /\ handed \in [Subscribers -> PerSource] /\ cut \in [Subscribers -> PerSource]
  /\ full \subseteq Subscribers

Init ==
  /\ up = TRUE /\ closed = FALSE
  /\ subs = {} /\ shut = {} /\ full = {}
  /\ conn = [s \in Subscribers |-> "idle"]
  /\ queue = [s \in Subscribers |-> <<>>]
  /\ issued = [p \in Sources |-> 0]
  /\ since = [s \in Subscribers |-> issued]
  /\ seen = since /\ handed = since /\ cut = since
  /\ todo = [p \in Sources |-> {}]
  /\ at = [p \in Sources |-> Nobody]
  /\ stage = [p \in Sources |-> "idle"]

-----------------------------------------------------------------------------
(* Publish.  The snapshot is taken under h.mu; everything after it runs    *)
(* without the lock.  Map iteration order is arbitrary.                    *)

\* Mutant: leave out the subscribers that have a backlog.
RegisteredWithoutBacklog == {s \in subs : queue[s] = <<>>}

Registered == subs

Snapshot(p) ==
  /\ up /\ stage[p] = "idle" /\ issued[p] < MaxEvents[p]
  /\ issued' = [issued EXCEPT ![p] = @ + 1]
  /\ todo' = [todo EXCEPT ![p] = Registered]
  /\ stage' = [stage EXCEPT ![p] = IF Registered = {} THEN "idle" ELSE "offer"]
  /\ UNCHANGED <<up, hubVars, connVars, queue, at, full, cut>>

\* Mutant: a second send starts over with the same subscriber.
AdvanceAgain(p, s) ==
  /\ todo' = IF stage[p] = "retry" THEN todo ELSE [todo EXCEPT ![p] = @ \ {s}]
  /\ at' = [at EXCEPT ![p] = Nobody]
  /\ stage' = [stage EXCEPT ![p] = IF todo'[p] = {} THEN "idle" ELSE "offer"]

\* Where Publish goes once it is finished with subscriber s.
Advance(p, s) ==
  /\ todo' = [todo EXCEPT ![p] = @ \ {s}]
  /\ at' = [at EXCEPT ![p] = Nobody]
  /\ stage' = [stage EXCEPT ![p] = IF todo'[p] = {} THEN "idle" ELSE "offer"]

\* A send on a closed channel panics and leaves the rest of the snapshot
\* unserved.
Panic(p, t) ==
  /\ todo' = [todo EXCEPT ![p] = {}]
  /\ at' = [at EXCEPT ![p] = Nobody]
  /\ stage' = [stage EXCEPT ![p] = IF p \in Recovered THEN "idle" ELSE "panicked"]
  /\ up' = (p \in Recovered)
  /\ cut' = [s \in Subscribers |->
               IF s \in (todo[p] \cap subs) \ {t} THEN [cut[s] EXCEPT ![p] = @ + 1] ELSE cut[s]]
  /\ UNCHANGED <<hubVars, connVars, queue, issued, full>>

\* Mutant: one event too many.
HasRoomOffByOne(s) == Len(queue[s]) <= Cap

HasRoom(s) == Len(queue[s]) < Cap

Enqueue(p, s) == queue' = [queue EXCEPT ![s] = Append(@, [src |-> p, n |-> issued[p]])]

\* Mutant: a blocking send.
OfferBlocking(p, s) ==
  /\ up /\ stage[p] = "offer" /\ s \in todo[p]
  /\ \/ s \in shut /\ Panic(p, s)
     \/ /\ s \notin shut /\ HasRoom(s)
        /\ Enqueue(p, s)
        /\ Advance(p, s)
        /\ UNCHANGED <<up, hubVars, connVars, issued, full, cut>>

\* select { case ch <- ev: default: ... }
Offer(p, s) ==
  /\ up /\ stage[p] = "offer" /\ s \in todo[p]
  /\ \/ s \in shut /\ Panic(p, s)
     \/ /\ s \notin shut /\ HasRoom(s)
        /\ Enqueue(p, s)
        /\ Advance(p, s)
        /\ UNCHANGED <<up, hubVars, connVars, issued, full, cut>>
     \/ /\ s \notin shut /\ ~HasRoom(s)
        /\ at' = [at EXCEPT ![p] = s]
        /\ stage' = [stage EXCEPT ![p] = "drop"]
        /\ full' = full \cup {s}
        /\ UNCHANGED <<up, hubVars, connVars, queue, issued, todo, cut>>

\* select { case <-ch: default: }: drop the oldest, if it is still there.
DropOldest(p) ==
  /\ up /\ stage[p] = "drop"
  /\ queue' = [queue EXCEPT ![at[p]] = IF @ = <<>> THEN @ ELSE Tail(@)]
  /\ stage' = [stage EXCEPT ![p] = "retry"]
  /\ UNCHANGED <<up, hubVars, connVars, issued, todo, at, full, cut>>

\* The second non-blocking send; another publisher may have taken the room.
Retry(p) ==
  /\ up /\ stage[p] = "retry"
  /\ \/ at[p] \in shut /\ Panic(p, at[p])
     \/ /\ at[p] \notin shut /\ HasRoom(at[p])
        /\ Enqueue(p, at[p])
        /\ Advance(p, at[p])
        /\ UNCHANGED <<up, hubVars, connVars, issued, full, cut>>
     \/ /\ at[p] \notin shut /\ ~HasRoom(at[p])
        /\ Advance(p, at[p])
        /\ UNCHANGED <<up, hubVars, connVars, queue, issued, full, cut>>

-----------------------------------------------------------------------------
(* handleEvents: subscribe, stream, unsubscribe.                           *)

\* After Close, Subscribe hands out a channel that is already closed.
Subscribe(s) ==
  /\ up /\ conn[s] = "idle"
  /\ conn' = [conn EXCEPT ![s] = "streaming"]
  /\ since' = [since EXCEPT ![s] = issued]
  /\ IF closed THEN shut' = shut \cup {s} /\ UNCHANGED subs
               ELSE subs' = subs \cup {s} /\ UNCHANGED shut
  /\ UNCHANGED <<up, closed, seen, handed, queue, sourceVars, full, cut>>

\* case ev, ok := <-ch: a closed channel still yields what it buffers.
Receive(s) ==
  /\ up /\ conn[s] = "streaming"
  /\ \/ /\ queue[s] # <<>>
        /\ LET ev == Head(queue[s]) IN
             /\ seen' = [seen EXCEPT ![s][ev.src] = ev.n]
             /\ handed' = [handed EXCEPT ![s][ev.src] = @ + 1]
        /\ queue' = [queue EXCEPT ![s] = Tail(@)]
        /\ conn' = [conn EXCEPT ![s] = "writing"]
     \/ /\ queue[s] = <<>> /\ s \in shut
        /\ conn' = [conn EXCEPT ![s] = "leaving"]
        /\ UNCHANGED <<seen, handed, queue>>
  /\ UNCHANGED <<up, hubVars, since, sourceVars, full, cut>>

\* The write to the peer: it may take for ever, and it may fail.
Write(s) ==
  /\ up /\ conn[s] = "writing"
  /\ \E r \in {"streaming"} \cup (IF s \in Leavers THEN {"leaving"} ELSE {}) : conn' = [conn EXCEPT ![s] = r]
  /\ UNCHANGED <<up, hubVars, seen, handed, since, queue, sourceVars, full, cut>>

\* case <-r.Context().Done()
Disconnect(s) ==
  /\ up /\ conn[s] = "streaming" /\ s \in Leavers
  /\ conn' = [conn EXCEPT ![s] = "leaving"]
  /\ UNCHANGED <<up, hubVars, seen, handed, since, queue, sourceVars, full, cut>>

\* The histories that only speak of connected subscribers are cleared.
Forget(s) ==
  LET none == [p \in Sources |-> 0] IN
  /\ since' = [since EXCEPT ![s] = none]
  /\ cut' = [cut EXCEPT ![s] = none]
  /\ full' = full \ {s}

Unsubscribe(s) ==
  /\ up /\ conn[s] = "leaving"
  /\ conn' = [conn EXCEPT ![s] = "gone"]
  /\ subs' = subs \ {s}
  /\ shut' = IF s \in subs THEN shut \cup {s} ELSE shut
  /\ Forget(s)
  /\ UNCHANGED <<up, closed, seen, handed, queue, sourceVars>>

\* Mutants: Close closes the channels and keeps the map, or the reverse.
CloseKeepsSubs ==
  /\ up /\ ~closed
  /\ closed' = TRUE
  /\ shut' = shut \cup subs
  /\ UNCHANGED <<up, subs, connVars, queue, sourceVars, full, cut>>

CloseKeepsChannels ==
  /\ up /\ ~closed
  /\ closed' = TRUE
  /\ subs' = {}
  /\ UNCHANGED <<up, shut, connVars, queue, sourceVars, full, cut>>

Close ==
  /\ up /\ ~closed
  /\ closed' = TRUE
  /\ shut' = shut \cup subs
  /\ subs' = {}
  /\ UNCHANGED <<up, connVars, queue, sourceVars, full, cut>>

-----------------------------------------------------------------------------
PublishStep(p) == (\E s \in Subscribers : Offer(p, s)) \/ DropOldest(p) \/ Retry(p)
HandlerStep(s) == Receive(s) \/ Unsubscribe(s)

Next ==
  \/ \E p \in Sources : Snapshot(p) \/ PublishStep(p)
  \/ \E s \in Subscribers :
       Subscribe(s) \/ HandlerStep(s) \/ Write(s) \/ Disconnect(s)
  \/ Close

(* A goroutine inside Publish never blocks, so the scheduler runs it on.   *)
(* A handler is run on when its channel is ready and when it returns; a    *)
(* write to a peer that does not read may block, so Write is not fair, and *)
(* nothing makes a peer disconnect.                                        *)
Fairness ==
  /\ \A p \in Sources : WF_vars(PublishStep(p))
  /\ \A s \in Subscribers : WF_vars(HandlerStep(s))

Spec == Init /\ [][Next]_vars
FairSpec == Spec /\ Fairness

-----------------------------------------------------------------------------
(* Properties.                                                             *)

\* Hub.subs and the set of open channels agree: a registered subscriber has
\* an open channel and a handler that has not returned, and a handler that
\* streams is registered unless its channel is closed (Subscribe,
\* Unsubscribe and Close change both under h.mu).
RegistrationMatchesChannel ==
  /\ subs \cap shut = {}
  /\ \A s \in Subscribers : conn[s] \in {"streaming", "writing", "leaving"} => s \in subs \cup shut
  /\ \A s \in subs : conn[s] \in {"streaming", "writing", "leaving"}
  /\ closed => subs = {}

\* The places of a channel's content that hold events of source p.
QueuedOf(q, p) == {i \in DOMAIN q : q[i].src = p}

\* Events are lost on a connected subscriber only by overflow or by a panic:
\* as long as its channel was never found full, what was issued since it
\* registered is what it received, what is queued, what Publish has still to
\* send, and what a publisher left unsent by panicking on somebody else's
\* closed channel (Publish, drop-oldest policy).
LossHasACause ==
  \A s \in subs \ full, p \in Sources :
    issued[p] - since[s][p] =
      handed[s][p] + Cardinality(QueuedOf(queue[s], p))
                   + (IF s \in todo[p] THEN 1 ELSE 0) + cut[s][p]

\* Publishing never waits for a subscriber: whatever the connections do, a
\* goroutine inside Publish leaves it (or the process ends).
PublishTerminates ==
  \A p \in Sources : stage[p] \in {"offer", "drop", "retry"} ~> (stage[p] = "idle" \/ ~up)

\* Once the hub is closed every handler returns, except one stuck in a write
\* to a peer that does not read (handleEvents leaves its loop on !ok).
CloseEndsStreams ==
  \A s \in Subscribers :
    closed /\ conn[s] # "idle" ~> (conn[s] \in {"gone", "writing"} \/ ~up)

\* What subscribers see is the lossy, per-source ordered feed of EventFeed.
Feed == INSTANCE EventFeed WITH last <- seen, count <- handed
FeedSpec == Feed!Spec
=============================================================================
