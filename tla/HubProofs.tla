------------------------------- MODULE HubProofs -------------------------------
(***************************************************************************)
(* What holds of the hub for any number of publishers and connections, any *)
(* channel capacity and any number of events: its bookkeeping, the causes  *)
(* of a lost event, and that it implements EventFeed.                      *)
(***************************************************************************)
EXTENDS Hub, FiniteSetTheorems, TLAPS

-----------------------------------------------------------------------------
(* Channels: what Append and Tail do to the places of one source's events. *)

\* What Append does to a queue, place by place.
LEMMA AppendFacts ==
  ASSUME NEW q \in Seq(Event), NEW e \in Event
  PROVE  /\ Append(q, e) \in Seq(Event)
         /\ Len(Append(q, e)) = Len(q) + 1
         /\ DOMAIN q = 1..Len(q) /\ DOMAIN Append(q, e) = 1..(Len(q) + 1)
         /\ \A i \in DOMAIN q : Append(q, e)[i] = q[i]
         /\ Append(q, e)[Len(q) + 1] = e
OBVIOUS

\* What Tail does to a queue, place by place.
LEMMA TailFacts ==
  ASSUME NEW q \in Seq(Event), q # <<>>
  PROVE  /\ Tail(q) \in Seq(Event) /\ Len(Tail(q)) = Len(q) - 1 /\ Len(q) \in Nat \ {0}
         /\ DOMAIN q = 1..Len(q) /\ DOMAIN Tail(q) = 1..(Len(q) - 1)
         /\ \A i \in DOMAIN Tail(q) : i + 1 \in DOMAIN q /\ Tail(q)[i] = q[i + 1]
         /\ Head(q) = q[1] /\ 1 \in DOMAIN q /\ Head(q) \in Event
OBVIOUS

\* A publisher's events in a queue can be counted.
LEMMA QueuedFinite ==
  ASSUME NEW q \in Seq(Event), NEW p
  PROVE  /\ IsFiniteSet(QueuedOf(q, p)) /\ Cardinality(QueuedOf(q, p)) \in Nat
         /\ q = <<>> => Cardinality(QueuedOf(q, p)) = 0
<1>1. IsFiniteSet(1..Len(q))
  BY FS_Interval
<1>2. QueuedOf(q, p) \in SUBSET (1..Len(q))
  BY DEF QueuedOf
<1>3. q = <<>> => QueuedOf(q, p) = {}
  BY DEF QueuedOf
<1> QED BY <1>1, <1>2, <1>3, FS_Subset, FS_CardinalityType, FS_EmptySet

\* A sent event counts for its source.
LEMMA QueuedAppend ==
  ASSUME NEW q \in Seq(Event), NEW e \in Event, NEW p
  PROVE  Cardinality(QueuedOf(Append(q, e), p)) =
           Cardinality(QueuedOf(q, p)) + (IF e.src = p THEN 1 ELSE 0)
<1>1. /\ IsFiniteSet(QueuedOf(q, p)) /\ Len(q) + 1 \notin QueuedOf(q, p)
      /\ Cardinality(QueuedOf(q, p)) \in Nat
  <2>1. Len(q) + 1 \notin QueuedOf(q, p)
    BY DEF QueuedOf
  <2> QED BY <2>1, QueuedFinite
<1>2. CASE e.src = p
  <2>1. QueuedOf(Append(q, e), p) = QueuedOf(q, p) \cup {Len(q) + 1}
    BY <1>2, AppendFacts DEF QueuedOf
  <2> QED BY <1>1, <1>2, <2>1, FS_AddElement
<1>3. CASE e.src # p
  <2>1. QueuedOf(Append(q, e), p) = QueuedOf(q, p)
    BY <1>3, AppendFacts DEF QueuedOf
  <2> QED BY <1>1, <1>3, <2>1
<1> QED BY <1>2, <1>3

\* A received one counts no more; the others move up by one place.
LEMMA QueuedTail ==
  ASSUME NEW q \in Seq(Event), q # <<>>, NEW p
  PROVE  Cardinality(QueuedOf(q, p)) =
           Cardinality(QueuedOf(Tail(q), p)) + (IF Head(q).src = p THEN 1 ELSE 0)
<1> DEFINE Rest == QueuedOf(q, p) \ {1}
           Up == [i \in QueuedOf(Tail(q), p) |-> i + 1]
<1>1. IsFiniteSet(QueuedOf(q, p)) /\ IsFiniteSet(QueuedOf(Tail(q), p))
  BY QueuedFinite, TailFacts
<1>2. Up \in Bijection(QueuedOf(Tail(q), p), Rest)
  <2>1. Up \in [QueuedOf(Tail(q), p) -> Rest]
    BY TailFacts DEF QueuedOf
  <2>2. \A i, j \in QueuedOf(Tail(q), p) : i # j => Up[i] # Up[j]
    BY TailFacts DEF QueuedOf
  <2>3. ASSUME NEW k \in Rest PROVE \E i \in QueuedOf(Tail(q), p) : Up[i] = k
    <3>1. k - 1 \in QueuedOf(Tail(q), p)
      BY <2>3, TailFacts DEF QueuedOf
    <3>2. Up[k - 1] = k
      BY <3>1, <2>3, TailFacts DEF QueuedOf
    <3> QED BY <3>1, <3>2
  <2> QED BY <2>1, <2>2, <2>3 DEF Bijection, Injection, Surjection, IsInjective
<1>3. Cardinality(Rest) = Cardinality(QueuedOf(Tail(q), p))
  BY <1>1, <1>2, FS_Bijection DEF ExistsBijection
<1>4. Cardinality(Rest) =
        IF Head(q).src = p THEN Cardinality(QueuedOf(q, p)) - 1 ELSE Cardinality(QueuedOf(q, p))
  <2>1. 1 \in QueuedOf(q, p) <=> Head(q).src = p
    BY TailFacts DEF QueuedOf
  <2> QED BY <1>1, <2>1, FS_RemoveElement
<1> QED BY <1>1, <1>3, <1>4, QueuedFinite, TailFacts

\* A publisher's events in a queue have numbers.
LEMMA QueuedNumbers ==
  ASSUME NEW q \in Seq(Event), NEW p
  PROVE  /\ Len(q) \in Nat
         /\ \A i \in QueuedOf(q, p) : i \in 1..Len(q) /\ q[i].n \in Nat
<1>1. \A i \in 1..Len(q) : q[i] \in Event
  OBVIOUS
<1> QED BY <1>1 DEF QueuedOf, Event

\* The events of p in q are numbered upwards, after lo and up to hi.
Ascending(q, p, lo, hi) ==
  \A i \in QueuedOf(q, p) :
    /\ lo < q[i].n /\ q[i].n <= hi
    /\ \A j \in QueuedOf(q, p) : i < j => q[i].n < q[j].n

\* An event numbered after those of its publisher keeps the order.
LEMMA AscendingAppend ==
  ASSUME NEW q \in Seq(Event), NEW e \in Event, NEW p, NEW lo \in Nat, NEW hi \in Nat,
         Ascending(q, p, lo, hi), e.src = p => lo <= hi /\ hi < e.n
  PROVE  Ascending(Append(q, e), p, lo, IF e.src = p THEN e.n ELSE hi)
<1> DEFINE w == Append(q, e)
<1>1. /\ Len(q) \in Nat /\ e.n \in Nat
      /\ \A i \in QueuedOf(q, p) : i \in 1..Len(q) /\ q[i].n \in Nat
  BY QueuedNumbers DEF Event
<1>2. \A i \in QueuedOf(w, p) :
        \/ i \in QueuedOf(q, p) /\ w[i].n = q[i].n
        \/ e.src = p /\ i = Len(q) + 1 /\ w[i].n = e.n
  BY AppendFacts DEF QueuedOf
<1> HIDE DEF w
<1>3. CASE e.src = p
  BY <1>1, <1>2, <1>3 DEF Ascending, w
<1>4. CASE e.src # p
  BY <1>1, <1>2, <1>4 DEF Ascending, w
<1> QED BY <1>3, <1>4

\* A queue without its head keeps the order, from the head on.
LEMMA AscendingTail ==
  ASSUME NEW q \in Seq(Event), q # <<>>, NEW p, NEW lo \in Nat, NEW hi \in Nat,
         Ascending(q, p, lo, hi)
  PROVE  /\ Ascending(Tail(q), p, lo, hi)
         /\ Head(q).src = p => /\ Ascending(Tail(q), p, Head(q).n, hi)
                               /\ lo < Head(q).n /\ Head(q).n <= hi
<1> DEFINE w == Tail(q)
<1>1. \A i \in QueuedOf(w, p) :
        i \in Nat \ {0} /\ i + 1 \in QueuedOf(q, p) /\ w[i].n = q[i + 1].n /\ w[i].n \in Nat
  <2>1. \A i \in QueuedOf(w, p) : i \in 1..Len(w) /\ w[i].n \in Nat
    BY TailFacts, QueuedNumbers
  <2> QED BY <2>1, TailFacts DEF QueuedOf
<1>2. Head(q).src = p => 1 \in QueuedOf(q, p) /\ q[1].n = Head(q).n /\ Head(q).n \in Nat
  BY TailFacts DEF QueuedOf, Event
<1> HIDE DEF w
<1>3. Ascending(w, p, lo, hi)
  BY <1>1 DEF Ascending
<1>4. Head(q).src = p => /\ Ascending(w, p, Head(q).n, hi) /\ lo < Head(q).n /\ Head(q).n <= hi
  BY <1>1, <1>2 DEF Ascending
<1> QED BY <1>3, <1>4 DEF w

\* The order holds up to any later number.
LEMMA AscendingGrows ==
  ASSUME NEW q \in Seq(Event), NEW p, NEW lo \in Nat, NEW hi \in Nat, NEW top \in Nat,
         Ascending(q, p, lo, hi), hi <= top
  PROVE  Ascending(q, p, lo, top)
<1>1. \A i \in QueuedOf(q, p) : q[i].n \in Nat
  BY QueuedNumbers
<1> QED BY <1>1 DEF Ascending

-----------------------------------------------------------------------------
(* Type correctness.                                                       *)

\* Sending p's latest event to a subscriber whose channel has room.
LEMMA EnqueueType ==
  ASSUME TypeOK, NEW p \in Sources, NEW s \in Subscribers, issued[p] # 0,
         HasRoom(s), Enqueue(p, s)
  PROVE  /\ queue' \in [Subscribers -> Seq(Event)]
         /\ \A t \in Subscribers : Len(queue'[t]) <= Cap
<1>1. [src |-> p, n |-> issued[p]] \in Event
  BY DEF TypeOK, PerSource, Event
<1>2. queue[s] \in Seq(Event) /\ Len(queue[s]) \in Nat
  BY DEF TypeOK
<1>3. queue' = [queue EXCEPT ![s] = Append(queue[s], [src |-> p, n |-> issued[p]])]
  BY DEF Enqueue
<1> QED BY <1>1, <1>2, <1>3, AppendFacts, HubAssumption DEF TypeOK, HasRoom

\* Taking the oldest event out of a channel.
LEMMA DequeueType ==
  ASSUME TypeOK, NEW s \in Subscribers,
         queue' = [queue EXCEPT ![s] = IF @ = <<>> THEN @ ELSE Tail(@)]
  PROVE  /\ queue' \in [Subscribers -> Seq(Event)]
         /\ \A t \in Subscribers : Len(queue'[t]) <= Cap
<1>1. queue[s] \in Seq(Event) /\ Len(queue[s]) \in Nat /\ Cap \in Nat
  BY HubAssumption DEF TypeOK
<1>2. \A t \in Subscribers : queue'[t] =
        IF t = s THEN IF queue[s] = <<>> THEN <<>> ELSE Tail(queue[s]) ELSE queue[t]
  BY DEF TypeOK
<1> QED BY <1>1, <1>2, TailFacts DEF TypeOK

\* Inside Publish there is an event to send and, while it handles a full
\* channel, a subscriber that has still to be served.
Publishing ==
  \A p \in Sources :
    /\ stage[p] \in {"idle", "panicked"} => todo[p] = {} /\ at[p] = Nobody
    /\ stage[p] \in {"offer", "drop", "retry"} => issued[p] # 0
    /\ stage[p] \in {"drop", "retry"} => at[p] \in todo[p]

\* The next subscriber of a delivery keeps the types.
LEMMA AdvanceKeeps ==
  ASSUME TypeOK, Publishing, NEW p \in Sources, NEW s \in Subscribers, Advance(p, s),
         stage[p] \in {"offer", "drop", "retry"}, issued' = issued
  PROVE  /\ todo' \in [Sources -> SUBSET Subscribers]
         /\ at' \in [Sources -> Subscribers \cup {Nobody}]
         /\ stage' \in [Sources -> Stage] /\ Publishing'
BY DEF TypeOK, Publishing, Advance, Stage

\* A subscriber has been served, with an event or without.
LEMMA ServedKeeps ==
  ASSUME TypeOK, Publishing, NEW p \in Sources, NEW s \in Subscribers, Advance(p, s),
         stage[p] \in {"offer", "drop", "retry"},
         (HasRoom(s) /\ Enqueue(p, s)) \/ UNCHANGED queue,
         UNCHANGED <<up, hubVars, connVars, issued, full, cut>>
  PROVE  TypeOK' /\ Publishing'
<1>1. /\ queue' \in [Subscribers -> Seq(Event)]
      /\ \A t \in Subscribers : Len(queue'[t]) <= Cap
  <2>1. issued[p] # 0
    BY DEF Publishing
  <2> QED BY <2>1, EnqueueType DEF TypeOK
<1>2. /\ todo' \in [Sources -> SUBSET Subscribers]
      /\ at' \in [Sources -> Subscribers \cup {Nobody}]
      /\ stage' \in [Sources -> Stage] /\ Publishing'
  BY AdvanceKeeps
<1> QED BY <1>1, <1>2 DEF TypeOK, hubVars, connVars

\* A send on a closed channel keeps the types.
LEMMA PanicKeeps ==
  ASSUME TypeOK, Publishing, NEW p \in Sources, NEW t, Panic(p, t)
  PROVE  TypeOK' /\ Publishing'
<1>1. up' \in BOOLEAN
  <2>1. up' = (p \in Recovered)
    BY DEF Panic
  <2>2. (p \in Recovered) \in BOOLEAN
    OBVIOUS
  <2> QED BY <2>1, <2>2, Zenon
<1> USE DEF TypeOK, Panic, hubVars, connVars
<1>2. todo' \in [Sources -> SUBSET Subscribers] /\ at' \in [Sources -> Subscribers \cup {Nobody}]
  OBVIOUS
<1>3. stage' \in [Sources -> Stage]
  BY DEF Stage
<1>4. cut' \in [Subscribers -> PerSource]
  <2> SUFFICES ASSUME NEW s \in Subscribers
               PROVE  [cut[s] EXCEPT ![p] = @ + 1] \in PerSource
    OBVIOUS
  <2> QED BY DEF PerSource
<1>5. Publishing'
  BY DEF Publishing
<1> QED BY <1>1, <1>2, <1>3, <1>4, <1>5

\* Every variable has its type, and no channel holds more than its capacity.
THEOREM TypeCorrect == Spec => [](TypeOK /\ Publishing)
<1>1. Init => TypeOK /\ Publishing
  <2> SUFFICES ASSUME Init PROVE TypeOK /\ Publishing
    OBVIOUS
  <2> USE DEF Init
  <2>1. issued \in PerSource /\ \A p \in Sources : issued[p] <= MaxEvents[p]
    BY HubAssumption DEF PerSource
  <2>2. /\ since \in [Subscribers -> PerSource] /\ seen \in [Subscribers -> PerSource]
        /\ handed \in [Subscribers -> PerSource] /\ cut \in [Subscribers -> PerSource]
    BY <2>1
  <2>3. /\ queue \in [Subscribers -> Seq(Event)]
        /\ \A s \in Subscribers : Len(queue[s]) <= Cap
    BY HubAssumption
  <2>4. /\ conn \in [Subscribers -> ConnState] /\ stage \in [Sources -> Stage]
        /\ up \in BOOLEAN /\ closed \in BOOLEAN
    BY DEF ConnState, Stage
  <2> QED BY <2>1, <2>2, <2>3, <2>4 DEF TypeOK, Publishing
<1>2. TypeOK /\ Publishing /\ [Next]_vars => TypeOK' /\ Publishing'
  <2> SUFFICES ASSUME TypeOK, Publishing, [Next]_vars PROVE TypeOK' /\ Publishing'
    OBVIOUS
  <2>1. ASSUME NEW p \in Sources, Snapshot(p) PROVE TypeOK' /\ Publishing'
    <3>1. issued' \in PerSource /\ \A r \in Sources : issued'[r] <= MaxEvents[r]
      <4>1. issued \in PerSource /\ issued' = [issued EXCEPT ![p] = @ + 1] /\ issued[p] < MaxEvents[p]
        BY <2>1 DEF TypeOK, Snapshot
      <4>2. \A r \in Sources : issued[r] <= MaxEvents[r] /\ MaxEvents[r] \in Nat /\ issued[r] \in Nat
        BY HubAssumption DEF TypeOK, PerSource
      <4> QED BY <4>1, <4>2 DEF PerSource
    <3> USE <2>1 DEF Snapshot, TypeOK, hubVars, connVars
    <3>2. todo' \in [Sources -> SUBSET Subscribers]
      BY DEF Registered
    <3>3. stage' \in [Sources -> Stage]
      BY DEF Stage
    <3>4. Publishing'
      BY DEF Publishing, Registered, PerSource
    <3> QED BY <3>1, <3>2, <3>3, <3>4
  <2>2. ASSUME NEW p \in Sources, NEW s \in Subscribers, Offer(p, s) PROVE TypeOK' /\ Publishing'
    <3>1. CASE s \in shut /\ Panic(p, s)
      BY <3>1, PanicKeeps
    <3>2. CASE /\ HasRoom(s) /\ Enqueue(p, s) /\ Advance(p, s)
               /\ UNCHANGED <<up, hubVars, connVars, issued, full, cut>>
      BY <2>2, <3>2, ServedKeeps DEF Offer
    <3>3. CASE /\ at' = [at EXCEPT ![p] = s] /\ stage' = [stage EXCEPT ![p] = "drop"]
               /\ full' = full \cup {s}
               /\ UNCHANGED <<up, hubVars, connVars, queue, issued, todo, cut>>
      BY <2>2, <3>3 DEF Offer, TypeOK, Publishing, hubVars, connVars, Stage
    <3> QED BY <2>2, <3>1, <3>2, <3>3 DEF Offer
  <2>3. ASSUME NEW p \in Sources, DropOldest(p) PROVE TypeOK' /\ Publishing'
    <3>1. at[p] \in Subscribers
      BY <2>3 DEF DropOldest, Publishing, TypeOK
    <3>2. /\ queue' \in [Subscribers -> Seq(Event)]
          /\ \A t \in Subscribers : Len(queue'[t]) <= Cap
      BY <2>3, <3>1, DequeueType DEF DropOldest
    <3> QED BY <2>3, <3>2 DEF DropOldest, TypeOK, Publishing, hubVars, connVars, Stage
  <2>4. ASSUME NEW p \in Sources, Retry(p) PROVE TypeOK' /\ Publishing'
    <3>1. at[p] \in Subscribers
      BY <2>4 DEF Retry, Publishing, TypeOK
    <3>2. CASE at[p] \in shut /\ Panic(p, at[p])
      BY <3>2, PanicKeeps
    <3>3. CASE /\ HasRoom(at[p]) /\ Enqueue(p, at[p]) /\ Advance(p, at[p])
               /\ UNCHANGED <<up, hubVars, connVars, issued, full, cut>>
      BY <2>4, <3>1, <3>3, ServedKeeps DEF Retry
    <3>4. CASE /\ Advance(p, at[p])
               /\ UNCHANGED <<up, hubVars, connVars, queue, issued, full, cut>>
      BY <2>4, <3>1, <3>4, ServedKeeps DEF Retry
    <3> QED BY <2>4, <3>2, <3>3, <3>4 DEF Retry
  <2>5. ASSUME NEW s \in Subscribers, Receive(s) PROVE TypeOK' /\ Publishing'
    <3>1. CASE queue[s] # <<>> /\ queue' = [queue EXCEPT ![s] = Tail(queue[s])]
      <4> DEFINE ev == Head(queue[s])
      <4>1. ev \in Event /\ ev.src \in Sources /\ ev.n \in Nat
        BY <3>1, TailFacts DEF TypeOK, Event
      <4>2. /\ queue' \in [Subscribers -> Seq(Event)]
            /\ \A t \in Subscribers : Len(queue'[t]) <= Cap
        <5>1. queue' = [queue EXCEPT ![s] = IF @ = <<>> THEN @ ELSE Tail(@)]
          BY <3>1 DEF TypeOK
        <5> QED BY <5>1, DequeueType
      <4>3. CASE queue[s] = <<>>
        BY <3>1, <4>3
      <4>4. CASE /\ seen' = [seen EXCEPT ![s][ev.src] = ev.n]
                 /\ handed' = [handed EXCEPT ![s][ev.src] = @ + 1]
                 /\ conn' = [conn EXCEPT ![s] = "writing"]
        <5>1. seen' \in [Subscribers -> PerSource] /\ handed' \in [Subscribers -> PerSource]
          BY <4>1, <4>4 DEF TypeOK, PerSource
        <5> QED BY <2>5, <4>2, <4>4, <5>1 DEF Receive, TypeOK, Publishing, hubVars, sourceVars, ConnState
      <4> QED BY <2>5, <3>1, <4>3, <4>4 DEF Receive
    <3>2. CASE conn' = [conn EXCEPT ![s] = "leaving"] /\ UNCHANGED <<seen, handed, queue>>
      BY <2>5, <3>2 DEF Receive, TypeOK, Publishing, hubVars, sourceVars, ConnState
    <3> QED BY <2>5, <3>1, <3>2 DEF Receive
  <2>6. ASSUME NEW s \in Subscribers, Subscribe(s) \/ Write(s) \/ Disconnect(s)
        PROVE  TypeOK' /\ Publishing'
    <3> USE <2>6 DEF Subscribe, Write, Disconnect, TypeOK, Publishing, hubVars, sourceVars, ConnState
    <3>1. conn' \in [Subscribers -> ConnState]
      OBVIOUS
    <3>2. since' \in [Subscribers -> PerSource] /\ subs' \subseteq Subscribers /\ shut' \subseteq Subscribers
      OBVIOUS
    <3> QED BY <3>1, <3>2
  <2>7. ASSUME NEW s \in Subscribers, Unsubscribe(s) PROVE TypeOK' /\ Publishing'
    <3>1. since' \in [Subscribers -> PerSource] /\ cut' \in [Subscribers -> PerSource]
      <4>1. [p \in Sources |-> 0] \in PerSource
        BY DEF PerSource
      <4> QED BY <2>7, <4>1 DEF Unsubscribe, Forget, TypeOK
    <3> QED BY <2>7, <3>1 DEF Unsubscribe, Forget, TypeOK, Publishing, hubVars, sourceVars, ConnState
  <2>8. CASE Close
    BY <2>8 DEF Close, TypeOK, Publishing, hubVars, connVars, sourceVars
  <2>9. CASE UNCHANGED vars
    BY <2>9 DEF vars, TypeOK, Publishing, hubVars, connVars, sourceVars
  <2> QED BY <2>1, <2>2, <2>3, <2>4, <2>5, <2>6, <2>7, <2>8, <2>9 DEF Next, PublishStep, HandlerStep
<1> QED BY <1>1, <1>2, PTL DEF Spec

-----------------------------------------------------------------------------
(* Registration.                                                           *)

\* A connection that has not subscribed yet has nothing and is owed nothing.
Fresh ==
  \A s \in Subscribers :
    conn[s] = "idle" =>
      /\ s \notin subs \cup shut /\ queue[s] = <<>>
      /\ \A p \in Sources :
           s \notin todo[p] /\ handed[s][p] = 0 /\ seen[s][p] = 0 /\ cut[s][p] = 0

\* A publisher handles a full channel of a subscriber that has overflowed or left.
FullIsRecorded == \A p \in Sources : stage[p] \in {"drop", "retry"} => at[p] \in full \/ at[p] \notin subs

\* Whether a publisher has still to serve s with its latest event.
Due(s, p) == IF s \in todo[p] THEN 1 ELSE 0

\* LossHasACause for one subscriber and one source.
Balance(s, p) ==
  issued[p] - since[s][p] =
    handed[s][p] + Cardinality(QueuedOf(queue[s], p)) + Due(s, p) + cut[s][p]

\* In every channel the events of a source come in the order of their numbers,
\* after those received and before those still to be sent.
Ordered(s, p) ==
  /\ seen[s][p] + Due(s, p) <= issued[p]
  /\ Ascending(queue[s], p, seen[s][p], issued[p] - Due(s, p))

Counted == \A s \in subs \ full, p \in Sources : Balance(s, p)
InOrder == \A s \in Subscribers, p \in Sources : Ordered(s, p)

Registry == RegistrationMatchesChannel /\ Fresh /\ FullIsRecorded
HubInv == Registry /\ Counted /\ InOrder

\* The numbers of a subscriber and a publisher are numbers.
LEMMA Points ==
  ASSUME TypeOK, NEW s \in Subscribers, NEW p \in Sources
  PROVE  /\ issued[p] \in Nat /\ since[s][p] \in Nat /\ seen[s][p] \in Nat
         /\ handed[s][p] \in Nat /\ cut[s][p] \in Nat
         /\ queue[s] \in Seq(Event) /\ Cardinality(QueuedOf(queue[s], p)) \in Nat
         /\ \A i \in DOMAIN queue[s] : queue[s][i] \in Event /\ queue[s][i].n \in Nat
<1>1. /\ issued[p] \in Nat /\ since[s][p] \in Nat /\ seen[s][p] \in Nat
      /\ handed[s][p] \in Nat /\ cut[s][p] \in Nat /\ queue[s] \in Seq(Event)
  BY DEF TypeOK, PerSource
<1>2. ASSUME NEW q \in Seq(Event), NEW i \in DOMAIN q PROVE q[i] \in Event /\ q[i].n \in Nat
  <2>1. q[i] \in Event
    OBVIOUS
  <2> QED BY <2>1 DEF Event
<1> QED BY <1>1, <1>2, QueuedFinite

\* A step that leaves alone what Balance and Ordered of s and p speak of.
LEMMA SamePoint ==
  ASSUME NEW s \in Subscribers, NEW p \in Sources,
         issued'[p] = issued[p], since'[s] = since[s], seen'[s] = seen[s], handed'[s] = handed[s],
         cut'[s][p] = cut[s][p], queue'[s] = queue[s], s \in todo'[p] <=> s \in todo[p]
  PROVE  (Balance(s, p) => Balance(s, p)') /\ (Ordered(s, p) => Ordered(s, p)')
BY DEF Balance, Ordered, Ascending, QueuedOf, Due

-----------------------------------------------------------------------------
(* The steps of Publish.                                                   *)

\* A publisher's snapshot of the subscribers keeps the invariant.
LEMMA SnapshotKeeps ==
  ASSUME TypeOK, Publishing, HubInv, NEW p \in Sources, Snapshot(p)
  PROVE  HubInv'
<1>1. /\ UNCHANGED <<up, closed, subs, shut, conn, seen, handed, since, queue, at, full, cut>>
      /\ issued' = [issued EXCEPT ![p] = @ + 1]
      /\ todo' = [todo EXCEPT ![p] = subs]
      /\ stage' = [stage EXCEPT ![p] = IF subs = {} THEN "idle" ELSE "offer"]
      /\ todo[p] = {}
  BY DEF Snapshot, Registered, hubVars, connVars, Publishing
<1>2. /\ issued \in [Sources -> Nat] /\ todo \in [Sources -> SUBSET Subscribers]
      /\ stage \in [Sources -> Stage] /\ subs \subseteq Subscribers
  BY DEF TypeOK, PerSource
<1>3. Registry'
  BY <1>1, <1>2 DEF HubInv, Registry, RegistrationMatchesChannel, Fresh, FullIsRecorded
<1>4. ASSUME NEW s \in Subscribers, NEW r \in Sources
      PROVE  (s \in subs \ full => Balance(s, r)') /\ Ordered(s, r)'
  <2>1. (s \in subs \ full => Balance(s, r)) /\ Ordered(s, r)
    BY DEF HubInv, Counted, InOrder
  <2>2. CASE r = p
    <3>1. issued'[p] = issued[p] + 1 /\ s \notin todo[p] /\ (s \in todo'[p] <=> s \in subs)
      BY <1>1, <1>2
    <3>2. /\ issued[p] \in Nat /\ since[s][p] \in Nat /\ seen[s][p] \in Nat /\ handed[s][p] \in Nat
          /\ cut[s][p] \in Nat /\ Cardinality(QueuedOf(queue[s], p)) \in Nat
      BY Points
    <3>3. s \in subs \ full => Balance(s, p)'
      <4>1. (QueuedOf(queue[s], p))' = QueuedOf(queue[s], p)
        BY <1>1 DEF QueuedOf
      <4> QED BY <1>1, <2>1, <2>2, <3>1, <3>2, <4>1 DEF Balance, Due
    <3>4. Due(s, p) = 0 /\ Due(s, p)' \in {0, 1}
      BY <3>1 DEF Due
    <3>5. Ordered(s, p)'
      <4>1. /\ Ascending(queue[s], p, seen[s][p], issued[p]) /\ seen[s][p] <= issued[p]
            /\ queue[s] \in Seq(Event)
        BY <2>1, <2>2, <3>2, <3>4, Points DEF Ordered
      <4>2. Ascending(queue[s], p, seen[s][p], issued[p] + 1)
        BY <3>2, <4>1, AscendingGrows
      <4>3. (Ascending(queue[s], p, seen[s][p], issued[p] - Due(s, p)))' =
              Ascending(queue[s], p, seen[s][p], issued'[p] - Due(s, p)')
        BY <1>1 DEF Ascending, QueuedOf
      <4>4. issued'[p] - Due(s, p)' \in {issued[p], issued[p] + 1}
        BY <3>1, <3>2, <3>4
      <4> QED BY <1>1, <3>1, <3>2, <3>4, <4>1, <4>2, <4>3, <4>4 DEF Ordered
    <3> QED BY <2>2, <3>3, <3>5
  <2>3. CASE r # p
    BY <1>1, <1>2, <2>1, <2>3, SamePoint
  <2> QED BY <2>2, <2>3
<1> QED BY <1>1, <1>2, <1>3, <1>4 DEF HubInv, Counted, InOrder

\* The latest event of p reaches the channel of s, which it was still owed.
LEMMA SentPoint ==
  ASSUME TypeOK, HubInv, NEW p \in Sources, NEW s \in Subscribers, NEW r \in Sources,
         issued[p] # 0, s \in todo[p], s \notin todo'[p],
         queue'[s] = Append(queue[s], [src |-> p, n |-> issued[p]]),
         issued' = issued, since'[s] = since[s], seen'[s] = seen[s], handed'[s] = handed[s],
         cut'[s] = cut[s], r # p => (s \in todo'[r] <=> s \in todo[r])
  PROVE  (s \in subs \ full => Balance(s, r)') /\ Ordered(s, r)'
<1> DEFINE q == queue[s]
           e == [src |-> p, n |-> issued[p]]
<1>1. /\ issued[r] \in Nat /\ since[s][r] \in Nat /\ seen[s][r] \in Nat /\ handed[s][r] \in Nat
      /\ cut[s][r] \in Nat /\ Cardinality(QueuedOf(q, r)) \in Nat /\ q \in Seq(Event)
  BY Points
<1>2. e \in Event /\ e.src = p /\ e.n = issued[p]
  BY <1>1, Points DEF Event
<1>3. (s \in subs \ full => Balance(s, r)) /\ Ordered(s, r)
  BY DEF HubInv, Counted, InOrder
<1>4. s \in subs \ full => Balance(s, r)'
  <2>1. (QueuedOf(queue[s], r))' = QueuedOf(Append(q, e), r)
    BY DEF QueuedOf
  <2>2. Cardinality(QueuedOf(Append(q, e), r)) = Cardinality(QueuedOf(q, r)) + (IF p = r THEN 1 ELSE 0)
    BY <1>1, <1>2, QueuedAppend
  <2> HIDE DEF q, e
  <2>3. CASE r = p
    BY <1>1, <1>3, <2>1, <2>2, <2>3 DEF Balance, Due, q
  <2>4. CASE r # p
    BY <1>1, <1>3, <2>1, <2>2, <2>4 DEF Balance, Due, q
  <2> QED BY <2>3, <2>4
<1>5. Ordered(s, r)'
  <2>1. /\ seen[s][r] + Due(s, r) <= issued[r] /\ Due(s, r) \in {0, 1}
        /\ Ascending(q, r, seen[s][r], issued[r] - Due(s, r))
    BY <1>3 DEF Ordered, Due
  <2>2. /\ r = p => Due(s, r) = 1 /\ Due(s, r)' = 0
        /\ r # p => Due(s, r)' = Due(s, r)
    BY DEF Due
  <2>3. Ordered(s, r)' <=> /\ seen[s][r] + Due(s, r)' <= issued[r]
                           /\ Ascending(Append(q, e), r, seen[s][r], issued[r] - Due(s, r)')
    BY DEF Ordered, Ascending, QueuedOf
  <2>4. issued[r] - Due(s, r) \in Nat /\ seen[s][r] <= issued[r] - Due(s, r)
    BY <1>1, <2>1
  <2>5. Ascending(Append(q, e), r, seen[s][r], IF e.src = r THEN e.n ELSE issued[r] - Due(s, r))
    <3> HIDE DEF q, e
    <3>1. e.src = r => issued[r] - Due(s, r) < e.n
      BY <1>1, <1>2, <2>2
    <3> QED BY <1>1, <1>2, <2>1, <2>4, <3>1, AscendingAppend
  <2> HIDE DEF q, e
  <2>6. CASE r = p
    BY <1>1, <1>2, <2>2, <2>3, <2>4, <2>5, <2>6
  <2>7. CASE r # p
    BY <1>1, <1>2, <2>1, <2>2, <2>3, <2>5, <2>7
  <2> QED BY <2>6, <2>7
<1> QED BY <1>4, <1>5

\* A step that only takes s out of the subscribers to be served.
LEMMA OwedPoint ==
  ASSUME TypeOK, NEW s \in Subscribers, NEW p \in Sources, Ordered(s, p),
         issued'[p] = issued[p], seen'[s] = seen[s], queue'[s] = queue[s],
         s \in todo'[p] => s \in todo[p]
  PROVE  Ordered(s, p)'
<1>1. issued[p] \in Nat /\ seen[s][p] \in Nat /\ queue[s] \in Seq(Event)
  BY Points
<1>2. /\ Due(s, p) \in {0, 1} /\ Due(s, p)' \in {0, 1} /\ Due(s, p)' <= Due(s, p)
      /\ seen[s][p] + Due(s, p) <= issued[p]
      /\ Ascending(queue[s], p, seen[s][p], issued[p] - Due(s, p))
  BY DEF Due, Ordered
<1>3. /\ issued[p] - Due(s, p) \in Nat /\ issued[p] - Due(s, p)' \in Nat
      /\ issued[p] - Due(s, p) <= issued[p] - Due(s, p)'
      /\ seen[s][p] + Due(s, p)' <= issued[p]
  BY <1>1, <1>2
<1>4. Ascending(queue[s], p, seen[s][p], issued[p] - Due(s, p)')
  BY <1>1, <1>2, <1>3, AscendingGrows
<1>5. Ordered(s, p)' <=> /\ seen[s][p] + Due(s, p)' <= issued[p]
                         /\ Ascending(queue[s], p, seen[s][p], issued[p] - Due(s, p)')
  BY DEF Ordered, Ascending, QueuedOf
<1> QED BY <1>3, <1>4, <1>5

\* Dropping the oldest event keeps the rest in order.
LEMMA DroppedPoint ==
  ASSUME TypeOK, NEW s \in Subscribers, NEW p \in Sources, Ordered(s, p), queue[s] # <<>>,
         issued'[p] = issued[p], seen'[s] = seen[s], queue'[s] = Tail(queue[s]),
         s \in todo'[p] <=> s \in todo[p]
  PROVE  Ordered(s, p)'
<1>1. issued[p] \in Nat /\ seen[s][p] \in Nat /\ queue[s] \in Seq(Event)
  BY Points
<1>2. /\ Due(s, p) \in {0, 1} /\ Due(s, p)' = Due(s, p)
      /\ seen[s][p] + Due(s, p) <= issued[p]
      /\ Ascending(queue[s], p, seen[s][p], issued[p] - Due(s, p))
  BY DEF Due, Ordered
<1>3. Ascending(Tail(queue[s]), p, seen[s][p], issued[p] - Due(s, p))
  BY <1>1, <1>2, AscendingTail
<1>4. Ordered(s, p)' <=> /\ seen[s][p] + Due(s, p)' <= issued[p]
                         /\ Ascending(Tail(queue[s]), p, seen[s][p], issued[p] - Due(s, p)')
  BY DEF Ordered, Ascending, QueuedOf
<1> QED BY <1>2, <1>3, <1>4

\* A received event moves from the queued to the received ones, and its number
\* is above the last one seen from its source.
LEMMA ReceivedPoint ==
  ASSUME TypeOK, HubInv, NEW s \in Subscribers, NEW r \in Sources, queue[s] # <<>>,
         queue'[s] = Tail(queue[s]),
         seen'[s][r] = (IF Head(queue[s]).src = r THEN Head(queue[s]).n ELSE seen[s][r]),
         handed'[s][r] = handed[s][r] + (IF Head(queue[s]).src = r THEN 1 ELSE 0),
         issued'[r] = issued[r], since'[s] = since[s], cut'[s] = cut[s],
         s \in todo'[r] <=> s \in todo[r]
  PROVE  /\ (s \in subs \ full => Balance(s, r)') /\ Ordered(s, r)'
         /\ Head(queue[s]).src = r => seen[s][r] < Head(queue[s]).n
<1> DEFINE q == queue[s]
           e == Head(queue[s])
<1>1. /\ issued[r] \in Nat /\ since[s][r] \in Nat /\ seen[s][r] \in Nat /\ handed[s][r] \in Nat
      /\ cut[s][r] \in Nat /\ Cardinality(QueuedOf(q, r)) \in Nat /\ q \in Seq(Event)
  BY Points
<1>2. e \in Event /\ e.src \in Sources /\ e.n \in Nat /\ Tail(q) \in Seq(Event)
  BY <1>1, TailFacts DEF Event
<1>3. (s \in subs \ full => Balance(s, r)) /\ Ordered(s, r)
  BY DEF HubInv, Counted, InOrder
<1>4. /\ queue'[s] = Tail(q)
      /\ e.src = r => seen'[s][r] = e.n /\ handed'[s][r] = handed[s][r] + 1
      /\ e.src # r => seen'[s][r] = seen[s][r] /\ handed'[s][r] = handed[s][r]
  BY <1>1
<1>5. Due(s, r)' = Due(s, r) /\ Due(s, r) \in {0, 1}
  BY DEF Due
<1>6. s \in subs \ full => Balance(s, r)'
  <2>1. (QueuedOf(queue[s], r))' = QueuedOf(Tail(q), r)
    BY <1>4 DEF QueuedOf
  <2>2. /\ Cardinality(QueuedOf(q, r)) = Cardinality(QueuedOf(Tail(q), r)) + (IF e.src = r THEN 1 ELSE 0)
        /\ Cardinality(QueuedOf(Tail(q), r)) \in Nat
    BY <1>1, <1>2, QueuedTail, QueuedFinite
  <2>3. s \in subs \ full =>
          issued[r] - since[s][r] = handed[s][r] + Cardinality(QueuedOf(q, r)) + Due(s, r) + cut[s][r]
    BY <1>3 DEF Balance
  <2>4. Balance(s, r)' <=>
          issued[r] - since[s][r] =
            handed'[s][r] + Cardinality(QueuedOf(Tail(q), r)) + Due(s, r) + cut[s][r]
    BY <1>5, <2>1 DEF Balance
  <2> HIDE DEF q, e
  <2> DEFINE c == IF e.src = r THEN 1 ELSE 0
  <2>5. /\ c \in {0, 1} /\ handed'[s][r] = handed[s][r] + c
        /\ Cardinality(QueuedOf(q, r)) = Cardinality(QueuedOf(Tail(q), r)) + c
    BY <1>4, <2>2 DEF e
  <2> HIDE DEF c
  <2> QED BY <1>1, <1>5, <2>2, <2>3, <2>4, <2>5
<1>7. /\ seen[s][r] + Due(s, r) <= issued[r]
      /\ Ascending(q, r, seen[s][r], issued[r] - Due(s, r))
  BY <1>3 DEF Ordered
<1>8. issued[r] - Due(s, r) \in Nat
  BY <1>1, <1>5, <1>7
<1>9. /\ Ascending(Tail(q), r, seen[s][r], issued[r] - Due(s, r))
      /\ e.src = r => /\ Ascending(Tail(q), r, e.n, issued[r] - Due(s, r))
                      /\ seen[s][r] < e.n /\ e.n <= issued[r] - Due(s, r)
  BY <1>1, <1>7, <1>8, AscendingTail
<1>10. Ordered(s, r)' <=> /\ seen'[s][r] + Due(s, r)' <= issued[r]
                          /\ Ascending(Tail(q), r, seen'[s][r], issued[r] - Due(s, r)')
  BY DEF Ordered, Ascending, QueuedOf
<1> HIDE DEF q, e
<1>11. Ordered(s, r)'
  <2>1. CASE e.src = r
    BY <1>1, <1>2, <1>4, <1>5, <1>9, <1>10, <2>1
  <2>2. CASE e.src # r
    BY <1>4, <1>5, <1>7, <1>9, <1>10, <2>2
  <2> QED BY <2>1, <2>2
<1> QED BY <1>6, <1>9, <1>11 DEF e

\* HubInv, subscriber by subscriber.
LEMMA PointByPoint ==
  ASSUME subs' \subseteq Subscribers, Registry',
         \A s \in Subscribers, p \in Sources : (s \in subs' \ full' => Balance(s, p)') /\ Ordered(s, p)'
  PROVE  HubInv'
BY DEF HubInv, Counted, InOrder

\* A publisher serves s: the event is in the channel, or the channel was full.
LEMMA ServedInv ==
  ASSUME TypeOK, Publishing, HubInv, NEW p \in Sources, NEW s \in Subscribers, Advance(p, s),
         stage[p] \in {"offer", "drop", "retry"}, s \in todo[p],
         (HasRoom(s) /\ Enqueue(p, s)) \/ (UNCHANGED queue /\ (s \in full \/ s \notin subs)),
         UNCHANGED <<up, hubVars, connVars, issued, full, cut>>
  PROVE  HubInv'
<1>1. /\ todo' = [todo EXCEPT ![p] = @ \ {s}] /\ at' = [at EXCEPT ![p] = Nobody]
      /\ stage'[p] \in {"idle", "offer"} /\ \A r \in Sources \ {p} : stage'[r] = stage[r]
      /\ UNCHANGED <<closed, subs, shut, conn, seen, handed, since, issued, full, cut>>
      /\ issued[p] # 0
  BY DEF Advance, hubVars, connVars, TypeOK, Publishing
<1>2. todo \in [Sources -> SUBSET Subscribers] /\ at \in [Sources -> Subscribers \cup {Nobody}]
      /\ queue \in [Subscribers -> Seq(Event)]
  BY DEF TypeOK
<1>3. /\ \A t \in Subscribers \ {s} : queue'[t] = queue[t]
      /\ \/ queue'[s] = Append(queue[s], [src |-> p, n |-> issued[p]])
         \/ queue'[s] = queue[s] /\ s \notin subs \ full
  BY <1>2 DEF Enqueue
<1>4. conn[s] # "idle"
  BY DEF HubInv, Registry, Fresh
<1>5. RegistrationMatchesChannel'
  BY <1>1 DEF HubInv, Registry, RegistrationMatchesChannel
<1>6. Fresh'
  <2> SUFFICES ASSUME NEW t \in Subscribers, conn'[t] = "idle"
               PROVE  /\ t \notin subs' \cup shut' /\ queue'[t] = <<>>
                      /\ \A r \in Sources : /\ t \notin todo'[r] /\ handed'[t][r] = 0
                                            /\ seen'[t][r] = 0 /\ cut'[t][r] = 0
    BY DEF Fresh
  <2> QED BY <1>1, <1>2, <1>3, <1>4 DEF HubInv, Registry, Fresh
<1>7. FullIsRecorded'
  BY <1>1, <1>2 DEF HubInv, Registry, FullIsRecorded
<1>8. ASSUME NEW t \in Subscribers, NEW r \in Sources
      PROVE  (t \in subs \ full => Balance(t, r)') /\ Ordered(t, r)'
  <2>1. (t \in subs \ full => Balance(t, r)) /\ Ordered(t, r)
    BY DEF HubInv, Counted, InOrder
  <2>2. CASE t # s
    BY <1>1, <1>2, <1>3, <2>1, <2>2, SamePoint
  <2>3. CASE t = s /\ queue'[s] = Append(queue[s], [src |-> p, n |-> issued[p]])
    BY <1>1, <1>2, <2>3, SentPoint
  <2>4. CASE t = s /\ queue'[s] = queue[s] /\ s \notin subs \ full
    BY <1>1, <1>2, <2>1, <2>4, OwedPoint
  <2> QED BY <1>3, <2>2, <2>3, <2>4
<1>9. subs' \subseteq Subscribers /\ subs' = subs /\ full' = full
  BY <1>1 DEF TypeOK
<1> QED BY <1>5, <1>6, <1>7, <1>8, <1>9, PointByPoint DEF Registry

\* A panic is the cause of what its publisher does not send.
LEMMA PanicInv ==
  ASSUME TypeOK, Publishing, HubInv, NEW p \in Sources, NEW t, t \in shut, Panic(p, t)
  PROVE  HubInv'
<1>1. /\ todo' = [todo EXCEPT ![p] = {}] /\ at' = [at EXCEPT ![p] = Nobody]
      /\ stage'[p] \in {"idle", "panicked"} /\ \A r \in Sources \ {p} : stage'[r] = stage[r]
      /\ UNCHANGED <<closed, subs, shut, conn, seen, handed, since, queue, issued, full>>
      /\ cut' = [s \in Subscribers |->
                   IF s \in (todo[p] \cap subs) \ {t} THEN [cut[s] EXCEPT ![p] = @ + 1] ELSE cut[s]]
  BY DEF Panic, hubVars, connVars, TypeOK
<1>2. /\ todo \in [Sources -> SUBSET Subscribers] /\ at \in [Sources -> Subscribers \cup {Nobody}]
      /\ cut \in [Subscribers -> [Sources -> Nat]]
  BY DEF TypeOK, PerSource
<1>3. RegistrationMatchesChannel' /\ t \notin subs
  BY <1>1 DEF HubInv, Registry, RegistrationMatchesChannel
<1>4. Fresh'
  <2> SUFFICES ASSUME NEW s \in Subscribers, conn'[s] = "idle"
               PROVE  /\ s \notin subs' \cup shut' /\ queue'[s] = <<>>
                      /\ \A r \in Sources : /\ s \notin todo'[r] /\ handed'[s][r] = 0
                                            /\ seen'[s][r] = 0 /\ cut'[s][r] = 0
    BY DEF Fresh
  <2> QED BY <1>1, <1>2 DEF HubInv, Registry, Fresh
<1>5. FullIsRecorded'
  BY <1>1, <1>2 DEF HubInv, Registry, FullIsRecorded
<1>6. ASSUME NEW s \in Subscribers, NEW r \in Sources
      PROVE  (s \in subs \ full => Balance(s, r)') /\ Ordered(s, r)'
  <2>1. (s \in subs \ full => Balance(s, r)) /\ Ordered(s, r)
    BY DEF HubInv, Counted, InOrder
  <2>2. Ordered(s, r)'
    <3>1. s \in todo'[r] => s \in todo[r]
      BY <1>1, <1>2
    <3> QED BY <1>1, <2>1, <3>1, OwedPoint
  <2>3. s \in subs \ full => Balance(s, r)'
    <3> SUFFICES ASSUME s \in subs \ full PROVE Balance(s, r)'
      OBVIOUS
    <3>1. CASE r = p /\ s \in todo[p]
      <4>1. cut'[s][p] = cut[s][p] + 1 /\ Due(s, p) = 1 /\ Due(s, p)' = 0
        BY <1>1, <1>2, <1>3, <3>1 DEF Due
      <4>2. (QueuedOf(queue[s], p))' = QueuedOf(queue[s], p)
        BY <1>1 DEF QueuedOf
      <4>3. /\ issued[p] \in Nat /\ since[s][p] \in Nat /\ handed[s][p] \in Nat
            /\ cut[s][p] \in Nat /\ Cardinality(QueuedOf(queue[s], p)) \in Nat
        BY Points
      <4> QED BY <1>1, <2>1, <3>1, <4>1, <4>2, <4>3 DEF Balance
    <3>2. CASE r # p \/ s \notin todo[p]
      <4>1. cut'[s][r] = cut[s][r] /\ (s \in todo'[r] <=> s \in todo[r])
        BY <1>1, <1>2, <3>2
      <4> QED BY <1>1, <2>1, <4>1, SamePoint
    <3> QED BY <3>1, <3>2
  <2> QED BY <2>2, <2>3
<1>7. subs' \subseteq Subscribers /\ subs' = subs /\ full' = full
  BY <1>1 DEF TypeOK
<1> QED BY <1>3, <1>4, <1>5, <1>6, <1>7, PointByPoint DEF Registry

\* A step of Publish keeps the invariant.
LEMMA PublishInv ==
  ASSUME TypeOK, Publishing, HubInv, NEW p \in Sources, PublishStep(p)
  PROVE  HubInv'
<1>1. ASSUME NEW s \in Subscribers, Offer(p, s) PROVE HubInv'
  <2>1. CASE s \in shut /\ Panic(p, s)
    BY <2>1, PanicInv
  <2>2. CASE /\ HasRoom(s) /\ Enqueue(p, s) /\ Advance(p, s)
             /\ UNCHANGED <<up, hubVars, connVars, issued, full, cut>>
    BY <1>1, <2>2, ServedInv DEF Offer
  <2>3. CASE /\ at' = [at EXCEPT ![p] = s] /\ stage' = [stage EXCEPT ![p] = "drop"]
             /\ full' = full \cup {s}
             /\ UNCHANGED <<up, hubVars, connVars, queue, issued, todo, cut>>
    <3>1. Registry'
      BY <2>3 DEF HubInv, Registry, RegistrationMatchesChannel, Fresh, FullIsRecorded,
                  TypeOK, hubVars, connVars
    <3>2. ASSUME NEW t \in Subscribers, NEW r \in Sources
          PROVE  (t \in subs' \ full' => Balance(t, r)') /\ Ordered(t, r)'
      BY <2>3, SamePoint DEF HubInv, Counted, InOrder, hubVars, connVars
    <3>3. subs' \subseteq Subscribers
      BY <2>3 DEF TypeOK, hubVars
    <3> QED BY <3>1, <3>2, <3>3, PointByPoint
  <2> QED BY <1>1, <2>1, <2>2, <2>3 DEF Offer
<1>2. ASSUME DropOldest(p) PROVE HubInv'
  <2> DEFINE s == at[p]
  <2>1. s \in Subscribers /\ s \in todo[p] /\ (s \in full \/ s \notin subs)
    BY <1>2 DEF DropOldest, Publishing, TypeOK, HubInv, Registry, FullIsRecorded
  <2>2. /\ UNCHANGED <<closed, subs, shut, conn, seen, handed, since, issued, todo, at, full, cut>>
        /\ stage'[p] = "retry" /\ \A r \in Sources \ {p} : stage'[r] = stage[r] /\ stage[p] = "drop"
        /\ \A t \in Subscribers \ {s} : queue'[t] = queue[t]
        /\ queue'[s] = IF queue[s] = <<>> THEN queue[s] ELSE Tail(queue[s])
    BY <1>2, <2>1 DEF DropOldest, hubVars, connVars, TypeOK
  <2>3. Registry'
    <3>1. conn[s] # "idle"
      BY <2>1 DEF HubInv, Registry, Fresh
    <3>2. Fresh'
      BY <2>2, <3>1 DEF HubInv, Registry, Fresh
    <3>3. FullIsRecorded'
      BY <2>1, <2>2 DEF HubInv, Registry, FullIsRecorded
    <3> QED BY <2>2, <3>2, <3>3 DEF HubInv, Registry, RegistrationMatchesChannel
  <2>4. ASSUME NEW t \in Subscribers, NEW r \in Sources
        PROVE  (t \in subs \ full => Balance(t, r)') /\ Ordered(t, r)'
    <3>1. (t \in subs \ full => Balance(t, r)) /\ Ordered(t, r)
      BY DEF HubInv, Counted, InOrder
    <3>2. CASE t = s /\ queue[s] # <<>>
      BY <2>1, <2>2, <3>1, <3>2, DroppedPoint
    <3>3. CASE t # s \/ queue[s] = <<>>
      <4>1. queue'[t] = queue[t]
        BY <2>2, <3>3
      <4> QED BY <2>2, <3>1, <4>1, SamePoint
    <3> QED BY <3>2, <3>3
  <2>5. subs' \subseteq Subscribers
    BY <2>2 DEF TypeOK
  <2> QED BY <2>2, <2>3, <2>4, <2>5, PointByPoint
<1>3. ASSUME Retry(p) PROVE HubInv'
  <2>1. at[p] \in Subscribers /\ at[p] \in todo[p] /\ (at[p] \in full \/ at[p] \notin subs)
    BY <1>3 DEF Retry, Publishing, TypeOK, HubInv, Registry, FullIsRecorded
  <2>2. CASE at[p] \in shut /\ Panic(p, at[p])
    BY <2>2, PanicInv
  <2>3. CASE /\ HasRoom(at[p]) /\ Enqueue(p, at[p]) /\ Advance(p, at[p])
             /\ UNCHANGED <<up, hubVars, connVars, issued, full, cut>>
    BY <1>3, <2>1, <2>3, ServedInv DEF Retry
  <2>4. CASE Advance(p, at[p]) /\ UNCHANGED <<up, hubVars, connVars, queue, issued, full, cut>>
    BY <1>3, <2>1, <2>4, ServedInv DEF Retry
  <2> QED BY <1>3, <2>2, <2>3, <2>4 DEF Retry
<1> QED BY <1>1, <1>2, <1>3 DEF PublishStep

-----------------------------------------------------------------------------
(* The steps of a connection, and Close.                                   *)

\* Subscribe keeps the invariant.
LEMMA SubscribeInv ==
  ASSUME TypeOK, Publishing, HubInv, NEW s \in Subscribers, Subscribe(s)
  PROVE  HubInv'
<1>1. /\ conn[s] = "idle" /\ conn' = [conn EXCEPT ![s] = "streaming"]
      /\ since' = [since EXCEPT ![s] = issued]
      /\ IF closed THEN shut' = shut \cup {s} /\ subs' = subs
                   ELSE subs' = subs \cup {s} /\ shut' = shut
      /\ UNCHANGED <<closed, seen, handed, queue, issued, todo, at, stage, full, cut>>
  BY DEF Subscribe, sourceVars
<1>2. conn \in [Subscribers -> ConnState] /\ since \in [Subscribers -> PerSource] /\ subs \subseteq Subscribers
  BY DEF TypeOK
<1>3. /\ s \notin subs \cup shut /\ queue[s] = <<>>
      /\ \A p \in Sources : s \notin todo[p] /\ handed[s][p] = 0 /\ seen[s][p] = 0 /\ cut[s][p] = 0
  BY <1>1 DEF HubInv, Registry, Fresh
<1>4. RegistrationMatchesChannel'
  BY <1>1, <1>2, <1>3 DEF HubInv, Registry, RegistrationMatchesChannel
<1>5. Fresh'
  BY <1>1, <1>2 DEF HubInv, Registry, Fresh
<1>6. FullIsRecorded'
  <2>1. \A p \in Sources : stage[p] \in {"drop", "retry"} => at[p] # s
    BY <1>3 DEF Publishing
  <2> QED BY <1>1, <2>1 DEF HubInv, Registry, FullIsRecorded
<1>7. ASSUME NEW t \in Subscribers, NEW p \in Sources
      PROVE  (t \in subs' \ full' => Balance(t, p)') /\ Ordered(t, p)'
  <2>1. (t \in subs \ full => Balance(t, p)) /\ Ordered(t, p)
    BY DEF HubInv, Counted, InOrder
  <2>2. CASE t # s
    BY <1>1, <1>2, <2>1, <2>2, SamePoint
  <2>3. CASE t = s
    <3>1. Ordered(s, p)'
      BY <1>1, <2>1, <2>3, OwedPoint
    <3>2. since'[s][p] = issued[p] /\ issued[p] \in Nat /\ Due(s, p)' = 0
      BY <1>1, <1>2, <1>3, Points DEF Due
    <3>3. Cardinality(QueuedOf(queue[s], p)) = 0
      BY <1>3, Points, QueuedFinite
    <3>4. (QueuedOf(queue[s], p))' = QueuedOf(queue[s], p)
      BY <1>1 DEF QueuedOf
    <3>5. Balance(s, p)'
      BY <1>1, <1>3, <3>2, <3>3, <3>4 DEF Balance
    <3> QED BY <2>3, <3>1, <3>5
  <2> QED BY <2>2, <2>3
<1>8. subs' \subseteq Subscribers
  BY <1>1, <1>2
<1> QED BY <1>4, <1>5, <1>6, <1>7, <1>8, PointByPoint DEF Registry

\* What the points of s and of the others become when s receives an event.
LEMMA ReceiveFacts ==
  ASSUME TypeOK, NEW s \in Subscribers, Receive(s), UNCHANGED queue \/ queue[s] # <<>>
  PROVE  /\ conn[s] = "streaming" /\ conn' \in [Subscribers -> ConnState]
         /\ conn'[s] \in {"writing", "leaving"} /\ \A t \in Subscribers \ {s} : conn'[t] = conn[t]
         /\ UNCHANGED <<closed, subs, shut, since, issued, todo, at, stage, full, cut>>
         /\ \/ UNCHANGED <<queue, seen, handed>>
            \/ /\ queue[s] # <<>> /\ Head(queue[s]) \in Event /\ Head(queue[s]).src \in Sources
               /\ queue' = [queue EXCEPT ![s] = Tail(queue[s])]
               /\ seen' = [seen EXCEPT ![s][Head(queue[s]).src] = Head(queue[s]).n]
               /\ handed' = [handed EXCEPT ![s][Head(queue[s]).src] = @ + 1]
<1>1. /\ conn[s] = "streaming" /\ conn' \in [Subscribers -> ConnState]
      /\ conn'[s] \in {"writing", "leaving"} /\ \A t \in Subscribers \ {s} : conn'[t] = conn[t]
      /\ UNCHANGED <<closed, subs, shut, since, issued, todo, at, stage, full, cut>>
  BY DEF Receive, TypeOK, ConnState, hubVars, sourceVars
<1>2. queue[s] # <<>> => Head(queue[s]) \in Event /\ Head(queue[s]).src \in Sources
  <2>1. queue[s] \in Seq(Event)
    BY DEF TypeOK
  <2> QED BY <2>1, TailFacts DEF Event
<1> QED BY <1>1, <1>2 DEF Receive

\* Taking an event keeps the invariant.
LEMMA ReceiveInv ==
  ASSUME TypeOK, HubInv, NEW s \in Subscribers, Receive(s)
  PROVE  HubInv'
<1>1. UNCHANGED queue \/ queue[s] # <<>>
  BY DEF Receive
<1>2. Registry'
  <2>1. \A t \in Subscribers : t # s =>
          /\ queue'[t] = queue[t]
          /\ \A p \in Sources : handed'[t][p] = handed[t][p] /\ seen'[t][p] = seen[t][p]
    BY <1>1, ReceiveFacts DEF TypeOK, PerSource
  <2>2. RegistrationMatchesChannel'
    BY <1>1, ReceiveFacts DEF HubInv, Registry, RegistrationMatchesChannel, TypeOK
  <2>3. Fresh'
    <3> SUFFICES ASSUME NEW t \in Subscribers, conn'[t] = "idle"
                 PROVE  /\ t \notin subs' \cup shut' /\ queue'[t] = <<>>
                        /\ \A r \in Sources : /\ t \notin todo'[r] /\ handed'[t][r] = 0
                                              /\ seen'[t][r] = 0 /\ cut'[t][r] = 0
      BY DEF Fresh
    <3>1. t # s /\ conn[t] = "idle"
      BY <1>1, ReceiveFacts
    <3> QED BY <1>1, <2>1, <3>1, ReceiveFacts DEF HubInv, Registry, Fresh
  <2>4. FullIsRecorded'
    BY <1>1, ReceiveFacts DEF HubInv, Registry, FullIsRecorded
  <2> QED BY <2>2, <2>3, <2>4 DEF Registry
<1>3. ASSUME NEW t \in Subscribers, NEW r \in Sources
      PROVE  (t \in subs \ full => Balance(t, r)') /\ Ordered(t, r)'
  <2>1. (t \in subs \ full => Balance(t, r)) /\ Ordered(t, r)
    BY DEF HubInv, Counted, InOrder
  <2>2. CASE UNCHANGED <<queue, seen, handed>>
    BY <1>1, <2>1, <2>2, ReceiveFacts, SamePoint
  <2>3. CASE /\ queue[s] # <<>> /\ Head(queue[s]).src \in Sources
             /\ queue' = [queue EXCEPT ![s] = Tail(queue[s])]
             /\ seen' = [seen EXCEPT ![s][Head(queue[s]).src] = Head(queue[s]).n]
             /\ handed' = [handed EXCEPT ![s][Head(queue[s]).src] = @ + 1]
    <3>1. CASE t # s
      <4>1. queue'[t] = queue[t] /\ seen'[t] = seen[t] /\ handed'[t] = handed[t]
        BY <2>3, <3>1 DEF TypeOK
      <4> QED BY <1>1, <2>1, <4>1, ReceiveFacts, SamePoint
    <3>2. CASE t = s
      <4>1. /\ queue'[s] = Tail(queue[s])
            /\ seen'[s][r] = (IF Head(queue[s]).src = r THEN Head(queue[s]).n ELSE seen[s][r])
            /\ handed'[s][r] = handed[s][r] + (IF Head(queue[s]).src = r THEN 1 ELSE 0)
        <5> DEFINE e == Head(queue[s])
        <5>1. /\ seen[s] \in [Sources -> Nat] /\ handed[s] \in [Sources -> Nat]
              /\ seen'[s] = [seen[s] EXCEPT ![e.src] = e.n]
              /\ handed'[s] = [handed[s] EXCEPT ![e.src] = @ + 1]
              /\ queue'[s] = Tail(queue[s])
          BY <2>3 DEF TypeOK, PerSource
        <5> HIDE DEF e
        <5>2. CASE e.src = r
          <6>1. seen'[s][r] = e.n /\ handed'[s][r] = handed[s][r] + 1
            BY <5>1, <5>2
          <6> QED BY <5>1, <5>2, <6>1 DEF e
        <5>3. CASE e.src # r
          <6>1. seen'[s][r] = seen[s][r] /\ handed'[s][r] = handed[s][r] + 0
            BY <5>1, <5>3
          <6> QED BY <5>1, <5>3, <6>1 DEF e
        <5> QED BY <5>2, <5>3
      <4>2. /\ issued'[r] = issued[r] /\ since'[s] = since[s] /\ cut'[s] = cut[s]
            /\ s \in todo'[r] <=> s \in todo[r]
        BY <1>1, ReceiveFacts
      <4> QED BY <2>3, <3>2, <4>1, <4>2, ReceivedPoint
    <3> QED BY <3>1, <3>2
  <2> QED BY <1>1, <2>2, <2>3, ReceiveFacts
<1>4. subs' \subseteq Subscribers /\ subs' = subs /\ full' = full
  BY <1>1, ReceiveFacts DEF TypeOK
<1> QED BY <1>2, <1>3, <1>4, PointByPoint

\* Steps of a handler that move no event.
LEMMA HandlerInv ==
  ASSUME TypeOK, HubInv, NEW s \in Subscribers, Write(s) \/ Disconnect(s)
  PROVE  HubInv'
<1>1. /\ UNCHANGED <<closed, subs, shut, seen, handed, since, queue, issued, todo, at, stage, full, cut>>
      /\ conn[s] \in {"streaming", "writing"} /\ conn'[s] \in {"streaming", "leaving"}
      /\ \A t \in Subscribers \ {s} : conn'[t] = conn[t]
  BY DEF Write, Disconnect, hubVars, sourceVars, TypeOK
<1>2. RegistrationMatchesChannel' /\ subs' \subseteq Subscribers
  BY <1>1 DEF HubInv, Registry, RegistrationMatchesChannel, TypeOK
<1>3. Fresh' /\ FullIsRecorded'
  BY <1>1 DEF HubInv, Registry, Fresh, FullIsRecorded
<1>4. \A t \in Subscribers, r \in Sources :
        (t \in subs' \ full' => Balance(t, r)') /\ Ordered(t, r)'
  BY <1>1, SamePoint DEF HubInv, Counted, InOrder
<1> QED BY <1>2, <1>3, <1>4, PointByPoint DEF Registry

\* Unsubscribe keeps the invariant.
LEMMA UnsubscribeInv ==
  ASSUME TypeOK, HubInv, NEW s \in Subscribers, Unsubscribe(s)
  PROVE  HubInv'
<1> DEFINE none == [p \in Sources |-> 0]
<1>1. /\ UNCHANGED <<closed, seen, handed, queue, issued, todo, at, stage>>
      /\ conn[s] = "leaving" /\ conn'[s] = "gone"
      /\ \A t \in Subscribers \ {s} : conn'[t] = conn[t] /\ since'[t] = since[t] /\ cut'[t] = cut[t]
      /\ subs' = subs \ {s} /\ full' = full \ {s}
      /\ shut' = IF s \in subs THEN shut \cup {s} ELSE shut
  BY DEF Unsubscribe, Forget, sourceVars, TypeOK
<1>2. RegistrationMatchesChannel' /\ subs' \subseteq Subscribers
  BY <1>1 DEF HubInv, Registry, RegistrationMatchesChannel, TypeOK
<1>3. Fresh'
  BY <1>1 DEF HubInv, Registry, Fresh
<1>4. FullIsRecorded'
  BY <1>1 DEF HubInv, Registry, FullIsRecorded
<1>5. ASSUME NEW t \in Subscribers, NEW r \in Sources
      PROVE  (t \in subs' \ full' => Balance(t, r)') /\ Ordered(t, r)'
  <2>1. (t \in subs \ full => Balance(t, r)) /\ Ordered(t, r)
    BY DEF HubInv, Counted, InOrder
  <2>2. Ordered(t, r)'
    BY <1>1, <2>1, OwedPoint
  <2>3. CASE t = s
    BY <1>1, <2>2, <2>3
  <2>4. CASE t # s
    BY <1>1, <2>1, <2>4, SamePoint
  <2> QED BY <2>3, <2>4
<1> QED BY <1>2, <1>3, <1>4, <1>5, PointByPoint DEF Registry

\* Close keeps the invariant.
LEMMA CloseInv ==
  ASSUME TypeOK, HubInv, Close
  PROVE  HubInv'
<1>1. /\ UNCHANGED <<conn, seen, handed, since, queue, issued, todo, at, stage, full, cut>>
      /\ closed' = TRUE /\ shut' = shut \cup subs /\ subs' = {}
  BY DEF Close, connVars, sourceVars
<1>2. RegistrationMatchesChannel'
  BY <1>1 DEF HubInv, Registry, RegistrationMatchesChannel
<1>3. Fresh' /\ FullIsRecorded' /\ subs' \subseteq Subscribers
  BY <1>1 DEF HubInv, Registry, Fresh, FullIsRecorded
<1>4. \A t \in Subscribers, r \in Sources :
        (t \in subs' \ full' => Balance(t, r)') /\ Ordered(t, r)'
  BY <1>1, SamePoint DEF HubInv, InOrder
<1> QED BY <1>2, <1>3, <1>4, PointByPoint DEF Registry

\* Every step keeps the invariant.
LEMMA HubInvStep == TypeOK /\ Publishing /\ HubInv /\ [Next]_vars => HubInv'
<1> SUFFICES ASSUME TypeOK, Publishing, HubInv, [Next]_vars PROVE HubInv'
  OBVIOUS
<1>1. CASE UNCHANGED vars
  <2>1. Registry' /\ subs' \subseteq Subscribers
    BY <1>1 DEF vars, hubVars, connVars, sourceVars, TypeOK,
                HubInv, Registry, RegistrationMatchesChannel, Fresh, FullIsRecorded
  <2>2. \A t \in Subscribers, r \in Sources :
          (t \in subs' \ full' => Balance(t, r)') /\ Ordered(t, r)'
    BY <1>1, SamePoint DEF vars, hubVars, connVars, sourceVars, HubInv, Counted, InOrder
  <2> QED BY <2>1, <2>2, PointByPoint
<1>2. CASE \E p \in Sources : Snapshot(p) \/ PublishStep(p)
  BY <1>2, SnapshotKeeps, PublishInv
<1>3. CASE \E s \in Subscribers : Subscribe(s) \/ HandlerStep(s) \/ Write(s) \/ Disconnect(s)
  BY <1>3, SubscribeInv, ReceiveInv, UnsubscribeInv, HandlerInv DEF HandlerStep
<1> QED BY <1>1, <1>2, <1>3, CloseInv DEF Next

\* The invariants behind what the hub promises, for every number of sources and
\* subscribers, every capacity and every number of events.
THEOREM HubInvCorrect == Spec => []HubInv
<1>1. Init => HubInv
  <2> SUFFICES ASSUME Init PROVE HubInv
    OBVIOUS
  <2>1. Registry
    BY DEF Init, Registry, RegistrationMatchesChannel, Fresh, FullIsRecorded
  <2>2. Counted
    BY DEF Init, Counted
  <2>3. ASSUME NEW s \in Subscribers, NEW p \in Sources PROVE Ordered(s, p)
    <3>1. QueuedOf(queue[s], p) = {} /\ Due(s, p) = 0 /\ seen[s][p] = 0 /\ issued[p] = 0
      BY DEF Init, QueuedOf, Due
    <3> QED BY <3>1 DEF Ordered, Ascending
  <2> QED BY <2>1, <2>2, <2>3 DEF HubInv, InOrder
<1> QED BY <1>1, TypeCorrect, HubInvStep, PTL DEF Spec

\* Hub.subs and the open channels agree, whatever the interleaving of
\* Subscribe, Unsubscribe, Publish and Close.
THEOREM RegistrationCorrect == Spec => []RegistrationMatchesChannel
<1>1. HubInv => RegistrationMatchesChannel
  BY DEF HubInv, Registry
<1> QED BY <1>1, HubInvCorrect, PTL

\* An event that a connected subscriber does not get was lost to overflow or to
\* a publisher's panic.
THEOREM LossesExplained == Spec => []LossHasACause
<1>1. TypeOK /\ HubInv => LossHasACause
  <2> SUFFICES ASSUME TypeOK, HubInv, NEW s \in subs \ full, NEW p \in Sources
               PROVE  issued[p] - since[s][p] =
                        handed[s][p] + Cardinality(QueuedOf(queue[s], p))
                                     + (IF s \in todo[p] THEN 1 ELSE 0) + cut[s][p]
    BY DEF LossHasACause
  <2> QED BY DEF HubInv, Counted, Balance, Due
<1> QED BY <1>1, HubInvCorrect, TypeCorrect, PTL

-----------------------------------------------------------------------------
(* The hub implements the feed.                                            *)

\* Each subscriber sees every source's events in order and at most once: the hub
\* with its snapshots, drops, panics and late deliveries implements EventFeed.
THEOREM FeedImplemented == Spec => FeedSpec
<1>1. Init => Feed!Init
  BY DEF Init, Feed!Init
<1>2. TypeOK /\ Publishing /\ HubInv /\ [Next]_vars => [Feed!Next]_(Feed!vars)
  <2> SUFFICES ASSUME TypeOK, Publishing, HubInv, [Next]_vars PROVE [Feed!Next]_(Feed!vars)
    OBVIOUS
  <2>1. ASSUME NEW p \in Sources, Snapshot(p) PROVE Feed!Next
    <3>1. Feed!Issue(p)
      BY <2>1 DEF Snapshot, connVars, Feed!Issue
    <3> QED BY <3>1 DEF Feed!Next
  <2>2. ASSUME NEW s \in Subscribers, Receive(s) PROVE [Feed!Next]_(Feed!vars)
    <3>1. UNCHANGED queue \/ queue[s] # <<>>
      BY <2>2 DEF Receive
    <3>2. CASE UNCHANGED <<queue, seen, handed>>
      BY <2>2, <3>1, <3>2, ReceiveFacts DEF Feed!vars
    <3>3. CASE /\ queue[s] # <<>> /\ Head(queue[s]) \in Event /\ Head(queue[s]).src \in Sources
               /\ queue' = [queue EXCEPT ![s] = Tail(queue[s])]
               /\ seen' = [seen EXCEPT ![s][Head(queue[s]).src] = Head(queue[s]).n]
               /\ handed' = [handed EXCEPT ![s][Head(queue[s]).src] = @ + 1]
      <4> DEFINE e == Head(queue[s])
                 r == e.src
      <4>1. /\ queue[s] \in Seq(Event) /\ e.n \in Nat \ {0} /\ r \in Sources
            /\ seen[s][r] \in Nat /\ issued[r] \in Nat /\ issued' = issued
        BY <2>2, <3>1, <3>3, Points, ReceiveFacts DEF Event
      <4>2. seen[s][r] < e.n /\ e.n <= issued[r]
        <5>1. Ordered(s, r) /\ Due(s, r) \in {0, 1}
          BY <3>3 DEF HubInv, InOrder, Due
        <5>2. issued[r] - Due(s, r) \in Nat /\ Ascending(queue[s], r, seen[s][r], issued[r] - Due(s, r))
          BY <4>1, <5>1 DEF Ordered
        <5>3. seen[s][r] < e.n /\ e.n <= issued[r] - Due(s, r)
          BY <3>3, <4>1, <5>2, AscendingTail
        <5> HIDE DEF e, r
        <5> QED BY <4>1, <5>1, <5>3
      <4>3. Feed!HandOver(s, r, e.n) /\ e.n \in 1..issued[r]
        <5> HIDE DEF r
        <5>1. e.n \in 1..issued[r]
          BY <4>1, <4>2
        <5> QED BY <3>3, <4>1, <4>2, <5>1 DEF Feed!HandOver, r
      <4> QED BY <3>3, <4>3 DEF Feed!Next
    <3> QED BY <2>2, <3>1, <3>2, <3>3, ReceiveFacts
  <2>3. CASE UNCHANGED <<issued, seen, handed>>
    BY <2>3 DEF Feed!vars
  <2>4. ASSUME NEW p \in Sources, PublishStep(p) PROVE UNCHANGED <<issued, seen, handed>>
    BY <2>4 DEF PublishStep, Offer, DropOldest, Retry, Panic, connVars
  <2>5. ASSUME NEW s \in Subscribers, Subscribe(s) \/ Unsubscribe(s) \/ Write(s) \/ Disconnect(s)
        PROVE  UNCHANGED <<issued, seen, handed>>
    BY <2>5 DEF Subscribe, Unsubscribe, Write, Disconnect, sourceVars
  <2>6. Close \/ UNCHANGED vars => UNCHANGED <<issued, seen, handed>>
    BY DEF Close, vars, connVars, sourceVars
  <2> QED BY <2>1, <2>2, <2>3, <2>4, <2>5, <2>6 DEF Next, HandlerStep
<1> QED BY <1>1, <1>2, TypeCorrect, HubInvCorrect, PTL DEF Spec, FeedSpec, Feed!Spec
=============================================================================
