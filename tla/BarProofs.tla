------------------------------- MODULE BarProofs -------------------------------
(***************************************************************************)
(* What holds of the bar for any set of routes, any number of refreshes    *)
(* under way and channels of any capacity: the status dot follows the      *)
(* stream, and the mirror of the routes lags behind the daemon only for    *)
(* the causes that the model records.                                      *)
(***************************************************************************)
EXTENDS Bar, TLAPS

-----------------------------------------------------------------------------
(* Channels: what they say about one route.                                *)

EventsOf(n) == [type : {"route"}, name : {n}, route : Values \cup {None}]
RouteEvent(n, v) == [type |-> "route", name |-> n, route |-> v]

\* s has no event of route n; its last one is v; none follows a Reconnected.
Silent(s, n) == \A i \in DOMAIN s : s[i] \notin EventsOf(n)
Says(s, n, v) ==
  \E i \in DOMAIN s : /\ s[i] = RouteEvent(n, v)
                      /\ \A j \in DOMAIN s : j > i => s[j] \notin EventsOf(n)
Marked(s, n) ==
  \E i \in DOMAIN s : /\ s[i] = Reconnected
                      /\ \A j \in DOMAIN s : j > i => s[j] \notin EventsOf(n)

\* A bounded sequence is a sequence of at most m elements.
LEMMA BoundedIsSeq ==
  ASSUME NEW S, NEW m \in Nat, NEW s
  PROVE  s \in BoundedSeq(S, m) <=> s \in Seq(S) /\ Len(s) <= m
<1>1. ASSUME s \in BoundedSeq(S, m) PROVE s \in Seq(S) /\ Len(s) <= m
  <2>1. PICK k \in 0..m : s \in [1..k -> S]
    BY <1>1 DEF BoundedSeq, SeqOf
  <2> QED BY <2>1
<1>2. ASSUME s \in Seq(S), Len(s) <= m PROVE s \in BoundedSeq(S, m)
  <2>1. Len(s) \in 0..m /\ s \in [1..Len(s) -> S]
    BY <1>2
  <2> QED BY <2>1 DEF BoundedSeq, SeqOf
<1> QED BY <1>1, <1>2

\* What Append does, place by place.
LEMMA AppendFacts ==
  ASSUME NEW S, NEW s \in Seq(S), NEW e \in S
  PROVE  /\ Append(s, e) \in Seq(S)
         /\ Len(Append(s, e)) = Len(s) + 1 /\ Len(s) \in Nat
         /\ DOMAIN s = 1..Len(s) /\ DOMAIN Append(s, e) = 1..(Len(s) + 1)
         /\ \A i \in DOMAIN s : Append(s, e)[i] = s[i]
         /\ Append(s, e)[Len(s) + 1] = e
OBVIOUS

\* What Tail does, place by place.
LEMMA TailFacts ==
  ASSUME NEW S, NEW s \in Seq(S), s # <<>>
  PROVE  /\ Tail(s) \in Seq(S) /\ Len(Tail(s)) = Len(s) - 1 /\ Len(s) \in Nat \ {0}
         /\ DOMAIN s = 1..Len(s) /\ DOMAIN Tail(s) = 1..(Len(s) - 1)
         /\ \A i \in DOMAIN Tail(s) : i + 1 \in DOMAIN s /\ Tail(s)[i] = s[i + 1]
         /\ \A i \in DOMAIN s : i # 1 => i - 1 \in DOMAIN Tail(s) /\ Tail(s)[i - 1] = s[i]
         /\ Head(s) = s[1] /\ 1 \in DOMAIN s /\ Head(s) \in S
OBVIOUS

\* What is appended is the last word on its route, and says nothing of others.
LEMMA AppendSays ==
  ASSUME NEW S, NEW s \in Seq(S), NEW e \in S, NEW n, NEW v
  PROVE  /\ Silent(s, n) /\ e \notin EventsOf(n) => Silent(Append(s, e), n)
         /\ Says(s, n, v) /\ e \notin EventsOf(n) => Says(Append(s, e), n, v)
         /\ e = RouteEvent(n, v) => Says(Append(s, e), n, v)
         /\ Marked(s, n) /\ e \notin EventsOf(n) => Marked(Append(s, e), n)
         /\ e = Reconnected => Marked(Append(s, e), n)
<1> DEFINE t == Append(s, e)
<1>1. /\ t \in Seq(S) /\ Len(s) \in Nat
      /\ DOMAIN s = 1..Len(s) /\ DOMAIN t = 1..(Len(s) + 1)
      /\ \A i \in DOMAIN s : t[i] = s[i]
      /\ t[Len(s) + 1] = e
  BY AppendFacts
<1> HIDE DEF t
<1>2. ASSUME NEW x, \E i \in DOMAIN s : /\ s[i] = x
                                        /\ \A j \in DOMAIN s : j > i => s[j] \notin EventsOf(n),
             e \notin EventsOf(n)
      PROVE  \E i \in DOMAIN t : t[i] = x /\ \A j \in DOMAIN t : j > i => t[j] \notin EventsOf(n)
  BY <1>1, <1>2
<1>3. \E i \in DOMAIN t : t[i] = e /\ \A j \in DOMAIN t : j > i => t[j] \notin EventsOf(n)
  <2>1. Len(s) + 1 \in DOMAIN t /\ \A j \in DOMAIN t : ~(j > Len(s) + 1)
    BY <1>1
  <2> QED BY <1>1, <2>1
<1>4. Silent(s, n) /\ e \notin EventsOf(n) => Silent(t, n)
  BY <1>1 DEF Silent
<1>5. Says(s, n, v) /\ e \notin EventsOf(n) => Says(t, n, v)
  BY <1>2 DEF Says
<1>6. e = RouteEvent(n, v) => Says(t, n, v)
  BY <1>3 DEF Says
<1>7. Marked(s, n) /\ e \notin EventsOf(n) => Marked(t, n)
  BY <1>2 DEF Marked
<1>8. e = Reconnected => Marked(t, n)
  BY <1>3 DEF Marked
<1> QED BY <1>4, <1>5, <1>6, <1>7, <1>8 DEF t

\* The last word stays when the head is taken, unless it was the head.
LEMMA TailSays ==
  ASSUME NEW S, NEW s \in Seq(S), s # <<>>, NEW n, NEW v
  PROVE  /\ Silent(s, n) => Silent(Tail(s), n) /\ Head(s) \notin EventsOf(n)
         /\ Says(s, n, v) => \/ Says(Tail(s), n, v)
                             \/ Head(s) = RouteEvent(n, v) /\ Silent(Tail(s), n)
         /\ Marked(s, n) => \/ Marked(Tail(s), n)
                            \/ Head(s) = Reconnected /\ Silent(Tail(s), n)
<1> DEFINE t == Tail(s)
           h == Head(s)
<1>1. /\ Len(s) \in Nat \ {0}
      /\ DOMAIN s = 1..Len(s) /\ DOMAIN t = 1..(Len(s) - 1)
      /\ \A i \in DOMAIN t : i + 1 \in DOMAIN s /\ t[i] = s[i + 1]
      /\ \A i \in DOMAIN s : i # 1 => i - 1 \in DOMAIN t /\ t[i - 1] = s[i]
      /\ h = s[1] /\ 1 \in DOMAIN s
  BY TailFacts
<1> HIDE DEF t, h
<1>2. Silent(s, n) => Silent(t, n) /\ h \notin EventsOf(n)
  BY <1>1 DEF Silent
<1>3. ASSUME NEW x, \E i \in DOMAIN s : /\ s[i] = x
                                        /\ \A j \in DOMAIN s : j > i => s[j] \notin EventsOf(n)
      PROVE  \/ \E i \in DOMAIN t : t[i] = x /\ \A j \in DOMAIN t : j > i => t[j] \notin EventsOf(n)
             \/ h = x /\ Silent(t, n)
  <2>1. PICK i \in DOMAIN s : s[i] = x /\ \A j \in DOMAIN s : j > i => s[j] \notin EventsOf(n)
    BY <1>3
  <2>2. CASE i = 1
    <3>1. ASSUME NEW j \in DOMAIN t PROVE t[j] \notin EventsOf(n)
      <4>1. j + 1 \in DOMAIN s /\ t[j] = s[j + 1] /\ j + 1 > i
        BY <1>1, <2>2
      <4> QED BY <2>1, <4>1
    <3> QED BY <1>1, <2>1, <2>2, <3>1 DEF Silent
  <2>3. CASE i # 1
    <3>1. i - 1 \in DOMAIN t /\ t[i - 1] = x
      BY <1>1, <2>1, <2>3
    <3>2. ASSUME NEW j \in DOMAIN t, j > i - 1 PROVE t[j] \notin EventsOf(n)
      <4>1. j + 1 \in DOMAIN s /\ t[j] = s[j + 1] /\ j + 1 > i
        BY <1>1, <3>2
      <4> QED BY <2>1, <4>1
    <3> QED BY <3>1, <3>2
  <2> QED BY <2>2, <2>3
<1>4. Says(s, n, v) => Says(t, n, v) \/ (h = RouteEvent(n, v) /\ Silent(t, n))
  BY <1>3 DEF Says
<1>5. Marked(s, n) => Marked(t, n) \/ (h = Reconnected /\ Silent(t, n))
  BY <1>3 DEF Marked
<1> QED BY <1>2, <1>4, <1>5 DEF t, h

-----------------------------------------------------------------------------
(* The client's channel o and the hub's channel q together: a mirror that   *)
(* says x of route n comes to say v; what they say of n ends with v.        *)

Comes(o, q, x, n, v) ==
  \/ Says(q, n, v)
  \/ Silent(q, n) /\ (Says(o, n, v) \/ (Silent(o, n) /\ x = v))
Published(q, n, v) == Says(q, n, v) \/ Silent(q, n)
EndsWith(o, q, n, v) ==
  \/ Says(q, n, v)
  \/ Silent(q, n) /\ (Says(o, n, v) \/ Silent(o, n) \/ Marked(o, n))

Wire == RouteEvents \cup {Reconnected, Disconnected}

\* An event that moves from the hub's channel to the client's changes nothing.
LEMMA Moved ==
  ASSUME NEW o \in Seq(Wire), NEW q \in Seq(RouteEvents), q # <<>>, NEW n, NEW v
  PROVE  /\ \A x : Comes(o, q, x, n, v) => Comes(Append(o, Head(q)), Tail(q), x, n, v)
         /\ EndsWith(o, q, n, v) => EndsWith(Append(o, Head(q)), Tail(q), n, v)
         /\ Published(q, n, v) => Published(Tail(q), n, v)
<1>1. Head(q) \in Wire
  BY TailFacts DEF Wire
<1>2. /\ Silent(o, n) /\ Head(q) \notin EventsOf(n) => Silent(Append(o, Head(q)), n)
      /\ Says(o, n, v) /\ Head(q) \notin EventsOf(n) => Says(Append(o, Head(q)), n, v)
      /\ Head(q) = RouteEvent(n, v) => Says(Append(o, Head(q)), n, v)
      /\ Marked(o, n) /\ Head(q) \notin EventsOf(n) => Marked(Append(o, Head(q)), n)
  BY <1>1, AppendSays
<1>3. /\ Silent(q, n) => Silent(Tail(q), n) /\ Head(q) \notin EventsOf(n)
      /\ Says(q, n, v) => \/ Says(Tail(q), n, v)
                          \/ Head(q) = RouteEvent(n, v) /\ Silent(Tail(q), n)
  BY TailSays
<1> QED BY <1>2, <1>3 DEF Comes, EndsWith, Published

\* An event about another route changes nothing, one about n is the last word.
LEMMA PublishedMore ==
  ASSUME NEW o, NEW q \in Seq(RouteEvents), NEW e \in RouteEvents, NEW n, NEW v,
         Len(q) \in Nat
  PROVE  /\ e \notin EventsOf(n) =>
              /\ \A x : Comes(o, q, x, n, v) => Comes(o, Append(q, e), x, n, v)
              /\ EndsWith(o, q, n, v) => EndsWith(o, Append(q, e), n, v)
              /\ Published(q, n, v) => Published(Append(q, e), n, v)
         /\ e = RouteEvent(n, v) =>
              /\ \A x : Comes(o, Append(q, e), x, n, v)
              /\ EndsWith(o, Append(q, e), n, v) /\ Published(Append(q, e), n, v)
<1>1. /\ Silent(q, n) /\ e \notin EventsOf(n) => Silent(Append(q, e), n)
      /\ Says(q, n, v) /\ e \notin EventsOf(n) => Says(Append(q, e), n, v)
      /\ e = RouteEvent(n, v) => Says(Append(q, e), n, v)
  BY AppendSays
<1> QED BY <1>1 DEF Comes, EndsWith, Published

\* A mirror that applies what it receives comes to say the same.
LEMMA Received ==
  ASSUME NEW o \in Seq(Wire), o # <<>>, NEW q, NEW n, NEW v \in Values \cup {None}
  PROVE  /\ Head(o) \notin EventsOf(n) =>
              \A x : Comes(o, q, x, n, v) => Comes(Tail(o), q, x, n, v)
         /\ \A x : \A w \in Values \cup {None} :
              Head(o) = RouteEvent(n, w) /\ Comes(o, q, x, n, v) => Comes(Tail(o), q, w, n, v)
         /\ EndsWith(o, q, n, v) => EndsWith(Tail(o), q, n, v)
<1>1. /\ Silent(o, n) => Silent(Tail(o), n) /\ Head(o) \notin EventsOf(n)
      /\ Says(o, n, v) => \/ Says(Tail(o), n, v)
                          \/ Head(o) = RouteEvent(n, v) /\ Silent(Tail(o), n)
      /\ Marked(o, n) => Marked(Tail(o), n) \/ Silent(Tail(o), n)
  BY TailSays
<1>2. ASSUME NEW w \in Values \cup {None} PROVE RouteEvent(n, w) \in EventsOf(n)
  BY DEF RouteEvent, EventsOf
<1>3. ASSUME NEW w \in Values \cup {None}, Head(o) = RouteEvent(n, w), Head(o) = RouteEvent(n, v)
      PROVE  w = v
  BY <1>3 DEF RouteEvent
<1>4. ASSUME Head(o) \notin EventsOf(n), NEW x, Comes(o, q, x, n, v)
      PROVE  Comes(Tail(o), q, x, n, v)
  BY <1>1, <1>2, <1>4 DEF Comes
<1>5. ASSUME NEW x, NEW w \in Values \cup {None}, Head(o) = RouteEvent(n, w), Comes(o, q, x, n, v)
      PROVE  Comes(Tail(o), q, w, n, v)
  BY <1>1, <1>2, <1>3, <1>5 DEF Comes
<1>6. EndsWith(o, q, n, v) => EndsWith(Tail(o), q, n, v)
  BY <1>1 DEF EndsWith
<1> QED BY <1>4, <1>5, <1>6

-----------------------------------------------------------------------------
(* Type correctness.                                                       *)

Listed(r) == refresh[r].stage = "listed"
ListsAreLists == \A r \in Refreshers : Listed(r) => refresh[r].list \in Lists

WellTyped == TypeOK /\ ListsAreLists

\* TypeOK with sequences for bounded sequences.
LEMMA TypeFacts ==
  TypeOK <=>
    /\ up \in BOOLEAN /\ store \in Lists /\ unpublished \in Names \cup {None}
    /\ conn \in {"none", "open", "registered"}
    /\ queue \in Seq(RouteEvents) /\ Len(queue) <= HubCap
    /\ stage \in {"dial", "announce", "stream", "lost"}
    /\ out \in Seq(Wire) /\ Len(out) <= OutCap
    /\ mirror \in Lists /\ daemonUp \in BOOLEAN
    /\ refresh \in [Refreshers -> Refreshes]
    /\ marker \in {Reconnected, Disconnected}
    /\ causes \subseteq Causes /\ lateStatus \in BOOLEAN
<1>1. HubCap \in Nat /\ OutCap \in Nat
  BY BarAssumption
<1>2. queue \in BoundedSeq(RouteEvents, HubCap) <=> queue \in Seq(RouteEvents) /\ Len(queue) <= HubCap
  BY <1>1, BoundedIsSeq
<1>3. out \in BoundedSeq(RouteEvents \cup {Reconnected, Disconnected}, OutCap)
        <=> out \in Seq(Wire) /\ Len(out) <= OutCap
  BY <1>1, BoundedIsSeq DEF Wire
<1> QED BY <1>2, <1>3 DEF TypeOK

\* The same after a step.
LEMMA TypeFactsNext ==
  TypeOK' <=>
    /\ up' \in BOOLEAN /\ store' \in Lists /\ unpublished' \in Names \cup {None}
    /\ conn' \in {"none", "open", "registered"}
    /\ queue' \in Seq(RouteEvents) /\ Len(queue') <= HubCap
    /\ stage' \in {"dial", "announce", "stream", "lost"}
    /\ out' \in Seq(Wire) /\ Len(out') <= OutCap
    /\ mirror' \in Lists /\ daemonUp' \in BOOLEAN
    /\ refresh' \in [Refreshers -> Refreshes]
    /\ marker' \in {Reconnected, Disconnected}
    /\ causes' \subseteq Causes /\ lateStatus' \in BOOLEAN
<1>1. HubCap \in Nat /\ OutCap \in Nat
  BY BarAssumption
<1>2. queue' \in BoundedSeq(RouteEvents, HubCap) <=> queue' \in Seq(RouteEvents) /\ Len(queue') <= HubCap
  BY <1>1, BoundedIsSeq
<1>3. out' \in BoundedSeq(RouteEvents \cup {Reconnected, Disconnected}, OutCap)
        <=> out' \in Seq(Wire) /\ Len(out') <= OutCap
  BY <1>1, BoundedIsSeq DEF Wire
<1> QED BY <1>2, <1>3 DEF TypeOK

\* What is appended to a channel with room fits, and so does what is left.
LEMMA Fits ==
  ASSUME NEW S, NEW s \in Seq(S), NEW m \in Nat, Len(s) <= m
  PROVE  /\ \A e \in S : Append(s, e) \in Seq(S) /\ (Len(s) < m => Len(Append(s, e)) <= m)
         /\ s # <<>> => Tail(s) \in Seq(S) /\ Len(Tail(s)) <= m /\ Head(s) \in S
                        /\ \A e \in S : Append(Tail(s), e) \in Seq(S) /\ Len(Append(Tail(s), e)) <= m
         /\ <<>> \in Seq(S) /\ Len(<<>>) <= m
<1>1. Len(s) \in Nat
  OBVIOUS
<1>2. \A e \in S : Append(s, e) \in Seq(S) /\ (Len(s) < m => Len(Append(s, e)) <= m)
  BY <1>1, AppendFacts
<1>3. ASSUME s # <<>>
      PROVE  /\ Tail(s) \in Seq(S) /\ Len(Tail(s)) <= m /\ Head(s) \in S
             /\ \A e \in S : Append(Tail(s), e) \in Seq(S) /\ Len(Append(Tail(s), e)) <= m
  <2>1. /\ Tail(s) \in Seq(S) /\ Len(Tail(s)) = Len(s) - 1 /\ Head(s) \in S
        /\ Len(s) \in Nat \ {0}
    BY <1>3, TailFacts
  <2>2. \A e \in S : Append(Tail(s), e) \in Seq(S) /\ Len(Append(Tail(s), e)) = Len(Tail(s)) + 1
    BY <2>1, AppendFacts
  <2> QED BY <2>1, <2>2
<1> QED BY <1>2, <1>3

\* What a publication makes of the hub's channel, and of the causes.
LEMMA PublishFacts ==
  ASSUME WellTyped, PublishChange
  PROVE  LET e == RouteEvent(unpublished, store[unpublished])
         IN /\ unpublished \in Names /\ e \in RouteEvents
            /\ queue' \in Seq(RouteEvents) /\ Len(queue') <= HubCap
            /\ causes' \subseteq Causes /\ causes \subseteq causes'
            /\ ~Registered => queue' = queue
            /\ conn = "open" => causes' # {}
            /\ Registered /\ causes' = {} => queue' = Append(queue, e)
<1> DEFINE e == RouteEvent(unpublished, store[unpublished])
<1>1. /\ queue \in Seq(RouteEvents) /\ Len(queue) <= HubCap /\ HubCap \in Nat
      /\ unpublished \in Names /\ store \in [Names -> Values \cup {None}]
      /\ causes \subseteq Causes
  BY TypeFacts, BarAssumption DEF WellTyped, PublishChange, Lists
<1>2. e \in RouteEvents
  BY <1>1 DEF RouteEvent, RouteEvents
<1>3. CASE Registered
  <2>1. Publish(e) /\ causes' = causes \cup (IF queue' = Append(queue, e) THEN {} ELSE {"dropped"})
    BY <1>3 DEF PublishChange, RouteEvent
  <2> HIDE DEF e
  <2>2. \/ Len(queue) < HubCap /\ queue' = Append(queue, e)
        \/ queue # <<>> /\ queue' \in {Tail(queue), Append(Tail(queue), e)}
        \/ queue' = queue
    BY <2>1 DEF Publish
  <2>3. queue' \in Seq(RouteEvents) /\ Len(queue') <= HubCap
    <3>1. CASE Len(queue) < HubCap /\ queue' = Append(queue, e)
      BY <1>1, <1>2, <3>1, Fits
    <3>2. CASE queue # <<>> /\ queue' \in {Tail(queue), Append(Tail(queue), e)}
      <4>1. /\ Tail(queue) \in Seq(RouteEvents) /\ Len(Tail(queue)) <= HubCap
            /\ \A f \in RouteEvents : /\ Append(Tail(queue), f) \in Seq(RouteEvents)
                                      /\ Len(Append(Tail(queue), f)) <= HubCap
        BY <1>1, <3>2, Fits
      <4> QED BY <1>2, <3>2, <4>1
    <3> QED BY <1>1, <2>2, <3>1, <3>2
  <2>4. conn # "open"
    BY <1>3 DEF Registered
  <2>5. causes' \subseteq Causes
    BY <1>1, <2>1 DEF Causes
  <2> QED BY <1>1, <1>2, <1>3, <2>1, <2>3, <2>4, <2>5 DEF e
<1>4. CASE ~Registered
  <2>1. queue' = queue /\ causes' = causes \cup (IF conn = "open" THEN {"unseen"} ELSE {})
    BY <1>4 DEF PublishChange
  <2>2. causes' \subseteq Causes
    BY <1>1, <2>1 DEF Causes
  <2> QED BY <1>1, <1>2, <1>4, <2>1, <2>2
<1> QED BY <1>3, <1>4

\* What the client and the daemon do leaves the types as they are.
LEMMA StreamType ==
  ASSUME WellTyped
  PROVE  /\ \A n \in Names, v \in Values \cup {None} : Change(n, v) => WellTyped'
         /\ PublishChange \/ AbortPublish \/ PublishTick => WellTyped'
         /\ StartDaemon \/ StopDaemon \/ CutStream \/ Register => WellTyped'
         /\ ClientStep => WellTyped'
<1> USE TypeFacts, TypeFactsNext DEF WellTyped, daemonVars, stateVars, historyVars, beyondPublication
<1>1. UNCHANGED refresh => ListsAreLists'
  BY DEF ListsAreLists, Listed
<1>2. HubCap \in Nat \ {0} /\ OutCap \in Nat \ {0}
  BY BarAssumption
<1>3. ASSUME NEW n \in Names, NEW v \in Values \cup {None}, Change(n, v) PROVE WellTyped'
  <2>1. store' \in Lists
    BY <1>3 DEF Change, Lists
  <2> QED BY <1>1, <1>3, <2>1 DEF Change
<1>11. CASE PublishChange
  BY <1>1, <1>11, PublishFacts DEF PublishChange
<1>12. CASE AbortPublish
  <2>1. causes' \subseteq Causes
    BY <1>12 DEF AbortPublish, Causes
  <2> QED BY <1>1, <1>12, <2>1 DEF AbortPublish
<1>13. CASE PublishTick
  <2>1. queue' \in Seq(RouteEvents) /\ Len(queue') <= HubCap
    BY <1>2, <1>13, Fits DEF PublishTick
  <2>2. causes' \subseteq Causes
    BY <1>13 DEF PublishTick, Causes
  <2> QED BY <1>1, <1>13, <2>1, <2>2 DEF PublishTick
<1>4. ASSUME StartDaemon \/ StopDaemon \/ CutStream \/ Register PROVE WellTyped'
  <2>1. <<>> \in Seq(RouteEvents) /\ Len(<<>>) <= HubCap
    BY <1>2, Fits
  <2> QED BY <1>1, <1>4, <2>1 DEF StartDaemon, StopDaemon, CutStream, Register, Cut
<1>5. ASSUME NEW e \in Wire, Send(e) PROVE out' \in Seq(Wire) /\ Len(out') <= OutCap
  BY <1>2, <1>5, Fits DEF Send
<1>6. CASE Dial
  BY <1>1, <1>6 DEF Dial, beyondClient
<1>7. CASE Announce
  BY <1>1, <1>5, <1>7 DEF Announce, beyondClient, Wire
<1>8. CASE Deliver
  <2>1. Head(queue) \in Wire /\ Tail(queue) \in Seq(RouteEvents) /\ Len(Tail(queue)) <= HubCap
    BY <1>2, <1>8, Fits DEF Deliver, Wire
  <2> QED BY <1>1, <1>5, <1>8, <2>1 DEF Deliver, beyondClient
<1>9. CASE EndOfStream
  BY <1>1, <1>9 DEF EndOfStream, beyondClient
<1>10. CASE Lose
  BY <1>1, <1>5, <1>10 DEF Lose, beyondClient, Wire
<1> QED BY <1>3, <1>4, <1>6, <1>7, <1>8, <1>9, <1>10, <1>11, <1>12, <1>13 DEF ClientStep

\* What Passed leaves of each refresh.
LEMMA PassedFacts ==
  ASSUME TypeOK, NEW x, NEW q \in Refreshers
  PROVE  /\ Passed(x) \in [Refreshers -> Refreshes]
         /\ Passed(x)[q].stage = refresh[q].stage /\ Passed(x)[q].list = refresh[q].list
         /\ q # x /\ Listed(q) => Passed(x)[q].passed = TRUE
<1>1. refresh \in [Refreshers -> Refreshes]
  BY TypeFacts
<1>2. \A r \in Refreshers : [refresh[r] EXCEPT !.passed = TRUE] \in Refreshes
  BY <1>1 DEF Refreshes
<1>3. Passed(x) \in [Refreshers -> Refreshes]
  BY <1>1, <1>2 DEF Passed
<1>4. /\ [refresh[q] EXCEPT !.passed = TRUE].stage = refresh[q].stage
      /\ [refresh[q] EXCEPT !.passed = TRUE].list = refresh[q].list
      /\ [refresh[q] EXCEPT !.passed = TRUE].passed = TRUE
  BY <1>1 DEF Refreshes
<1> QED BY <1>3, <1>4 DEF Passed, Listed

\* A refresh that is set to stage s, with ok and the list l.
LEMMA SetFacts ==
  ASSUME TypeOK, NEW r \in Refreshers, NEW s \in RefreshStage,
         NEW ok \in BOOLEAN, NEW l \in Lists \cup {None}
  PROVE  /\ [refresh EXCEPT ![r].stage = s] \in [Refreshers -> Refreshes]
         /\ [refresh EXCEPT ![r].stage = s, ![r].ok = ok] \in [Refreshers -> Refreshes]
         /\ [refresh EXCEPT ![r].stage = s, ![r].list = l] \in [Refreshers -> Refreshes]
         /\ [refresh EXCEPT ![r] = NoRefresh] \in [Refreshers -> Refreshes]
         /\ NoRefresh \in Refreshes
<1>1. refresh \in [Refreshers -> Refreshes]
  BY TypeFacts
<1>2. /\ [refresh[r] EXCEPT !.stage = s] \in Refreshes
      /\ [refresh[r] EXCEPT !.stage = s, !.ok = ok] \in Refreshes
      /\ [refresh[r] EXCEPT !.stage = s, !.list = l] \in Refreshes
  BY <1>1 DEF Refreshes
<1>3. NoRefresh \in Refreshes
  BY DEF NoRefresh, Refreshes, RefreshStage
<1> QED BY <1>1, <1>2, <1>3

\* What the bar receives is a route event or a marker.
LEMMA HeadOfOut ==
  ASSUME TypeOK, out # <<>>
  PROVE  /\ Tail(out) \in Seq(Wire) /\ Len(Tail(out)) <= OutCap
         /\ Head(out) \in RouteEvents \/ Head(out) \in {Reconnected, Disconnected}
         /\ Reconnected \notin RouteEvents /\ Disconnected \notin RouteEvents
         /\ Reconnected # Disconnected
<1>1. OutCap \in Nat
  BY BarAssumption
<1>2. Head(out) \in Wire /\ Tail(out) \in Seq(Wire) /\ Len(Tail(out)) <= OutCap
  BY <1>1, TypeFacts, Fits
<1>3. Reconnected \notin RouteEvents /\ Disconnected \notin RouteEvents /\ Reconnected # Disconnected
  BY DEF Reconnected, Disconnected, RouteEvents
<1> QED BY <1>2, <1>3 DEF Wire

\* The bar taking an event keeps the types.
LEMMA ReceiveType ==
  ASSUME WellTyped, Receive
  PROVE  WellTyped'
<1> USE TypeFacts, TypeFactsNext DEF WellTyped, daemonVars, stateVars, historyVars
<1> DEFINE e == Head(out)
<1>1. /\ out' \in Seq(Wire) /\ Len(out') <= OutCap
      /\ e \in RouteEvents \/ e \in {Reconnected, Disconnected}
      /\ UNCHANGED <<up, store, unpublished, conn, queue, stage, causes>>
  BY HeadOfOut DEF Receive
<1>2. CASE e \in RouteEvents
  <2>1. ApplyRoute(e)
    BY <1>2 DEF Receive
  <2>2. e.name \in Names /\ e.route \in Values \cup {None}
    BY <1>2 DEF RouteEvents
  <2> HIDE DEF e
  <2>3. mirror' \in Lists
    BY <2>1, <2>2 DEF ApplyRoute, Lists
  <2>4. refresh' \in [Refreshers -> Refreshes] /\ ListsAreLists'
    <3>1. refresh' = Passed(None)
      BY <2>1 DEF ApplyRoute
    <3>2. CASE Refreshers = {}
      BY <3>1, <3>2 DEF Passed, ListsAreLists
    <3>3. CASE Refreshers # {}
      BY <3>1, <3>3, PassedFacts DEF ListsAreLists, Listed
    <3> QED BY <3>2, <3>3
  <2> QED BY <1>1, <2>1, <2>3, <2>4 DEF ApplyRoute
<1>3. CASE e \notin RouteEvents
  <2>1. ApplyMarker(e) /\ e \in {Reconnected, Disconnected}
    BY <1>1, <1>3 DEF Receive
  <2> HIDE DEF e
  <2>2. refresh' \in [Refreshers -> Refreshes] /\ ListsAreLists'
    <3>1. CASE e = Reconnected
      <4>1. PICK r \in FreeRefreshers : refresh' = [refresh EXCEPT ![r].stage = "status"]
        BY <2>1, <3>1 DEF ApplyMarker
      <4>2. r \in Refreshers /\ "status" \in RefreshStage
        BY DEF FreeRefreshers, RefreshStage
      <4>3. refresh' \in [Refreshers -> Refreshes]
        BY <4>1, <4>2, SetFacts
      <4>4. refresh'[r].stage = "status" /\ \A q \in Refreshers \ {r} : refresh'[q] = refresh[q]
        BY <4>1, <4>2 DEF Refreshes
      <4> QED BY <4>3, <4>4 DEF ListsAreLists, Listed
    <3>2. CASE e # Reconnected
      BY <2>1, <3>2 DEF ApplyMarker, ListsAreLists, Listed
    <3> QED BY <3>1, <3>2
  <2>3. daemonUp' \in BOOLEAN
    <3>1. (e = Reconnected) \in BOOLEAN
      OBVIOUS
    <3> QED BY <2>1, <3>1 DEF ApplyMarker
  <2> QED BY <1>1, <2>1, <2>2, <2>3 DEF ApplyMarker
<1> QED BY <1>2, <1>3

\* The stages of a refresh, and what each step makes of it.
LEMMA RefreshFacts ==
  ASSUME WellTyped, NEW r \in Refreshers
  PROVE  /\ AskStatus(r) => refresh'[r].stage = "answered"
         /\ ApplyStatus(r) => refresh'[r].stage = "routes"
         /\ AskRoutes(r) => \/ refresh'[r].stage = "listed" /\ refresh'[r].list = store /\ up
                            \/ refresh'[r].stage = "off" /\ causes' = causes \cup {"failed"}
         /\ AskRoutes(r) /\ refresh'[r].stage = "listed" => UNCHANGED causes
         /\ AskStatus(r) \/ ApplyStatus(r) \/ AskRoutes(r) =>
              /\ refresh' \in [Refreshers -> Refreshes]
              /\ \A q \in Refreshers \ {r} : refresh'[q] = refresh[q]
         /\ ApplyRoutes(r) =>
              /\ refresh' \in [Refreshers -> Refreshes]
              /\ refresh'[r].stage = "off"
              /\ \A q \in Refreshers \ {r} :
                   /\ refresh'[q].stage = refresh[q].stage /\ refresh'[q].list = refresh[q].list
                   /\ Listed(q) => refresh'[q].passed = TRUE
<1>0. refresh \in [Refreshers -> Refreshes] /\ store \in Lists
  BY TypeFacts DEF WellTyped
<1>1. ASSUME AskStatus(r)
      PROVE  /\ refresh'[r].stage = "answered" /\ refresh' \in [Refreshers -> Refreshes]
             /\ \A q \in Refreshers \ {r} : refresh'[q] = refresh[q]
  <2>1. PICK ok \in BOOLEAN : refresh' = [refresh EXCEPT ![r].stage = "answered", ![r].ok = ok]
    BY <1>1 DEF AskStatus
  <2>2. refresh' \in [Refreshers -> Refreshes]
    BY <2>1, SetFacts DEF WellTyped, RefreshStage
  <2> QED BY <1>0, <2>1, <2>2 DEF Refreshes
<1>2. ASSUME ApplyStatus(r)
      PROVE  /\ refresh'[r].stage = "routes" /\ refresh' \in [Refreshers -> Refreshes]
             /\ \A q \in Refreshers \ {r} : refresh'[q] = refresh[q]
  <2>1. refresh' = [refresh EXCEPT ![r].stage = "routes", ![r].ok = FALSE]
    BY <1>2 DEF ApplyStatus
  <2>2. refresh' \in [Refreshers -> Refreshes]
    BY <2>1, SetFacts DEF WellTyped, RefreshStage
  <2> QED BY <1>0, <2>1, <2>2 DEF Refreshes
<1>3. ASSUME AskRoutes(r)
      PROVE  /\ \/ refresh'[r].stage = "listed" /\ refresh'[r].list = store /\ up
                \/ refresh'[r].stage = "off" /\ causes' = causes \cup {"failed"}
             /\ refresh'[r].stage = "listed" => UNCHANGED causes
             /\ refresh' \in [Refreshers -> Refreshes]
             /\ \A q \in Refreshers \ {r} : refresh'[q] = refresh[q]
  <2>1. CASE up /\ refresh' = [refresh EXCEPT ![r].stage = "listed", ![r].list = store]
             /\ UNCHANGED causes
    <3>1. refresh' \in [Refreshers -> Refreshes]
      BY <1>0, <2>1, SetFacts DEF WellTyped, RefreshStage
    <3> QED BY <1>0, <2>1, <3>1 DEF Refreshes
  <2>2. CASE refresh' = [refresh EXCEPT ![r] = NoRefresh] /\ causes' = causes \cup {"failed"}
    <3>1. refresh' \in [Refreshers -> Refreshes]
      BY <1>0, <2>2, SetFacts DEF WellTyped, RefreshStage
    <3> QED BY <1>0, <2>2, <3>1 DEF NoRefresh
  <2> QED BY <1>3, <2>1, <2>2 DEF AskRoutes
<1>4. ASSUME ApplyRoutes(r)
      PROVE  /\ refresh' \in [Refreshers -> Refreshes] /\ refresh'[r].stage = "off"
             /\ \A q \in Refreshers \ {r} :
                   /\ refresh'[q].stage = refresh[q].stage /\ refresh'[q].list = refresh[q].list
                   /\ Listed(q) => refresh'[q].passed = TRUE
  <2>1. refresh' = [Passed(r) EXCEPT ![r] = NoRefresh]
    BY <1>4 DEF ApplyRoutes
  <2>2. Passed(r) \in [Refreshers -> Refreshes] /\ NoRefresh \in Refreshes
    BY PassedFacts, SetFacts DEF WellTyped, RefreshStage
  <2>3. /\ refresh' \in [Refreshers -> Refreshes] /\ refresh'[r] = NoRefresh
        /\ \A q \in Refreshers \ {r} : refresh'[q] = Passed(r)[q]
    BY <2>1, <2>2
  <2>4. ASSUME NEW q \in Refreshers \ {r}
        PROVE  /\ refresh'[q].stage = refresh[q].stage /\ refresh'[q].list = refresh[q].list
               /\ Listed(q) => refresh'[q].passed = TRUE
    <3>1. /\ Passed(r)[q].stage = refresh[q].stage /\ Passed(r)[q].list = refresh[q].list
          /\ Listed(q) => Passed(r)[q].passed = TRUE
      BY PassedFacts DEF WellTyped
    <3> QED BY <2>3, <3>1
  <2>5. refresh'[r].stage = "off"
    BY <2>3 DEF NoRefresh
  <2>6. refresh' \in [Refreshers -> Refreshes]
    BY <2>3
  <2> QED BY <2>4, <2>5, <2>6
<1> QED BY <1>1, <1>2, <1>3, <1>4

\* A step of a refresh keeps the types.
LEMMA RefreshType ==
  ASSUME WellTyped, NEW r \in Refreshers, RefreshStep(r)
  PROVE  WellTyped'
<1> USE TypeFacts, TypeFactsNext, RefreshFacts DEF WellTyped, daemonVars, stateVars, historyVars
<1>1. CASE AskStatus(r)
  BY <1>1 DEF AskStatus, ListsAreLists, Listed
<1>2. CASE ApplyStatus(r)
  <2>1. daemonUp' \in BOOLEAN /\ lateStatus' \in BOOLEAN
    <3>1. /\ (daemonUp \/ refresh[r].ok) \in BOOLEAN
          /\ (lateStatus \/ (refresh[r].ok /\ marker = Disconnected)) \in BOOLEAN
      OBVIOUS
    <3> QED BY <1>2, <3>1, Zenon DEF ApplyStatus
  <2> QED BY <1>2, <2>1 DEF ApplyStatus, ListsAreLists, Listed
<1>3. CASE AskRoutes(r)
  <2>1. causes' \subseteq Causes
    BY <1>3 DEF AskRoutes, Causes
  <2> QED BY <1>3, <2>1 DEF AskRoutes, ListsAreLists, Listed
<1>4. CASE ApplyRoutes(r)
  <2>1. causes' \subseteq Causes
    BY <1>4 DEF ApplyRoutes, Causes
  <2>2. mirror' \in Lists
    BY <1>4 DEF ApplyRoutes, ReplaceRoutes, ListsAreLists, Listed
  <2> QED BY <1>4, <2>1, <2>2 DEF ApplyRoutes, ListsAreLists, Listed
<1> QED BY <1>1, <1>2, <1>3, <1>4 DEF RefreshStep

\* The types hold at the start.
LEMMA InitType == Init => WellTyped
<1> SUFFICES ASSUME Init PROVE WellTyped
  OBVIOUS
<1>1. NoRefresh \in Refreshes /\ [NoRefresh EXCEPT !.stage = "status"] \in Refreshes
  BY DEF NoRefresh, Refreshes, RefreshStage
<1>2. PICK r \in Refreshers :
        refresh = [q \in Refreshers |-> IF q = r THEN [NoRefresh EXCEPT !.stage = "status"]
                                                 ELSE NoRefresh]
  BY DEF Init
<1>3. refresh \in [Refreshers -> Refreshes] /\ ListsAreLists
  BY <1>1, <1>2 DEF ListsAreLists, Listed, NoRefresh
<1>4. /\ <<>> \in Seq(RouteEvents) /\ Len(<<>>) <= HubCap
      /\ <<>> \in Seq(Wire) /\ Len(<<>>) <= OutCap
  BY BarAssumption
<1>5. NoRoutes \in Lists
  BY DEF NoRoutes, Lists
<1> QED BY <1>3, <1>4, <1>5, TypeFacts DEF Init, WellTyped, Causes

\* Every step keeps the types.
LEMMA NextType ==
  ASSUME WellTyped, [Next]_vars
  PROVE  WellTyped'
<1>1. CASE UNCHANGED vars
  BY <1>1, TypeFacts, TypeFactsNext
     DEF vars, daemonVars, stateVars, historyVars, WellTyped, ListsAreLists, Listed
<1> QED BY <1>1, StreamType, ReceiveType, RefreshType DEF Next

\* The types hold in every reachable state.
LEMMA WellTypedAlways == Spec => []WellTyped
<1>1. Init => WellTyped
  BY InitType
<1>2. WellTyped /\ [Next]_vars => WellTyped'
  BY NextType
<1> QED BY <1>1, <1>2, PTL DEF Spec

\* Type correctness of the bar: no channel holds more than its capacity, and a
\* refresh that has a list replaces the mirror by a list of routes.
THEOREM TypeCorrect == Spec => []TypeOK
<1>1. WellTyped => TypeOK
  BY DEF WellTyped
<1> QED BY <1>1, WellTypedAlways, PTL

-----------------------------------------------------------------------------
(* The status dot.  The last marker on its way, or applied if none is, is   *)
(* the one that subscribeLoop sent last; daemonUp follows the marker that   *)
(* was applied, but for a late status.                                      *)

LastMarker(m) ==
  \/ marker = m /\ \A j \in DOMAIN out : out[j] \in RouteEvents
  \/ \E i \in DOMAIN out : out[i] = m /\ \A j \in DOMAIN out : j > i => out[j] \in RouteEvents

DotInv ==
  /\ LastMarker(IF stage \in {"stream", "lost"} THEN Reconnected ELSE Disconnected)
  /\ marker = Reconnected => daemonUp
  /\ marker = Disconnected /\ daemonUp => lateStatus

\* The last of marker m0 and the markers of s.
LastOf(s, m0, m) ==
  \/ m0 = m /\ \A j \in DOMAIN s : s[j] \in RouteEvents
  \/ \E i \in DOMAIN s : s[i] = m /\ \A j \in DOMAIN s : j > i => s[j] \in RouteEvents

\* A route event leaves the last marker, another event becomes it.
LEMMA LastAppend ==
  ASSUME NEW s \in Seq(Wire), NEW e \in Wire, NEW m0, NEW m
  PROVE  /\ e \in RouteEvents /\ LastOf(s, m0, m) => LastOf(Append(s, e), m0, m)
         /\ LastOf(Append(s, e), m0, e)
<1> DEFINE t == Append(s, e)
<1>1. /\ t \in Seq(Wire) /\ Len(s) \in Nat
      /\ DOMAIN s = 1..Len(s) /\ DOMAIN t = 1..(Len(s) + 1)
      /\ \A i \in DOMAIN s : t[i] = s[i]
      /\ t[Len(s) + 1] = e
  BY AppendFacts
<1> HIDE DEF t
<1>2. e \in RouteEvents /\ LastOf(s, m0, m) => LastOf(t, m0, m)
  BY <1>1 DEF LastOf
<1>3. LastOf(t, m0, e)
  <2>1. Len(s) + 1 \in DOMAIN t /\ \A j \in DOMAIN t : ~(j > Len(s) + 1)
    BY <1>1
  <2> QED BY <1>1, <2>1 DEF LastOf
<1> QED BY <1>2, <1>3 DEF t

\* Taking the head leaves the last marker, or makes the head the one before.
LEMMA LastTail ==
  ASSUME NEW s \in Seq(Wire), s # <<>>, NEW m0, NEW m, LastOf(s, m0, m)
  PROVE  /\ Head(s) \in RouteEvents /\ m \notin RouteEvents => LastOf(Tail(s), m0, m)
         /\ Head(s) \notin RouteEvents => LastOf(Tail(s), Head(s), m)
<1> DEFINE t == Tail(s)
           h == Head(s)
<1>1. /\ Len(s) \in Nat \ {0}
      /\ DOMAIN s = 1..Len(s) /\ DOMAIN t = 1..(Len(s) - 1)
      /\ \A i \in DOMAIN t : i + 1 \in DOMAIN s /\ t[i] = s[i + 1]
      /\ \A i \in DOMAIN s : i # 1 => i - 1 \in DOMAIN t /\ t[i - 1] = s[i]
      /\ h = s[1] /\ 1 \in DOMAIN s
  BY TailFacts
<1> HIDE DEF t, h
<1>2. CASE m0 = m /\ \A j \in DOMAIN s : s[j] \in RouteEvents
  BY <1>1, <1>2 DEF LastOf, h, t
<1>3. ASSUME NEW i \in DOMAIN s, s[i] = m, \A j \in DOMAIN s : j > i => s[j] \in RouteEvents
      PROVE  /\ h \in RouteEvents /\ m \notin RouteEvents => LastOf(t, m0, m)
             /\ h \notin RouteEvents => LastOf(t, h, m)
  <2>1. \A j \in DOMAIN t : j + 1 > i => t[j] \in RouteEvents
    BY <1>1, <1>3
  <2>2. CASE i = 1
    <3>1. \A j \in DOMAIN t : t[j] \in RouteEvents
      BY <1>1, <2>1, <2>2
    <3> QED BY <1>1, <1>3, <2>2, <3>1 DEF LastOf
  <2>3. CASE i # 1
    <3>1. i - 1 \in DOMAIN t /\ t[i - 1] = m
      BY <1>1, <1>3, <2>3
    <3>2. \A j \in DOMAIN t : j > i - 1 => t[j] \in RouteEvents
      BY <1>1, <2>1
    <3> QED BY <3>1, <3>2 DEF LastOf
  <2> QED BY <2>2, <2>3
<1> QED BY <1>2, <1>3 DEF LastOf, t, h

\* Every step keeps the dot's invariant.
LEMMA DotStep ==
  ASSUME WellTyped, DotInv, [Next]_vars
  PROVE  DotInv'
<1> DEFINE Sent == IF stage \in {"stream", "lost"} THEN Reconnected ELSE Disconnected
<1> USE DEF DotInv, daemonVars, stateVars, historyVars
<1>1. LastOf(out, marker, Sent)
  BY DEF LastMarker, LastOf
<1>2. LastMarker(IF stage \in {"stream", "lost"} THEN Reconnected ELSE Disconnected)'
        <=> LastOf(out', marker', Sent')
  BY DEF LastMarker, LastOf
<1>3. out \in Seq(Wire) /\ queue \in Seq(RouteEvents)
  BY TypeFacts DEF WellTyped
<1>4. UNCHANGED <<out, stage, marker, daemonUp, lateStatus>> => DotInv'
  BY DEF LastMarker
<1>5. ASSUME NEW n \in Names, NEW v \in Values \cup {None}, Change(n, v) PROVE DotInv'
  BY <1>4, <1>5 DEF Change
<1>11. ASSUME PublishChange \/ AbortPublish \/ PublishTick PROVE DotInv'
  BY <1>4, <1>11 DEF PublishChange, AbortPublish, PublishTick, beyondPublication
<1>6. ASSUME StartDaemon \/ StopDaemon \/ CutStream \/ Register PROVE DotInv'
  BY <1>4, <1>6 DEF StartDaemon, StopDaemon, CutStream, Register
<1>7. ASSUME ClientStep PROVE DotInv'
  <2>1. CASE Dial
    BY <1>1, <1>2, <2>1 DEF Dial, beyondClient
  <2>2. CASE Announce
    BY <1>2, <1>3, <2>2, LastAppend DEF Announce, Send, beyondClient, Wire
  <2>3. CASE Deliver
    <3>1. Head(queue) \in RouteEvents /\ Head(queue) \in Wire
      BY <1>3, <2>3, TailFacts DEF Deliver, Wire
    <3> QED BY <1>1, <1>2, <1>3, <2>3, <3>1, LastAppend DEF Deliver, Send, beyondClient
  <2>4. CASE EndOfStream
    BY <1>1, <1>2, <2>4 DEF EndOfStream, beyondClient
  <2>5. CASE Lose
    BY <1>2, <1>3, <2>5, LastAppend DEF Lose, Send, beyondClient, Wire
  <2> QED BY <1>7, <2>1, <2>2, <2>3, <2>4, <2>5 DEF ClientStep
<1>8. ASSUME Receive PROVE DotInv'
  <2> DEFINE e == Head(out)
  <2>1. /\ e \in RouteEvents \/ e \in {Reconnected, Disconnected}
        /\ Reconnected \notin RouteEvents /\ Disconnected \notin RouteEvents
        /\ Reconnected # Disconnected
        /\ out # <<>> /\ out' = Tail(out) /\ UNCHANGED stage
    BY <1>8, HeadOfOut DEF Receive, WellTyped
  <2>2. CASE e \in RouteEvents
    <3>1. UNCHANGED <<daemonUp, marker, lateStatus>>
      BY <1>8, <2>2 DEF Receive, ApplyRoute
    <3>2. LastOf(Tail(out), marker, Sent)
      BY <1>1, <1>3, <2>1, <2>2, LastTail
    <3> QED BY <1>2, <2>1, <3>1, <3>2
  <2>3. CASE e \notin RouteEvents
    <3>1. daemonUp' = (e = Reconnected) /\ marker' = e
      BY <1>8, <2>3 DEF Receive, ApplyMarker
    <3>2. LastOf(Tail(out), e, Sent)
      BY <1>1, <1>3, <2>1, <2>3, LastTail
    <3> QED BY <1>2, <2>1, <2>3, <3>1, <3>2
  <2> QED BY <2>2, <2>3
<1>9. ASSUME NEW r \in Refreshers, RefreshStep(r) PROVE DotInv'
  <2>1. CASE ApplyStatus(r)
    <3>1. /\ daemonUp' = (daemonUp \/ refresh[r].ok)
          /\ lateStatus' = (lateStatus \/ (refresh[r].ok /\ marker = Disconnected))
          /\ UNCHANGED <<stage, out, marker>>
      BY <2>1 DEF ApplyStatus
    <3> QED BY <1>1, <1>2, <3>1
  <2>2. ASSUME ~ApplyStatus(r) PROVE DotInv'
    BY <1>4, <1>9, <2>2 DEF RefreshStep, AskStatus, AskRoutes, ApplyRoutes
  <2> QED BY <2>1, <2>2
<1>10. ASSUME UNCHANGED vars PROVE DotInv'
  BY <1>4, <1>10 DEF vars
<1> QED BY <1>5, <1>6, <1>7, <1>8, <1>9, <1>10, <1>11 DEF Next

\* A connected bar shows the daemon as up, and one that cannot connect shows it
\* as down unless a status answer came late (refresh and listenLoop in bar.go).
THEOREM DotCorrect == Spec => []DotFollowsStream
<1>1. Init => DotInv
  BY DEF Init, DotInv, LastMarker, Reconnected, Disconnected
<1>2. WellTyped /\ DotInv /\ [Next]_vars => DotInv'
  BY DotStep
<1>3. DotInv => DotFollowsStream
  BY DEF DotInv, LastMarker, DotFollowsStream
<1> QED BY <1>1, <1>2, <1>3, WellTypedAlways, PTL DEF Spec

-----------------------------------------------------------------------------
(* The mirror.  With the news on their way it comes to say what the store   *)
(* does, or a list is held that will, or one is still to be fetched.        *)

\* The routes whose last change has been published.
Settled == {n \in Names : n # unpublished}

Shows(m) == \A n \in Settled : Comes(out, queue, m[n], n, store[n])

\* A list that is still to be applied: it will bring the mirror up to date, or
\* note that it has been overtaken.
Good(r) == Listed(r) /\ (refresh[r].passed \/ Shows(refresh[r].list))

\* A list is still to be fetched, by a refresh that has begun or will begin.
Asked ==
  \/ Reconnected \in ToSet(out)
  \/ \E r \in Refreshers : refresh[r].stage \in {"status", "answered", "routes"}

\* Only a connected client has a stream.
Connected == conn # "none" => stage \in {"announce", "stream"}

\* The last word on a route, of this connection, is what the store says.
EventsAgree ==
  conn # "none" /\ causes = {} =>
    \A n \in Settled : IF stage = "stream" THEN EndsWith(out, queue, n, store[n])
                                           ELSE Published(queue, n, store[n])

WillCatchUp ==
  conn # "none" /\ stage = "stream" /\ causes = {} /\ ~Asked =>
    \/ \E r \in Refreshers : Good(r)
    \/ Shows(mirror) /\ \A r \in Refreshers : ~Listed(r)

LagInv == Connected /\ (conn # "registered" => queue = <<>>) /\ EventsAgree /\ WillCatchUp

\* Without a marker on the way, the store itself is what events lead to.
LEMMA StoreShows ==
  ASSUME \A n \in Settled : EndsWith(out, queue, n, store[n]), Reconnected \notin ToSet(out)
  PROVE  Shows(store)
<1>1. \A n : ~Marked(out, n)
  BY DEF Marked, ToSet
<1> QED BY <1>1 DEF Shows, EndsWith, Comes

\* Nor do channels without a route event lead away from it.
LEMMA QuietShows ==
  ASSUME NoRouteUnderWay
  PROVE  /\ Shows(store)
         /\ \A n \in Settled : EndsWith(out, queue, n, store[n]) /\ Published(queue, n, store[n])
<1>1. \A n \in Names : EventsOf(n) \subseteq RouteEvents
  BY DEF EventsOf, RouteEvents
<1>2. \A n \in Names : Silent(queue, n) /\ Silent(out, n)
  BY <1>1 DEF NoRouteUnderWay, ToSet, Silent
<1> QED BY <1>2 DEF Shows, EndsWith, Published, Comes, Settled

\* A step that leaves the mirror, the store and the news alone.
LEMMA LagFrame ==
  ASSUME LagInv, UNCHANGED <<store, unpublished, queue, stage, out, mirror, refresh, causes>>,
         conn' # "none" => conn # "none", conn = "registered" => conn' = "registered"
  PROVE  LagInv'
<1>1. Connected' /\ (conn' # "registered" => queue' = <<>>) /\ EventsAgree'
  BY DEF LagInv, Connected, EventsAgree, Settled
<1> QED BY <1>1 DEF LagInv, WillCatchUp, Asked, Good, Listed, Shows, Settled

\* A write to the store unsettles its route and no other.
LEMMA LagChange ==
  ASSUME WellTyped, LagInv, NEW n \in Names, NEW v \in Values \cup {None}, Change(n, v)
  PROVE  LagInv'
<1>1. /\ UNCHANGED <<conn, queue, stage, out, mirror, refresh, causes>>
      /\ store \in [Names -> Values \cup {None}] /\ store' = [store EXCEPT ![n] = v]
      /\ unpublished' = n
  BY TypeFacts DEF WellTyped, Lists, Change, stateVars, historyVars
<1>2. \A m \in Settled' : m \in Settled /\ store'[m] = store[m]
  <2>1. unpublished = None
    BY DEF Change
  <2> QED BY <1>1, <2>1, BarAssumption DEF Settled
<1>3. Connected' /\ (conn' # "registered" => queue' = <<>>) /\ EventsAgree'
  BY <1>1, <1>2 DEF LagInv, Connected, EventsAgree
<1>4. \A x : Shows(x) => \A m \in Settled' : Comes(out', queue', x[m], m, store'[m])
  BY <1>1, <1>2 DEF Shows
<1>5. WillCatchUp'
  <2>1. Shows(mirror) => Shows(mirror)'
    BY <1>1, <1>4 DEF Shows
  <2>2. ASSUME NEW r \in Refreshers, Good(r) PROVE Good(r)'
    BY <1>1, <1>4, <2>2 DEF Good, Shows, Listed
  <2> QED BY <1>1, <2>1, <2>2 DEF LagInv, WillCatchUp, Asked, Listed
<1> QED BY <1>3, <1>5 DEF LagInv

\* A publication that reaches the bar's channel settles its route; one that
\* does not is a cause to lag behind.
LEMMA LagPublish ==
  ASSUME WellTyped, LagInv, PublishChange
  PROVE  LagInv'
<1> DEFINE n == unpublished
           e == RouteEvent(n, store[n])
<1>1. /\ queue \in Seq(RouteEvents) /\ Len(queue) \in Nat /\ n \in Names /\ e \in RouteEvents
      /\ UNCHANGED <<store, conn, stage, out, mirror, refresh>>
      /\ Settled' = Names /\ Settled = Names \ {n}
  BY TypeFacts, PublishFacts, BarAssumption
     DEF WellTyped, PublishChange, beyondPublication, stateVars, Settled
<1>2. Connected' /\ (conn' # "registered" => queue' = <<>>)
  BY <1>1, PublishFacts DEF LagInv, Connected, Registered
<1>3. CASE conn # "none" /\ causes' = {}
  <2>1. causes = {} /\ conn = "registered" /\ queue' = Append(queue, e)
    <3>1. causes = {} /\ conn = "registered"
      BY <1>3, PublishFacts, TypeFacts DEF WellTyped
    <3> QED BY <1>3, <3>1, PublishFacts DEF Registered
  <2>2. \A m \in Names \ {n} : e \notin EventsOf(m)
    BY DEF RouteEvent, EventsOf
  <2>3. e = RouteEvent(n, store[n])
    OBVIOUS
  <2> HIDE DEF n, e
  <2>4. ASSUME NEW m \in Names
        PROVE  /\ \A x : (m \in Settled /\ Comes(out, queue, x, m, store[m])) \/ m = n
                          => Comes(out', queue', x, m, store'[m])
               /\ (m \in Settled /\ EndsWith(out, queue, m, store[m])) \/ m = n
                    => EndsWith(out', queue', m, store'[m])
               /\ (m \in Settled /\ Published(queue, m, store[m])) \/ m = n
                    => Published(queue', m, store'[m])
    <3>1. CASE m = n
      BY <1>1, <2>1, <2>3, <3>1, PublishedMore
    <3>2. CASE m # n
      BY <1>1, <2>1, <2>2, <3>2, PublishedMore
    <3> QED BY <3>1, <3>2
  <2>5. EventsAgree'
    BY <1>1, <1>3, <2>1, <2>4 DEF LagInv, EventsAgree
  <2>6. ASSUME NEW x, Shows(x) PROVE \A m \in Settled' : Comes(out', queue', x[m], m, store'[m])
    BY <1>1, <2>4, <2>6 DEF Shows
  <2>7. WillCatchUp'
    <3>1. Shows(mirror) => Shows(mirror)'
      BY <1>1, <2>6 DEF Shows
    <3>2. ASSUME NEW r \in Refreshers, Good(r) PROVE Good(r)'
      BY <1>1, <2>6, <3>2 DEF Good, Shows, Listed
    <3> QED BY <1>1, <1>3, <2>1, <3>1, <3>2 DEF LagInv, WillCatchUp, Asked, Listed
  <2> QED BY <1>2, <2>5, <2>7 DEF LagInv
<1>4. CASE ~(conn # "none" /\ causes' = {})
  BY <1>1, <1>2, <1>4 DEF LagInv, EventsAgree, WillCatchUp
<1> QED BY <1>3, <1>4

\* A publication that panics before the bar's turn, or a tick that evicts an
\* event, is a cause to lag behind, or there is no stream.
LEMMA LagLoss ==
  ASSUME WellTyped, LagInv, AbortPublish \/ PublishTick
  PROVE  LagInv'
<1>1. UNCHANGED <<conn, stage>> /\ (conn' # "registered" => queue' = queue)
  BY DEF AbortPublish, PublishTick, beyondPublication, Registered
<1>2. conn' = "none" \/ causes' # {}
  BY DEF AbortPublish, PublishTick, beyondPublication
<1> QED BY <1>1, <1>2 DEF LagInv, Connected, EventsAgree, WillCatchUp

\* A step of the SSE client keeps the mirror's invariant.
LEMMA LagClient ==
  ASSUME WellTyped, LagInv, ClientStep
  PROVE  LagInv'
<1> USE DEF beyondClient, stateVars, historyVars, Settled
<1>1. out \in Seq(Wire) /\ queue \in Seq(RouteEvents)
  BY TypeFacts DEF WellTyped
<1>2. CASE Dial
  BY <1>2 DEF Dial, LagInv, Connected, EventsAgree, WillCatchUp, Published, Silent
<1>3. CASE Announce
  <2>1. Reconnected \in Wire /\ out' = Append(out, Reconnected)
    BY <1>3 DEF Announce, Send, Wire
  <2>2. Reconnected \in ToSet(out')
    BY <1>1, <2>1, AppendFacts DEF ToSet
  <2>3. \A n \in Names : Marked(out', n)
    BY <1>1, <2>1, AppendSays
  <2>4. EventsAgree'
    BY <1>3, <2>3 DEF Announce, LagInv, EventsAgree, EndsWith, Published
  <2> QED BY <1>3, <2>2, <2>4 DEF Announce, LagInv, Connected, WillCatchUp, Asked
<1>4. CASE Deliver
  <2> DEFINE e == Head(queue)
  <2>1. /\ queue # <<>> /\ out' = Append(out, e) /\ queue' = Tail(queue)
        /\ UNCHANGED <<conn, stage, store, unpublished, mirror, refresh, causes>>
        /\ stage = "stream"
    BY <1>4 DEF Deliver, Send
  <2>2. e \in RouteEvents /\ e \in Wire /\ e # Reconnected
    <3>1. e \in RouteEvents
      BY <1>1, <2>1, TailFacts
    <3>2. Reconnected \notin RouteEvents
      BY DEF Reconnected, RouteEvents
    <3> QED BY <3>1, <3>2 DEF Wire
  <2>3. ASSUME NEW n \in Names
        PROVE  /\ \A x : Comes(out, queue, x, n, store[n]) => Comes(out', queue', x, n, store[n])
               /\ EndsWith(out, queue, n, store[n]) => EndsWith(out', queue', n, store[n])
    BY <1>1, <2>1, Moved
  <2>4. Reconnected \in ToSet(out) => Reconnected \in ToSet(out')
    BY <1>1, <2>1, <2>2, AppendFacts DEF ToSet
  <2> HIDE DEF e
  <2>5. ASSUME NEW x, Shows(x) PROVE \A n \in Settled : Comes(out', queue', x[n], n, store[n])
    BY <2>3, <2>5 DEF Shows
  <2>6. WillCatchUp'
    <3>1. Shows(mirror) => Shows(mirror)'
      BY <2>1, <2>5 DEF Shows
    <3>2. ASSUME NEW r \in Refreshers, Good(r) PROVE Good(r)'
      BY <2>1, <2>5, <3>2 DEF Good, Shows, Listed
    <3> QED BY <2>1, <2>4, <3>1, <3>2 DEF LagInv, WillCatchUp, Asked, Listed
  <2>7. EventsAgree'
    BY <2>1, <2>3 DEF LagInv, EventsAgree
  <2>8. queue = <<>> => queue' = <<>>
    BY <2>1
  <2> QED BY <2>1, <2>6, <2>7, <2>8 DEF LagInv, Connected
<1>5. CASE EndOfStream
  BY <1>5 DEF EndOfStream, LagInv, Connected, EventsAgree, WillCatchUp
<1>6. CASE Lose
  BY <1>6 DEF Lose, LagInv, Connected, EventsAgree, WillCatchUp
<1> QED BY <1>2, <1>3, <1>4, <1>5, <1>6 DEF ClientStep

\* Taking an event keeps the mirror's invariant.
LEMMA LagReceive ==
  ASSUME WellTyped, LagInv, Receive
  PROVE  LagInv'
<1> USE DEF daemonVars, Settled
<1> DEFINE e == Head(out)
<1>1. /\ out \in Seq(Wire) /\ out # <<>> /\ out' = Tail(out)
      /\ store \in [Names -> Values \cup {None}]
      /\ UNCHANGED <<store, unpublished, conn, queue, stage, causes>>
  BY TypeFacts DEF WellTyped, Receive, Lists
<1>2. /\ e \in RouteEvents \/ e \in {Reconnected, Disconnected}
      /\ Reconnected \notin RouteEvents /\ Disconnected \notin RouteEvents
      /\ Reconnected # Disconnected
  BY <1>1, HeadOfOut DEF WellTyped
<1>3. ASSUME NEW n \in Names
      PROVE  /\ e \notin EventsOf(n) =>
                  \A x : Comes(out, queue, x, n, store[n]) => Comes(out', queue', x, n, store'[n])
             /\ \A x : \A w \in Values \cup {None} :
                  e = RouteEvent(n, w) /\ Comes(out, queue, x, n, store[n])
                    => Comes(out', queue', w, n, store'[n])
             /\ EndsWith(out, queue, n, store[n]) => EndsWith(out', queue', n, store'[n])
  <2>1. store[n] \in Values \cup {None}
    BY <1>1
  <2> QED BY <1>1, <2>1, Received
<1>4. Connected' /\ (conn' # "registered" => queue' = <<>>)
  BY <1>1 DEF LagInv, Connected
<1>5. EventsAgree'
  BY <1>1, <1>3 DEF LagInv, EventsAgree
<1>6. e # Reconnected /\ Reconnected \in ToSet(out) => Reconnected \in ToSet(out')
  <2>1. /\ \A i \in DOMAIN out : i # 1 => i - 1 \in DOMAIN Tail(out) /\ Tail(out)[i - 1] = out[i]
        /\ e = out[1]
    BY <1>1, TailFacts
  <2>2. SUFFICES ASSUME e # Reconnected, NEW i \in DOMAIN out, out[i] = Reconnected
                 PROVE  Reconnected \in ToSet(Tail(out))
    BY <1>1 DEF ToSet
  <2>3. i # 1
    BY <2>1, <2>2
  <2>4. i - 1 \in DOMAIN Tail(out) /\ Tail(out)[i - 1] = Reconnected
    BY <2>1, <2>2, <2>3
  <2> QED BY <2>4 DEF ToSet
<1> HIDE DEF e
<1>7. CASE e \in RouteEvents
  <2>1. /\ mirror' = [mirror EXCEPT ![e.name] = e.route] /\ refresh' = Passed(None)
    BY <1>7 DEF Receive, ApplyRoute, e
  <2>2. /\ e.name \in Names /\ e.route \in Values \cup {None}
        /\ e = RouteEvent(e.name, e.route)
        /\ \A n \in Names \ {e.name} : e \notin EventsOf(n)
    BY <1>7 DEF RouteEvents, RouteEvent, EventsOf
  <2>3. ASSUME Shows(mirror) PROVE Shows(mirror)'
    <3>1. mirror \in [Names -> Values \cup {None}]
      BY TypeFacts DEF WellTyped, Lists
    <3>2. ASSUME NEW n \in Settled PROVE Comes(out', queue', mirror'[n], n, store'[n])
      <4>1. Comes(out, queue, mirror[n], n, store[n])
        BY <2>3 DEF Shows
      <4>2. CASE n = e.name
        <5>1. mirror'[n] = e.route
          BY <2>1, <2>2, <3>1, <4>2
        <5> QED BY <1>3, <2>2, <4>1, <4>2, <5>1
      <4>3. CASE n # e.name
        <5>1. mirror'[n] = mirror[n]
          BY <2>1, <2>2, <3>1, <4>3
        <5> QED BY <1>3, <2>2, <4>1, <4>3, <5>1
      <4> QED BY <4>2, <4>3
    <3> QED BY <1>1, <3>2 DEF Shows
  <2>4. ASSUME NEW r \in Refreshers
        PROVE  refresh'[r].stage = refresh[r].stage /\ (Listed(r) => Good(r)')
    BY <2>1, PassedFacts, BarAssumption DEF WellTyped, Good, Listed
  <2>5. Asked => Asked'
    BY <1>2, <1>6, <1>7, <2>4 DEF Asked
  <2>6. WillCatchUp'
    <3>1. SUFFICES ASSUME conn # "none", stage = "stream", causes = {}, ~Asked,
                          \A r \in Refreshers : ~Good(r)'
                   PROVE  Shows(mirror)' /\ \A r \in Refreshers : ~Listed(r)'
      BY <1>1, <2>5 DEF WillCatchUp
    <3>2. \A r \in Refreshers : ~Listed(r) /\ ~Listed(r)'
      BY <2>4, <3>1 DEF Listed
    <3>3. Shows(mirror)
      BY <3>1, <3>2 DEF LagInv, WillCatchUp, Good
    <3> QED BY <2>3, <3>2, <3>3
  <2> QED BY <1>4, <1>5, <2>6 DEF LagInv
<1>8. CASE e = Reconnected
  <2>1. PICK r \in FreeRefreshers : refresh' = [refresh EXCEPT ![r].stage = "status"]
    BY <1>2, <1>8 DEF Receive, ApplyMarker, e
  <2>2. refresh \in [Refreshers -> Refreshes] /\ r \in Refreshers
    BY TypeFacts DEF WellTyped, FreeRefreshers
  <2>3. refresh'[r].stage = "status"
    BY <2>1, <2>2 DEF Refreshes
  <2>4. Asked'
    BY <2>2, <2>3 DEF Asked
  <2> QED BY <1>4, <1>5, <2>4 DEF LagInv, WillCatchUp
<1>9. CASE e = Disconnected
  <2>1. UNCHANGED <<mirror, refresh>>
    BY <1>2, <1>9 DEF Receive, ApplyMarker, e
  <2>2. \A n \in Names : e \notin EventsOf(n)
    BY <1>2, <1>9 DEF EventsOf, Disconnected
  <2>3. ASSUME NEW x, Shows(x) PROVE \A n \in Settled : Comes(out', queue', x[n], n, store'[n])
    BY <1>3, <2>2, <2>3 DEF Shows
  <2>4. Shows(mirror) => Shows(mirror)'
    BY <1>1, <2>1, <2>3 DEF Shows
  <2>5. ASSUME NEW r \in Refreshers, Good(r) PROVE Good(r)'
    BY <1>1, <2>1, <2>3, <2>5 DEF Good, Shows, Listed
  <2>6. Asked => Asked'
    BY <1>2, <1>6, <1>9, <2>1 DEF Asked
  <2>7. WillCatchUp'
    BY <1>1, <2>1, <2>4, <2>5, <2>6 DEF LagInv, WillCatchUp, Listed
  <2> QED BY <1>4, <1>5, <2>7 DEF LagInv
<1> QED BY <1>2, <1>7, <1>8, <1>9

\* A step of a refresh keeps the mirror's invariant.
LEMMA LagRefresh ==
  ASSUME WellTyped, LagInv, NEW r \in Refreshers, RefreshStep(r)
  PROVE  LagInv'
<1> USE DEF daemonVars, stateVars, historyVars, Settled
<1>1. UNCHANGED <<store, unpublished, conn, queue, stage, out>>
  BY DEF RefreshStep, AskStatus, ApplyStatus, AskRoutes, ApplyRoutes
<1>2. Connected' /\ (conn' # "registered" => queue' = <<>>)
  BY <1>1 DEF LagInv, Connected
<1>3. UNCHANGED causes => EventsAgree'
  BY <1>1 DEF LagInv, EventsAgree
<1>4. CASE AskStatus(r) \/ ApplyStatus(r)
  <2>1. UNCHANGED causes
    BY <1>4 DEF AskStatus, ApplyStatus
  <2>2. Asked'
    BY <1>4, RefreshFacts DEF Asked
  <2> QED BY <1>2, <1>3, <2>1, <2>2 DEF LagInv, WillCatchUp
<1>5. CASE AskRoutes(r)
  <2>1. CASE causes' # {}
    BY <1>2, <2>1 DEF LagInv, EventsAgree, WillCatchUp
  <2>2. CASE causes' = {}
    <3>1. refresh'[r].stage = "listed" /\ refresh'[r].list = store /\ UNCHANGED causes
      BY <1>5, <2>2, RefreshFacts
    <3>2. ASSUME conn' # "none", stage' = "stream", ~Asked'
          PROVE  Good(r)'
      <4>1. Reconnected \notin ToSet(out)
        BY <1>1, <3>2 DEF Asked
      <4>2. \A n \in Settled : EndsWith(out, queue, n, store[n])
        BY <1>1, <2>2, <3>1, <3>2 DEF LagInv, EventsAgree
      <4>3. Shows(store)
        BY <4>1, <4>2, StoreShows
      <4> QED BY <1>1, <3>1, <4>3 DEF Good, Listed, Shows
    <3> QED BY <1>2, <1>3, <3>1, <3>2 DEF LagInv, WillCatchUp
  <2> QED BY <2>1, <2>2
<1>6. CASE ApplyRoutes(r)
  <2> DEFINE list == refresh[r].list
  <2>1. /\ Listed(r) /\ mirror' = list
        /\ causes' = IF list = store
                       THEN IF NoRouteUnderWay THEN {} ELSE causes
                       ELSE causes \cup (IF refresh[r].passed THEN {"overtaken"} ELSE {})
    BY <1>6 DEF ApplyRoutes, ReplaceRoutes, Listed
  <2> HIDE DEF list
  <2>2. EventsAgree'
    <3>1. CASE causes' = {} /\ causes # {}
      BY <1>1, <2>1, <3>1, QuietShows DEF EventsAgree
    <3>2. CASE causes' # {} \/ causes = {}
      BY <1>1, <2>1, <3>2 DEF LagInv, EventsAgree
    <3> QED BY <3>1, <3>2
  <2>3. ASSUME NEW q \in Refreshers \ {r}
        PROVE  refresh'[q].stage = refresh[q].stage /\ (Listed(q) => Listed(q)' /\ Good(q)')
    BY <1>6, RefreshFacts DEF Good, Listed
  <2>4. ASSUME conn' # "none", stage' = "stream", causes' = {}, ~Asked',
               \A q \in Refreshers : ~Good(q)'
        PROVE  Shows(mirror)' /\ \A q \in Refreshers : ~Listed(q)'
    <3>1. refresh'[r].stage = "off"
      BY <1>6, RefreshFacts
    <3>2. \A q \in Refreshers : ~Listed(q)'
      BY <2>3, <2>4, <3>1 DEF Listed
    <3>3. ~Asked
      <4>1. \A q \in Refreshers : refresh[q].stage \notin {"status", "answered", "routes"}
        BY <2>1, <2>3, <2>4 DEF Asked, Listed
      <4> QED BY <1>1, <2>4, <4>1 DEF Asked
    <3>4. CASE causes # {}
      <4>1. list = store /\ NoRouteUnderWay
        BY <2>1, <2>4, <3>4
      <4>2. Shows(list)
        BY <4>1, QuietShows
      <4> QED BY <1>1, <2>1, <3>2, <4>2 DEF Shows
    <3>5. CASE causes = {}
      <4>1. \A n \in Settled : EndsWith(out, queue, n, store[n])
        BY <1>1, <2>4, <3>5 DEF LagInv, EventsAgree
      <4>2. Shows(store)
        BY <3>3, <4>1, StoreShows DEF Asked
      <4>3. PICK q \in Refreshers : Good(q)
        BY <1>1, <2>1, <2>4, <3>3, <3>5 DEF LagInv, WillCatchUp
      <4>4. q = r
        BY <2>3, <2>4, <4>3 DEF Good
      <4>5. Shows(list)
        BY <2>1, <2>4, <4>2, <4>3, <4>4 DEF Good, list
      <4> QED BY <1>1, <2>1, <3>2, <4>5 DEF Shows
    <3> QED BY <3>4, <3>5
  <2>5. WillCatchUp'
    BY <2>4 DEF WillCatchUp
  <2> QED BY <1>2, <2>2, <2>5 DEF LagInv
<1> QED BY <1>4, <1>5, <1>6 DEF RefreshStep

\* Every step keeps the mirror's invariant.
LEMMA LagStep ==
  ASSUME WellTyped, LagInv, [Next]_vars
  PROVE  LagInv'
<1> USE DEF daemonVars, stateVars, historyVars
<1>1. ASSUME StartDaemon \/ Register PROVE LagInv'
  BY <1>1, LagFrame DEF StartDaemon, Register
<1>2. ASSUME StopDaemon \/ CutStream PROVE LagInv'
  BY <1>2 DEF StopDaemon, CutStream, Cut, LagInv, Connected, EventsAgree, WillCatchUp
<1>3. ASSUME UNCHANGED vars PROVE LagInv'
  BY <1>3, LagFrame DEF vars
<1> QED BY <1>1, <1>2, <1>3, LagChange, LagPublish, LagLoss, LagClient, LagReceive, LagRefresh DEF Next

\* The mirror's invariant holds in every reachable state.
LEMMA LagAlways == Spec => []LagInv
<1>1. Init => LagInv
  BY DEF Init, LagInv, Connected, EventsAgree, WillCatchUp
<1>2. WellTyped /\ LagInv /\ [Next]_vars => LagInv'
  BY LagStep
<1> QED BY <1>1, <1>2, WellTypedAlways, PTL DEF Spec

\* Where nothing is under way the mirror is the daemon's list, unless news
\* overtook a list, were not seen, were dropped or were not sent because the
\* publication panicked on another subscriber (sse.go:57), or a refresh got no
\* list: these races of the refresh with the events are the only ones.
THEOREM MirrorCorrect == Spec => []MirrorLagHasACause
<1>1. ASSUME WellTyped, LagInv PROVE MirrorLagHasACause
  <2>1. SUFFICES ASSUME Registered, stage = "stream", queue = <<>>, out = <<>>,
                        unpublished = None, NoRefreshUnderWay, causes = {}
                 PROVE  mirror = store
    BY DEF MirrorLagHasACause
  <2>2. \A r \in Refreshers : refresh[r].stage = "off"
    BY <2>1 DEF NoRefreshUnderWay, Active
  <2>3. ~Asked
    BY <2>1, <2>2 DEF Asked, ToSet
  <2>4. Shows(mirror)
    BY <1>1, <2>1, <2>2, <2>3 DEF LagInv, WillCatchUp, Registered, Good, Listed
  <2>5. \A n \in Names : mirror[n] = store[n]
    BY <2>1, <2>4, BarAssumption DEF Shows, Settled, Comes, Says
  <2> QED BY <1>1, <2>5, TypeFacts DEF WellTyped, Lists
<1> QED BY <1>1, WellTypedAlways, LagAlways, PTL
=============================================================================
