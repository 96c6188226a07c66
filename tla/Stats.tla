-------------------------------- MODULE Stats --------------------------------
(***************************************************************************)
(* The statistics of the proxy (internal/proxy/stats.go): per domain a     *)
(* ring of the last RTT samples, and one ring of per-second request        *)
(* counts, both filled by Record, which every request's goroutine calls.   *)
(*                                                                         *)
(* Record takes two locks one after the other and reads the clock before   *)
(* it takes the second one, so a goroutine may come to the count ring with *)
(* a second that others have already passed.  A sample stands for the      *)
(* request it was taken of: its value is the request's number.             *)
(***************************************************************************)
EXTENDS Naturals, Sequences, FiniteSetsExt

CONSTANTS
  StatsDomains, \* domains that get requests
  Recorders,    \* goroutines that call Record
  SampleCap,    \* statsWindow (20 in the code)
  Window,       \* rpsWindowSec (60 in the code)
  MaxRequests,  \* bound on calls of Record (model only)
  MaxNow        \* bound on the clock (model only)

ASSUME StatsAssumption ==
  /\ StatsDomains # {} /\ SampleCap \in Nat \ {0} /\ Window \in Nat \ {0}
  /\ MaxRequests \in Nat /\ MaxNow \in Nat /\ MaxNow > Window

VARIABLES
  now,        \* the clock, in seconds
  total,      \* totalReqs
  ring,       \* buf: [StatsDomains -> [xs, n, full]]
  rpsBuf,     \* [0..Window - 1 -> requests]
  rpsTs,      \* the second the last bump wrote to; 0 before the first
  lastReq,    \* [StatsDomains -> second of the last request; 0 for none]
  rec,        \* [Recorders -> the step of Record, its domain and its second]
  samples,    \* history: [StatsDomains -> every sample, oldest first]
  hits,       \* history: [second -> requests bumped with that second]
  overtaken   \* history: seconds whose count a late bump may have spoilt

ringVars == <<total, ring, samples>>
bumpVars == <<rpsBuf, rpsTs, hits, overtaken>>
statsVars == <<now, ringVars, bumpVars, lastReq, rec>>

Seconds == 0..MaxNow
Buckets == 0..(Window - 1)
Slots == 0..(SampleCap - 1)

StatsTypeOK ==
  /\ now \in Seconds /\ rpsTs \in Seconds /\ total \in 0..MaxRequests
  /\ ring \in [StatsDomains -> [xs : [Slots -> 0..MaxRequests], n : Slots, full : BOOLEAN]]
  /\ rpsBuf \in [Buckets -> 0..MaxRequests]
  /\ lastReq \in [StatsDomains -> Seconds]
  /\ rec \in [Recorders -> [pc : {"idle", "clock", "bump", "touch"},
                            domain : StatsDomains, at : Seconds]]
  /\ DOMAIN samples = StatsDomains
  /\ \A d \in StatsDomains : samples[d] \in Seq(1..MaxRequests)
  /\ hits \in [Seconds -> 0..MaxRequests]
  /\ overtaken \subseteq Seconds

\* NewStats.  The clock starts a whole window after the epoch.
StatsInit ==
  /\ now = Window /\ total = 0
  /\ ring = [d \in StatsDomains |-> [xs |-> [i \in Slots |-> 0], n |-> 0, full |-> FALSE]]
  /\ rpsBuf = [b \in Buckets |-> 0] /\ rpsTs = 0
  /\ lastReq = [d \in StatsDomains |-> 0]
  /\ rec \in [Recorders -> [pc : {"idle"}, domain : {CHOOSE d \in StatsDomains : TRUE}, at : {0}]]
  /\ samples = [d \in StatsDomains |-> <<>>]
  /\ hits = [s \in Seconds |-> 0] /\ overtaken = {}

StatsTick ==
  /\ now < MaxNow
  /\ now' = now + 1
  /\ UNCHANGED <<ringVars, bumpVars, lastReq, rec>>

-----------------------------------------------------------------------------
(* Record.                                                                 *)

\* Mutant: the write position does not wrap.
PushOn(r, x) ==
  [xs |-> [r.xs EXCEPT ![r.n] = x], n |-> r.n + 1, full |-> r.full \/ r.n + 1 = SampleCap]

Push(r, x) ==
  LET next == (r.n + 1) % SampleCap
  IN  [xs |-> [r.xs EXCEPT ![r.n] = x], n |-> next, full |-> r.full \/ next = 0]

\* The sample goes into the domain's ring, under s.mu.
Sample(p, d) ==
  /\ rec[p].pc = "idle" /\ total < MaxRequests
  /\ total' = total + 1
  /\ ring' = [ring EXCEPT ![d] = Push(@, total')]
  /\ samples' = [samples EXCEPT ![d] = Append(@, total')]
  /\ rec' = [rec EXCEPT ![p] = [pc |-> "clock", domain |-> d, at |-> 0]]
  /\ UNCHANGED <<now, bumpVars, lastReq>>

\* bumpRPS reads the clock before it takes rpsMu.
ReadClock(p) ==
  /\ rec[p].pc = "clock"
  /\ rec' = [rec EXCEPT ![p].pc = "bump", ![p].at = now]
  /\ UNCHANGED <<now, ringVars, bumpVars, lastReq>>

\* The buckets a bump at second s clears: those of the seconds since the
\* last bump, all of them after a whole window.
Skipped(s) ==
  LET from == IF rpsTs = 0 THEN s ELSE rpsTs
  IN  IF s >= from + Window THEN Buckets ELSE {t % Window : t \in (from + 1)..s}

Cleared(s) == [b \in Buckets |-> IF b \in Skipped(s) THEN 0 ELSE rpsBuf[b]]

\* A bump whose second is older than the last one sets rpsTs back: what was
\* counted for the seconds in between is no longer shown and is cleared by
\* the next bump, and the bucket it adds to may be one of theirs.
Overtaken(s) == {t \in Seconds : s < rpsTs /\ t <= rpsTs /\ (t > s \/ t + Window <= rpsTs)}

BumpRPS(p) ==
  LET s == rec[p].at
  IN  /\ rec[p].pc = "bump"
      /\ rpsBuf' = [Cleared(s) EXCEPT ![s % Window] = @ + 1]
      /\ rpsTs' = s
      /\ hits' = [hits EXCEPT ![s] = @ + 1]
      /\ overtaken' = overtaken \cup Overtaken(s)
      /\ rec' = [rec EXCEPT ![p].pc = "touch"]
      /\ UNCHANGED <<now, ringVars, lastReq>>

\* Under rpsMu again; here the clock is read under the lock.
TouchLastReq(p) ==
  /\ rec[p].pc = "touch"
  /\ lastReq' = [lastReq EXCEPT ![rec[p].domain] = now]
  /\ rec' = [rec EXCEPT ![p].pc = "idle", ![p].at = 0]
  /\ UNCHANGED <<now, ringVars, bumpVars>>

RecordStep(p) == (\E d \in StatsDomains : Sample(p, d)) \/ ReadClock(p) \/ BumpRPS(p) \/ TouchLastReq(p)

StatsNext == StatsTick \/ \E p \in Recorders : RecordStep(p)

StatsSpec == StatsInit /\ [][StatsNext]_statsVars

-----------------------------------------------------------------------------
(* What the readers compute.                                               *)

\* Mutant: from slot 0, whether the ring has wrapped or not.
SnapshotUnturned(d) ==
  [i \in 1..(IF ring[d].full THEN SampleCap ELSE ring[d].n) |-> ring[d].xs[i - 1]]

\* Snapshot: the samples of the ring, from its oldest slot.
Snapshot(d) ==
  LET r     == ring[d]
      count == IF r.full THEN SampleCap ELSE r.n
      first == IF r.full THEN r.n ELSE 0
  IN  [i \in 1..count |-> r.xs[(first + i - 1) % SampleCap]]

\* RPS, called when the clock was at: [second of the window -> the count shown].
Shown(at) == ((at + 1) - Window)..at

RPS(at) ==
  [t \in Shown(at) |-> IF t + Window <= rpsTs THEN 0 ELSE rpsBuf[t % Window]]

-----------------------------------------------------------------------------
(* Properties.                                                             *)

\* Snapshot returns the last samples of the domain in the order they were
\* taken, however often the ring has wrapped and whoever recorded in between
\* (stats.go:95).
SnapshotIsLatest ==
  \A d \in StatsDomains :
    LET k == Min({SampleCap, Len(samples[d])})
    IN  Snapshot(d) = SubSeq(samples[d], Len(samples[d]) - k + 1, Len(samples[d]))

\* The seconds the ring still holds, those of the window that ends with the last
\* bump, are shown with exactly the requests of that second, also to a reader
\* that read the clock before it got the lock, unless a bump with an older second
\* came after it; and a second whose count was spoilt so shows too few requests,
\* never too many, to a reader on time (stats.go:70-93, stats.go:136-149).
CountsAreRight ==
  /\ \A at \in Window..now : \A t \in Shown(at) :
       (t <= rpsTs /\ rpsTs < t + Window /\ t \notin overtaken) => RPS(at)[t] = hits[t]
  /\ \A t \in Shown(now) : t <= rpsTs => RPS(now)[t] <= hits[t]

\* stats.go:134: "RPS returns the per-second request counts for the last
\* rpsWindowSec seconds".  No second shows a request that did not happen in it.
RPSCountsTheLastSeconds ==
  \A t \in Shown(now) : RPS(now)[t] <= hits[t]

\* A domain is never seen later than its requests: once no call of Record is
\* under way, a domain with samples has a LastSeen, one without has none, and
\* none is older than the last bump (stats.go:63-67).
LastSeenFollowsRequests ==
  (\A p \in Recorders : rec[p].pc = "idle") =>
    /\ \A d \in StatsDomains : lastReq[d] # 0 <=> samples[d] # <<>>
    /\ \A s \in Seconds : hits[s] > 0 => \E d \in StatsDomains : lastReq[d] >= s

\* What readers get from both rings is what was recorded: the latest samples,
\* the counts of the window, and the last seconds of requests.
StatsAreRight == SnapshotIsLatest /\ CountsAreRight /\ LastSeenFollowsRequests
=============================================================================
