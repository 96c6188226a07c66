# mkdev: specification, model checking and proofs

mkdev maps `https://<name>.local` to development servers. A background daemon
owns a store of routes, a TLS reverse proxy, an issuer of leaf certificates and
mDNS advertisements, and offers a local HTTP API with an event stream. A CLI, a
menu bar program and a TUI are clients of that API and also edit `/etc/hosts`.

This directory holds TLA+ modules translated from the Go source, TLC
configurations that check them on small instances, and theorems that TLAPS
proves for every instance. `PROJECT.json` ties the definitions to source lines,
lists the runs, the properties with a mutant that breaks each of them, the
hazards of the code and the theorems.

## 1. Inventory

### 1.1 Components

| component | state | operations | who else touches the state |
|---|---|---|---|
| store (`internal/store`) | one bolt file: routes, and the upgrade marker | Put, Get, Delete, List, each a transaction; the open file is locked | the daemon holds the lock for its life; the CLI reads the marker |
| daemon core (`internal/daemon/daemon.go`) | `d.mu`, the store, the hub, the engine | AddRoute, RemoveRoute, EditRoute, ToggleShare; two tickers | every HTTP handler goroutine, the engine goroutine (without `d.mu`) |
| hub and SSE stream (`daemon/sse.go`, `handlers_events.go`) | `h.subs`: id to channel of capacity 256 | Subscribe, Unsubscribe, Publish, Close; the streaming handler | mutators, tickers, handlers |
| engine (`daemon/proxy.go`) | the router's table, the publisher pointer, the prober | Start, Reload, StatsSnapshot, the shutdown goroutine | mutators call Reload under `d.mu`; Start runs beside them |
| router and request path (`proxy/router.go`, `proxy/server.go`) | an atomic pointer to the table | Set; Lookup, LookupProxy, Shared, Has; `handle` | one goroutine per request |
| issuer (`cert/issuer.go`) | `cache`: host to leaf, under an RWMutex | Issue, Prune, GetCertificate | one goroutine per TLS handshake; Reload prunes |
| mDNS publisher (`mdns/publisher.go`) | `servers`: domain to server | Set, Close | Start, Reload, the shutdown goroutine |
| statistics and prober (`proxy/stats.go`, `proxy/prober`) | latency rings, 60 one-second buckets, health per host | Record, RPS, Snapshot; a pass every interval | requests, the stats ticker, the prober's 8 workers |
| process lifecycle (`cli/daemon.go`, `daemon/lifecycle*.go`) | `daemon.pid`, `daemon.sock`, the bolt lock, the unit | acquire, open, serve, shut down, respawn | several daemons at once, spawned by clients, by the supervisor or by hand |
| API client (`internal/client`) | the event connection, its backoff | calls; Subscribe with reconnection | bar, TUI, CLI |
| menu bar (`internal/bar`) | the mirror of routes, health and status; the menu slots; `bar.lock` | Apply, refresh, Reconcile, clicks; acquireLock, Stop, SpawnIfNeeded | the listener, the refreshers, the renderer; several bars |
| CLI and hosts file (`internal/cli`, `internal/hosts`) | `/etc/hosts` | add, remove, `hosts-helper` | several commands, the TUI |
| TUI (`internal/tui`) | modal stack, rows, selection, busy flag | keys, refreshes, commits | its event goroutine and its commands |
| upgrade (`internal/upgrade`) | the marker | Run in CLI and daemon mode | the daemon, every CLI command |
| install, uninstall (`cli/install.go`, `cli/uninstall.go`) | the unit, the bar's autostart entry, CA, trust, marker | step by step, each repeatable | the upgrade, the daemon |
| CA and trust stores (`internal/cert`) | two files, and per system an anchor, a keychain or a root store | create, install, test, uninstall | install, upgrade, uninstall |
| config, API types, platform helpers | none | load, wrap OS calls | not modelled: data types, OS wrappers |

### 1.2 How they interact

An API call that changes a route runs, in its handler's goroutine and under
`d.mu`: the existence check, one bolt transaction, `hub.Publish`, then
`reloadEngine`, which lists the store and calls `engine.Reload`: `Router.Set`,
`Issuer.Prune`, and `Publisher.Set` if the publisher is there. Beside it run the
goroutine of `RunEngine` (which lists the store without `d.mu` and hands the
list to `engine.Start`), TLS handshakes and requests that read the table and
the cache, the two tickers that publish, and one goroutine per SSE connection.
Publish copies the subscriber channels under `h.mu` and sends after unlocking.

### 1.3 What is hard here, and what makes each component correct

* **Hub.** Sending on a channel that Unsubscribe or Close has closed in the
  meantime panics. Correct: a subscriber receives what is published while it is
  registered, in each publisher's order, at most once, and loses an event only when its
  channel was full or a publisher panicked; nobody waits for a slow peer; Close
  ends all streams.
* **Mutators.** Check-then-put in two transactions, a publication that may panic
  between the write and the reload, process stops. Correct: linearizable,
  durable, always answered.
* **Engine.** Four pieces of derived state (table, cache, names advertised,
  reverse proxies) follow the store by reloads that race the engine's own start.
  Correct: whenever nobody is reloading, derived state is what the store defines.
* **Request path and issuer.** Several reads of a table that is replaced
  underneath; check, mint and insert without one lock. Correct: one consistent
  entry per request, no leaf kept for a dropped host.
* **Lifecycle, bar lock.** Check-then-act on files by several processes.
  Correct: one daemon serves, one bar runs, a loser leaves the winner alone.
* **Bar mirror.** Events and refreshes arrive in either order. Correct: when all
  is quiet the mirror is the daemon's list.
* **Hosts file.** Two resources changed one after the other, with a rollback, by
  commands that do not lock. Correct: when no command is at work an entry in
  `/etc/hosts` for every route, and none for others.
* **Statistics.** Rings and buckets at their boundaries, a clock read outside
  the lock. Correct: the last samples, and the counts of the seconds shown.
* **Prober.** A list that changes while its dials are under way. Correct: the
  state of every route nothing has happened to is true, and the prober stops.
* **Stop of a daemon.** Goroutines for which nobody waits. Correct: the process
  ends, and what it had announced and written is gone.
* **Setup.** Sequences of changes to the system that may fail half-way and run
  again. Correct: an install leaves a trusted CA, an uninstall leaves nothing.
* **TUI.** Messages of commands that arrive in any order, under an open dialog.
  Correct: an answer acts on what was asked, and the rows are the daemon's.

`PROJECT.json` lists these hazards at the lines where they bite, with the
properties that cover them; those without a property yet are in the plan below.

## 2. Modules

```
EventFeed                what one subscriber is promised            (abstract)
Hub            ----------> implements EventFeed for every subscriber
  MCHub                  instance for TLC
  HubProofs              registration, losses, Hub implements EventFeed
Routes                   routes, requests, verdicts                 (data)
RouteRegistry            EXTENDS Routes; the API as a linearizable map (abstract)
RouteDaemon              EXTENDS Routes -> implements RouteRegistry
  MCRouteDaemon          instances for TLC
  RouteDaemonProofs      type correctness, who holds d.mu
    RegistryProofs       RouteDaemon implements RouteRegistry
    DivergenceProofs     EXTENDS ProxyPath too: the table, the mDNS names and
                         the cache against the store; what a request has read
  ProxyPath              EXTENDS RouteDaemon; requests through the proxy
    MCProxyPath          instance for TLC, under two loads
Lifecycle                daemon processes over one home directory
  MCLifecycle            instances for TLC
  LifecycleProofs        who owns the store, the socket and the pid file
Bar                      the menu bar's mirror of the daemon's routes
  MCBar                  instance for TLC
  BarProofs              the dot and the mirror against the daemon
BarMenu                  how the mirror is drawn
Prober                   the states of the upstreams
DaemonStop               the end of one daemon process
  MCView                 BarMenu, Prober and DaemonStop, instance for TLC
    ViewProofs           each of the three, and what MCView composes of them
Hosts                    /etc/hosts and the commands that edit it
BarLock                  the bar's lock file
Setup                    install, uninstall, upgrade, CA and trust
Tui                      the terminal UI's model and its messages
Stats                    the proxy's two rings
  MCParts                these five, instance for TLC
    PartsProofs          each of the five, and what MCParts composes of them
```

`MCView` and `MCParts` check several modules in one run. Modules that share no
variable are united there: the initial state chooses the `part` that moves, the
others keep one fixed state, so the run has the sum of their states and not the
product, and every property is about the part that moves. `MCProxyPath` likewise
has two `load`s: what comes from outside is restricted to requests beside one
call, or to two calls beside a stream.

### 2.1 Hub

`subs` is `h.subs`, `chan` and `closed` are each subscriber's channel. A
publisher (`Sources`: a mutator, whose panic `Recoverer` catches, and a ticker,
whose panic ends the process) goes through `Snapshot` (lines 49-57), then for
every channel in any order (Go's map order) `Offer` (the first `select`),
`DropOldest` (the second) and `Retry` (the third). Any of these on a closed
channel is `Panic`. A connection goes `Subscribe`, then `Receive` and `Write`
per event, and leaves by `Disconnect` (context done, noticed in `select` or by a
failed write) through the deferred `Unsubscribe`. `Close` is the daemon's.
History variables record what each subscriber was due, what it lost and why.

The capacity is a constant: 1 in the run, 256 in the code (`hubChannelCap`). With one slot every
event but the first meets a full channel, which is the case in question; the
order inside longer channels is the FIFO of a Go channel.

### 2.2 Routes and RouteDaemon

`Request` has the four mutations; `Keep` is a nil field of a PATCH. Validation
of names and targets (`validate.go`) happens before `d.mu` and changes no state,
so only requests that pass it are enumerated. `Targets` are split into those `normalizeUpstream` parses
(`Routable`) and those it rejects, since `ValidateTarget` accepts both.

A call's `pc` names its next step; the steps are `Lock`, `Check`, `Put`,
`Snapshot`, `Send` per subscriber, `List`, `SetTable`, `Prune`, `LoadPublisher`,
`SetAdverts`, `Unlock`. The boundaries are those another goroutine can see: a
bolt transaction, an atomic pointer swap, the issuer's lock, the publisher's
lock. The hub appears as the set of open streams and those that have left, which is all a mutator's
fate depends on; that a send never waits is what `Hub` shows
(`PublishTerminates`). The engine goroutine goes `ListInitial`, `SetInitial`,
`Announce`, `StorePublisher`; a failed `net.Listen` is a `Stop`, because it ends
the process. `Boot` is `daemon.New`: without a certificate or a port the engine
is nil. `Stop` may happen at any moment and keeps the store only; it stands for
crash, panic of a ticker and shutdown alike.

`tableCause` and `advertCause` are history: they collect the known reasons for
which derived state may lag behind the store and are emptied by the step that
makes it current.

* `overtaken`: a reload ran between `ListInitial` and `SetInitial`.
* `aborted`: a send panicked after the store write, so the reload was skipped.
* `skipped`: a reload found no publisher stored although the engine's list was read.
* `unregistered`: a registration failed in `Publisher.Set`.

The properties say that there is no other reason.

### 2.3 ProxyPath

`rq` has one record per request with what it read at its three lookups
(`handle`, lines 44-67). `moved` is history: the table was replaced by a
different one since the first. Peers are local or on the LAN; only the latter
pass `CheckShared`.

### 2.4 Lifecycle

`pc[p]` is where process `p` is in `runDaemonServe`: `CheckPid` and `WritePid`
are the two halves of `AcquirePidfile`, `OpenStore` or `LockTimeout` is
`store.Open` within `daemon.New`, `RemoveSocket` and `Bind` are `OpenSocket`,
`Shutdown` is the goroutine that waits for a signal, for `POST /v1/shutdown` or
for the engine, and `CloseDaemon` and `Release` are the deferred calls. The
boundaries are the system calls another process can see. `lock # None` is what
`up` is in `RouteDaemon`. Both unlink by name: a Go listener its socket path,
`release` the pid file; whose file it is by then is the point.

`Crash` is a kill, a power loss or a panic: the kernel drops the lock, the files
stay. `PidReused` gives a dead daemon's pid to another program, which
`processAlive` cannot tell from a daemon. The supervisor (`Respawn`) starts its
child whenever the unit is loaded and the child has ended; unloading the unit
kills a child that has not yet called `signal.Notify` and tells one that has.
`contested` is history: two starts overlapped between check and write. It is
reset when nobody else runs.

Left out: the two calls on the way that belong to other components
(`upgrade.Run`, `bar.SpawnIfNeeded`), a failing `Accept` in `srv.Serve`, and a
partly written pid file (`os.WriteFile` is one step).

### 2.5 Bar

Three processes and two channels lie between the daemon's store and the bar's
`State`: the hub's channel for this bar (`queue`), the client's `subscribeLoop`
(`stage`), its channel (`out`, which stands for the bytes on the wire as well),
`listenLoop` (`Receive`), and beside them any number of runs of `refresh`, one
at start and one for every `EventClientReconnected`. `conn` is the daemon's end:
`handleEvents` sends its headers (`open`) before it calls `Subscribe`
(`registered`), so the client may announce a connection the hub does not know yet.

A mutator writes the store (`Change`) and publishes later, with `d.mu` held
(`unpublished`): `PublishChange` offers the event to this bar's channel, and
`AbortPublish` is the panic of `Hub.Publish` on a channel that another subscriber
has left since the snapshot, before this bar's turn. The route is then stored and
this bar is told nothing. `PublishTick` is a ticker that finds the channel full and
puts its event in the place of the oldest.

A refresh has four steps, since the daemon's answer and its use by the bar are
apart: `AskStatus`, `ApplyStatus`, `AskRoutes` (reads the list), `ApplyRoutes`
(`ReplaceRoutes`). `causes` is history, in the way of `RouteDaemon`: why the
mirror may be behind, emptied by a list that is current and that nothing older
can follow. `marker` is the last connection event applied, `lateStatus` that a
status answer was applied after a disconnection.

Left out: the tickers' events themselves (they do not touch the mirror; that they may
take another event's place in the channel is in `Publish` and `PublishTick`), the
contents of a route, and the backoff's length: that it is never reset
(client/events.go:56) is in no property.

### 2.6 BarMenu

`dirty` is the channel of capacity 1 that `markDirty` sends to without waiting.
Its writers change the state and call `markDirty` in two steps. `loop` is
`renderLoop`: it takes the token (`Wake`), throws away further ones during
`reconcileDelay` (`Absorb`) and then runs `Reconcile`, here the snapshot with the
binding of the rows, and `Draw`, the footer.

`Binding` is `bindRoutes`: a route that has a row keeps it, the others take the
free rows in order, and the loop ends at the first that finds none (`Reached`).
A row is given up only after that loop, so a row whose route has gone is
not free in the same pass. `displaced` (history) says that this was so. The footer's item:
`pending` is set by the click and cleared by the job, `enabled` by `updateToggle`.

Left out: clicks on rows, check marks, icons and the health text.

### 2.7 Prober

`tick` is where `Run` and `tick` are: a pass lists the routes (`ListRoutes`),
marks the disabled ones (`MarkOff`) and hands the others to the pool (`HandOut`),
closes the channel and waits for the pool (`CloseJobs`), and drops the states of
hosts it did not come to (`PruneStates`). A worker's dial (`Dial`) and the
storing of its verdict (`StoreVerdict`) are two steps with a list of routes and
an upstream that may change in between. `GiveUp` and `Return` are the two ways
out when the context is done. `moved` is history: what was disturbed since the
list was read.

### 2.8 DaemonStop

`main` is `runDaemonServe` from `srv.Serve` on: `ServeReturns` (which cancels the
engine's context), `AwaitEngine`, then the deferred calls: `Close` in its steps
(`CloseHub` closes every stream's channel, `ForgetHub` sets `d.hub` to nil, then
`CloseStore` and `ForgetStore`), `ReleasePid`, and `Exit`. `ShutAPI`
is the goroutine that waits for a signal, a `POST /v1/shutdown` or the engine.
`engine` is `engine.Start`, `drain` the goroutine it starts: `StartDrain` closes
the listener, with which `Serve` and so `engine.Start` return (`EngineReturns`);
`EndDrain` comes when no request is under way or the five seconds are over, and
then `SwapPublisher` and `ClosePublisher`. Against these run an API call
(`WriteRoute` to `SetName`), the tickers, an event stream and a proxied request, in
the steps between which `Close` can take something away from them. `Publish` is two
steps for a call and for a ticker: the snapshot of the open channels
(`PublishChange`, `PublishTick`, kept in `due`) and the sends (`SendChange`,
`SendTick`). They panic on a nil hub, and on a channel of the snapshot that
`CloseHub` or a leaving peer (`LeaveStream`) has closed since, whether or not the
daemon has been told to stop. A handler's panic is recovered, a ticker's
(`TickerPanics`) ends the process.

A call accepted before the API was shut down may find the store closed: `EditRoute`
and `RemoveRoute` then answer that there is no such route (daemon.go:210), for
`GetRoute`'s error is taken for that. What a call answers is `RouteDaemon`'s
matter, and there the store is open; `DaemonStop` has the call return.

### 2.9 Hosts

`file` is the set of lines of `/etc/hosts` that map some route's domain, a line
being the set of domains it maps. A command edits the file by a helper process
(`ReadHosts`, `WriteHosts`: the rename; or `HelperFails`), then asks the daemon
(`Answered`; `AnswerLate`: the change is made and the command has given up;
`RequestFails`), and undoes its edit after an error. `BeginAdd` and `BeginRemove`
are the CLI's, which ask for the daemon's status first, `BeginCommitAdd` and
`BeginCommitDelete` the TUI's. `install`, the upgrade and `uninstall` edit for
a set of domains, read from the store that they hold open (`HoldsStore`).
`blame` is history: per domain, what may have separated its entry from its route.

### 2.10 BarLock

`acquireLock` is `Create` (`O_EXCL`), `WriteLock`, and for one that finds the file
`JudgeAlive` or `JudgeStale`, `RemoveStale` and a second try, or `GiveUpLock`.
`lockfile` is the file under the name, with who created it and whether the pid is
in it; the remover removes whatever has the name by then. `Stop` reads and then
clears or signals. `torn` (history): a live bar's lock was removed by another.

### 2.11 Setup

One command at a time, beside a daemon started by the unit or by hand, and with
a binary that is replaced once. `stored` is the trust store, `trusted` what the
system trusts; the three systems' forms of install, test and uninstall are the
operators `TrustInstall`, `IsInstalled`, `IsTrusted`, `TrustUninstall`. On Linux
a file is put in place and an update command run (`UpdateTrust`). `install` and
the upgrade share the steps after their own first ones. Any step may fail
(`Fault`) or be the last (`InterruptCommand`); `trouble` and `loose` are history.

`os.RemoveAll` of `uninstall --purge` is `PurgeFile` for each of the CA's certificate,
its key and the marker, in any order, and `Purge` once nothing is left, so that it may be cut off
between the files. A certificate without its key makes the next install give up (`InstallCA`).
A key without its certificate (`orphan`, history) makes it create a new CA, whose
certificate it writes and whose key it cannot, the old one being read-only
(`WriteKey`); the install after that one loads the pair as it is.

### 2.12 Tui

`versions` are the lists the daemon has had; `shown` is the one the Domains tab
shows. `work` has the commands' goroutines with the message each will send, and
the listener's; messages arrive in any order (`Message`). `dialog` is the top of
the modals. A dialog's answer is a command too, so the message it sends is
handled (`ClosedArrives`) after others that came first, and a second answer may
be under way. A commit is `CallApplies` or `CallFails`, then `Load`.
Left out: the splash, the tabs but Domains, settings, the proxy pill, and the
commits' edits of the hosts file, which are in `Hosts`.

### 2.13 Stats

`Record` is `Sample` (the domain's ring), `ReadClock`, `BumpRPS` (the buckets)
and `TouchLastReq`. The clock is read before `rpsMu` is taken, so a bump may come with
a second that has been passed. `ring` and `rpsBuf` are the code's arrays with
their indices modulo capacity; `samples` and `hits` (history) are what they are
compared with: every sample in order, every second's requests.

## 3. Runs

| run | instance | what it shows |
|---|---|---|
| `hub` | 2 subscribers, a recovered and an unrecovered publisher with 2 events and 1 event, capacity 1 | types; registration and channel agree; a loss has a cause; Publish terminates; Close ends the streams; the hub implements `EventFeed` for each subscriber |
| `routes` | 2 clients, 1 SSE connection, 2 domains, 4 requests, engine start, stops | types; divergence of table and names has a cause; the calls implement `RouteRegistry` |
| `proxy` | 1 handshake, 1 request, 1 domain, 2 targets, beside 1 client; or 2 clients and 1 connection | types; a stale leaf came from an overtaken handshake; an undisturbed request is consistent; every call is answered or the process stops |
| `lifecycle` | 3 processes, 2 faults, the supervisor's unit | types; a serving daemon owns the store and the socket; the pid file names it unless starts were contested; undisturbed stops leave nothing; a loaded unit comes to serve |
| `bar` | 1 route that is added and removed, 2 refreshes at once, a hub channel of 2, a client channel of 1 | types; a mirror behind the daemon has a cause; the status dot follows the stream unless a status answer came late; the bar reconnects |
| `view` | prober: 2 hosts, 2 upstreams, 1 worker, 1 move; menu: 3 routes, 2 rows, 2 writers; stop: 1 call, 1 stream, 1 request | types; states of undisturbed routes are true, and all become so; the prober stops; at rest the menu is the state and rows and routes correspond; the footer's item comes back; every change is drawn; a daemon that is told to stop ends, and what it leaves has a cause |
| `parts` | hosts: 2 domains, 2 commands; lock: 3 bars, 4 starts, 1 stop; setup: 3 systems, 2 CAs, 3 commands, 1 fault; TUI: 2 routes with 2 values, 2 commands, 2 lists, 3 inputs; statistics: 2 recorders, 3 requests, a window of 3 seconds, rings of 2 | types; entries and routes agree or something named came between; the lock admits one bar, and a refusal has met another; install leaves a trusted CA and uninstall leaves nothing; answers meet their question; the screen is current; both rings show what was recorded |
| `start_race` | 1 client, 1 domain, no streams | violation of `TableMatchesStore` |
| `api_only` | 2 processes, 2 faults | violation of `ApiOnlyServes` |
| `drain` | 1 request, 1 call, 1 stream | violation of `RequestsAreDrained` |
| `rps` | as the statistics in `parts` | violation of `RPSCountsTheLastSeconds` |
| `delete_other` | the TUI of `parts` with 1 value | violation of `DeletesWhatItNames` |

**Bounds.** `Hub` has counters: each publisher has a number of events
(`MaxEvents`) and every connection is made once. `RouteDaemon` and `ProxyPath`
have none: their state is finite, and calls, stops and boots repeat without limit.
Two calls are enough for every conflict over `d.mu` (it admits one, the other
waits); one SSE connection is enough to panic one of them. A stream's identity is
used once per process life, as ids are never reused. The clients are symmetric in
`routes`; the runs with liveness use no symmetry.

In `Lifecycle` crashes and failed system calls are
counted (`MaxFaults`), everything else repeats without limit; three processes are
a daemon at work, a rival that passed the pid check with it, and a third that
finds the pid file the rival has removed.

In `Bar` the hub's channel holds two events and the client's one (256 and 64 in the
code): one more already meets a full channel, and with two slots there is
an event behind the one that is dropped. The mirror, the store and a list differ in whether they have the
route, which one value is enough for. `Refreshers` bounds the refreshes
under way; a new connection waits for a free one. Two are enough for a list that is
overtaken by another refresh. `BarMenu` has two rows for three routes (30 in the
code), so that rows run out, and an order to run out in.

`MaxMoves` bounds what happens to routes and upstreams under the prober: one move
can fall between any two of its steps, and passes repeat without limit after it.
One worker is enough: workers share nothing but the channel, and two hosts give it
a second job. In `DaemonStop` nothing is counted; a stream is used once, and one that
closes is enough to panic a ticker.

`MaxJobs` is two commands over two domains: any two helpers can meet on one file,
and a line may map both domains. `MaxStarts` is four: a stale lock, two that judge
it, and one that comes to the lock of a live bar that was removed. `MaxCommands` three:
an install, an uninstall, and what comes after. `MaxInputs` three: a dialog opened,
a change by somebody else, and an answer; `MaxVersions` two: an older list
that overtakes a newer one. `MaxRequests` three over rings of two wraps a
ring; `MaxNow` lets more than a whole window pass after the first request.

**Deadlock** is checked but in `hub`, `view`, `parts` and the runs of their
modules, which really end: all events published and the hub closed, the process
gone, the prober stopped, the TUI quit, the bounded commands done.

**Fairness.** In `Hub`: a publisher that is not waiting is run by the Go
scheduler (`PublishStep`), and a handler whose channel has an event or is closed
is run (`HandlerStep`); peers need not connect, read or leave. In `RouteDaemon`:
a handler past `Lock` is run; `Lock` is strongly fair, because a `sync.Mutex` in
starvation mode is handed to the longest waiter. Clients need not call, the
engine need not start, and `Stop` may happen at any time. In `Lifecycle`: a
process that can go on does, and the supervisor restarts its child; nobody has to
start, stop, load or unload anything, and crashes are finitely many. In `Bar`
and `BarMenu`: the bar's goroutines run and its calls end within their timeout of
five seconds; the daemon need not run, no connection need hold, nobody has to click.
In `Prober`: `Run` and the pool's goroutines run, and a dial ends by its timeout;
`Return` is strongly fair, since a `select` with both a tick and `Done` ready
chooses at random and so takes `Done` in the long run. In `DaemonStop`: the
goroutines of the stop run (`ShutAPI`, `MainStep`, `StartDrain`, `EngineReturns`);
handlers, tickers, upstreams and the drain itself need not. `Hosts`, `BarLock`,
`Setup`, `Tui` and `Stats` are checked for safety only.

**Excuses.** Some invariants name a condition under which they do not hold; for
each, TLC finds a counterexample once it is left out. What a user may see of them:

* A list fetched before an event and applied after it stays in the bar's mirror
  until the next connection; the dot may stay "up" while the daemon is
  down, where README.md:128 says it follows; a route may wait for a row until the
  next reconcile although a row has just become free, and beyond thirty rows
  routes are not shown, where README.md:111 has every route of the store; the footer may stay at
  "Working…" after its job, as nobody marks the state dirty.
* Two bars may run (`torn`), where README.md:127 says there is one: lock.go:25 and
  lock.go:46 remove a lock that is not the one that was judged.
* A subscriber that leaves between Publish's snapshot and its send (sse.go:57, 60)
  makes the mutator panic: the recoverer answers 500, the store has the change
  and the reload is skipped (the cause `aborted`), where README.md:220 has the
  table reloaded on every add and remove; and the subscribers not yet served are
  told nothing: the bar's mirror stays behind (`unserved`).
* An entry of `/etc/hosts` and its route part (`blame`) when two helpers overlap,
  when the rollback of a refused `add` removes the entry of the live route
  (add.go:75), where README.md:271 calls `mkdev add` idempotent, or when that of a
  refused `remove` adds one (remove.go:64).
* After an uninstall on darwin, or a Linux install cut off before the update
  command, an install finds the certificate and does not trust it again
  (`loose`), where README.md:135 calls every step idempotent. And after a purge cut
  off between the CA's two files the home directory may have a certificate with another's key
  (`orphan`), which the install after the failed one loads as its CA.
* A name may stay announced after a stop: the process ends before the drain has
  come to the publisher, or a call registers it again after `Close` (`late`).
  The pid file stays behind when a ticker's panic ends the process: after `Close` has
  set the hub to nil, or at any time when a peer of the event stream leaves, or the hub is closed, between the
  ticker's snapshot and its send (sse.go:57-69).
* TUI: the list may be behind when an older one overtakes a newer, or an event is
  lost.

Met on the way and not stated as properties: the upgrade that README.md:133 says "queues
the rest" writes a pending flag whose reader has no caller, and the command redoes the upgrade
while the daemon holds the store; `uninstall` wipes `~/.mkdev/`
only with `--purge` (README.md:162 has no such condition); what an uninstall removed
comes back with the next command or daemon that runs the upgrade; `daemon stop` under a
supervisor is undone by it, as its own help says (cli/daemon_lifecycle.go:87)
and README.md:250 does not.

**Findings.**

1. `start_race`: README.md:220 says "The proxy's route table reloads
   in-process on every `add` / `remove`, no restart." `RunEngine` lists the routes
   (daemon.go:92), a call adds a
   route and reloads, then `engine.Start` puts its older list into the table
   (proxy.go:65). The route is stored and announced on the stream, the proxy
   answers 404 for it until some later change.
2. `api_only`: `mkdev daemon status` speaks of an "API-only mode"
   (cli/daemon_lifecycle.go:139), and `daemon.New` goes on without an engine.
   But then `RunEngine` returns nil at once (daemon.go:89), and the goroutine at
   cli/daemon.go:124 shuts the API server down. Under a supervisor the daemon is
   restarted for ever.
3. `drain`: proxy/server.go:38 says "Shutdown gracefully drains in-flight requests
   within ctx's deadline." `Serve` returns when `Shutdown` begins (proxy.go:121),
   `runDaemonServe` waits for that only (cli/daemon.go:138), and the process exits
   under the drain: a forwarded request is cut long before the five seconds are over.
4. `rps`: stats.go:134 says "RPS returns the per-second request counts for the
   last rpsWindowSec seconds". Only `Record` clears buckets; after seconds without
   a request, `RPS` (stats.go:147) reads buckets of a window ago as the newest.
5. `delete_other`: program.go:340 asks "Delete %s?" with a domain; the answer deletes the route
   that is selected when it arrives (modal_dispatch.go:58). Another client removes
   the named route, the rows move up under the dialog, and the yes deletes the next one.

## 4. Theorems

Every safety property that a passing run checks (type invariants, invariants,
action properties, the two refinements) is also a theorem: TLC shows it on the
instances above, TLAPS for every value of the constants. All modules with proofs
are checked without unproved steps.

**Assumptions.** Constants are arbitrary but for the named `ASSUME`s, which TLC
evaluates in the runs. They say three kinds of things: the markers differ from what
they stand beside (no pid file, a stale one and a foreign pid from each other
and from processes; `None` from routes, their names, jobs and clients; no listener among the
TUI's commands); sets that the code keeps in finite lists are finite (`MenuNames`,
`Rows`, `TuiNames`, `Refreshers`) and ordered ones are numbers; sets lie in each other as
named (`.local` domains are domains, enumerated calls are requests, routable
targets are targets, `Leavers` are subscribers). Capacities (`HubCap`, `OutCap`,
`Cap`, `SampleCap`, `Window`) are at least one, as are the TUI's list versions, and
bounds are natural numbers. `Stats` has at least one domain, and a clock that may run
beyond one window. Nothing is assumed of the number of clients, connections,
processes, requests, domains or routes otherwise.

**Daemon** (RouteDaemonProofs, RegistryProofs, DivergenceProofs).

* `TypeCorrect`. The inductive invariant is `WellTyped`, which is TypeOK with
  `CallInv` (past `Check` a call has a request, and a route that is a legal
  value) and `HostInv` (a handshake past the check names a host).
* `LockAlways`: `WellTyped /\ LockInv`. `LockInv` says that a call
  beyond `Lock` is the one that holds `d.mu` (`Exclusion`) and that, from `Put`
  on, `new` is what its request asked of the route the store still has
  (`Prepared`). The latter makes check and write one atomic step although
  they are two transactions.
* `RegistryRefinement`: `Spec => RegistrySpec`. Every step maps
  to a step or a stutter of `RouteRegistry`; `Put` is the linearization point of
  a change and `Check` that of a refusal; `Prepared` gives the step at `Put`.
* `TableDivergence`, `AdvertDivergence`: the two divergence
  invariants. Neither is inductive: each needs that a reload in progress carries
  the store's own routes (mutual exclusion), and that a list read by the engine
  is either still the store's or will be followed by a reload of a call in
  progress, or has been overtaken. Those cases are the conjuncts of `TableInv`
  and `AdvertInv`.
* `StaleLeaves`: a cached leaf of a host that is not routed
  was inserted late, except while a reload is between `Router.Set` and
  `Issuer.Prune`.
* `RequestsOnlyRead`: `ProxySpec => Spec /\ []RequestInv`, so all of the above
  holds beside any number of requests. `ReadsAgree` says that what a request has
  read so far is still in the table unless the table was replaced; with it come
  `RequestTypeCorrect` and `ConsistentRequests`.

**Hub** (HubProofs), for any channel capacity and number of events.

* `TypeCorrect`, and `Publishing`: at which stage a publisher is in which part
  of its loop, and which channels it still has to serve.
* `HubInvCorrect`. `Registry` is `RegistrationMatchesChannel` with `Fresh` (a
  connection that has not subscribed is owed nothing) and `FullIsRecorded` (a
  publisher that drops or retries has met a full channel). `Counted` is an account
  per subscriber and source (`Balance`): what was published since it registered is what it
  received, what its channel holds, what is being sent, and what was cut off.
  `InOrder`: the events of a source stand in every channel in the order of their numbers,
  between the last received and the next due. The account is needed in every
  step although `LossHasACause` looks at its end only.
* `RegistrationCorrect`, `LossesExplained` follow, and `FeedImplemented`: `Spec =>
  FeedSpec`, every step being a step or a stutter of `EventFeed` for every subscriber.

**Lifecycle** (LifecycleProofs): `TypeCorrect`, and `ServingOwns`, `PidfileTrue`,
`StopsClean` from the inductive `HomeInv`. `Ownership`: from opening the store until closing it a
daemon has the lock, and this interval covers all that is done to the socket
path, so a rival never touches it beside the server. `PidNames`: without
contention the file names each process past `WritePid`. `FilesHaveOwners`:
without faults a file belongs to a process that is yet to remove it.

**Bar** (BarProofs), for channels of any capacity and any number of refreshes.

* `DotCorrect` by `DotInv`: the last marker on the way, or the applied one if none is,
  is the one that `subscribeLoop` sent last.
* `MirrorCorrect` by `LagInv`. `EventsAgree`: once connected, and with no cause noted, the last
  word on each route in the two channels is the store's, or there is none. Both
  conjuncts are about the routes that no mutator has written and not yet published (`Settled`).
  `WillCatchUp`: if no list is still to be fetched, either the mirror and
  the events under way come to the store's routes, or a list is held that does (or
  will note that it was overtaken). Both speak of sequences, so lemmas say what
  `Append`, `Tail` and dropping the oldest do to the last word on a route.

**Menu, prober, stop** (ViewProofs).

* `MenuIsCurrentCorrect`, `ToggleComesBackCorrect` by `MenuInvCorrect`: a change that is not drawn
  has a token or a writer that will put one in (`ChangeIsNoted`), rows show the
  listed routes (`RowsShowRoutes`; lemmas on ranks say that the binding gives
  each row one route), and the item is out of reach only during a job or after one
  that nobody noted (`ToggleIsOwed`).
* `HealthIsCurrentCorrect` by `ProbeInv`: between two ticks nothing of the last one is left
  (`BetweenTicks`); within one, a route that nothing happened to is still to be handed
  out, or is dialled for with its own target, or its state is true (`ProbesAreTrue`).
* `EndIsCleanCorrect` by `PublisherGone` (what is announced after the publisher is
  emptied was a late call's) and `StopOrder` (the deferred calls and what they leave,
  and that a panic has met a nil hub or a closed channel).
* `ViewBehaves`: in the composition the menu and the stop satisfy their own
  specifications; the prober there may also begin stopped, so `ViewTypeCorrect` and
  `ViewHealthCorrect` say of it again what holds of its own specification.

**Parts** (PartsProofs).

* `LockAdmitsOneCorrect` by `LockInvCorrect`: `HoldersOwn` and `OwnersHold` tie the file to the
  bars past `Create` until a lock is torn; `SecondTryIsFree` says that a bar which comes back
  to `Create` alone finds no file.
* `SetupTrustCorrect`, `UninstallCorrect` by `SetupInvCorrect`, on the three systems: which steps a command
  has (`Places`), which key and certificate it has there, or that the key has lost its own (`CAInv`), that entry and trust agree
  but for the CAs noted (`TrustInv`), and what was reached by each step
  (`InstallInv`, `UninstallInv`).
* `HostsFollowRoutesCorrect` by `HostsInv`: a domain without blame is the business
  of one command at most; entry and route agree unless that one is halfway, and then
  its step says in which way they differ and whether its undo is right (`Place`).
* `AnswersMeetTheirQuestionCorrect`, `ScreenIsCurrentCorrect` by `TuiInvCorrect`: a first answer finds the dialog it
  was given to, and the cursor is on the route asked about until rows move
  (`DialogInv`); while connected, what the daemon has and the tab does not show is in an event or
  in a load on its way, or was noted (`ScreenInv`).
* `StatsAreRightCorrect` by `StatsInvCorrect`, for every capacity and window, over lemmas on remainders: the
  last samples stand at the remainders of their numbers (`RingInv`), a bucket has
  the count of its second unless a late bump spoilt it (`WindowInv`), and with the
  requests not yet counted no count exceeds their total (`CountInv`).
  `IdleSecondsRepeatCorrect` says for every window what finding 4 shows: without any late
  bump, a second that has had no request is shown with the count of one window ago.
* `PartsBehave`, `PartsTypeCorrect`: the composition gives each part its own specification.

TLC checked each inductive invariant as an invariant before it was proved; the
largest instances had 4,594,296 states for `HostsInv`, 1,079,013 for `TuiInv`,
1,033,894 for `StatsInv` and 210,629 for `SetupInv`.

**Model-checked only.** The liveness properties (`PublishTerminates`, `CloseEndsStreams`,
`CallsAreAnswered`, `UnitReachesServe`, `Reconnects`, `HealthCatchesUp`, `ProberStops`,
`ChangesAreDrawn`, `StopEnds`), which are out of the prover's reach together with
`ENABLED`; and the five violations, which are behaviours of an instance.

## 5. Not modelled

Contents of requests and responses, TLS and proxied bytes, key generation,
configuration files, menu and terminal layout, logging: data, wording and layout
that no control depends on. The TUI's dashboard, doctor, logs and settings tabs,
splash and components show what other modules keep or read files. `list`, `status`,
`completion` and `version` of the CLI only print. In the
modelled components: validation of strings, the
publisher's choice of the LAN address, the Windows forms of pid tests, and the
failures of `ListRoutes` but in `Prober` and `DaemonStop`: it reads the open database and fails only
when that is closed.

## 6. Plan

1. **Bar**, the rest: clicks on rows and their check marks, and the health of routes in the mirror.
2. **Tui**, the rest: the proxy pill, where a status answer that fails late
   overwrites a later connection (runtime.go:114), and the settings.
3. **Proofs**: with these the bar's and the TUI's invariants again; for `ProxyPath`, that a
   request which reads nothing stale is served as `RouteRegistry` says (its
   entry is one the store had during the request).
