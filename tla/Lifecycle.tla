------------------------------ MODULE Lifecycle ------------------------------
(***************************************************************************)
(* The processes that run `mkdev daemon serve` (internal/cli/daemon.go)    *)
(* over one home directory: its pid file and its socket                    *)
(* (internal/daemon/lifecycle.go), the lock of the bolt file               *)
(* (internal/store/store.go) and the unit of the OS supervisor, which      *)
(* starts a daemon again when it ends.  Any number of daemons may be       *)
(* started at once: by the supervisor, by the bar, by hand.                *)
(*                                                                         *)
(* A process here is a slot with a new pid at every start, so a pid file   *)
(* that outlives its process is Stale, and Foreign once another program    *)
(* has been given the pid.                                                 *)
(***************************************************************************)
EXTENDS Naturals

CONSTANTS
  Procs,        \* slots for daemon processes
  None,         \* no file, no holder, no child
  Stale,        \* left over by a process that is dead
  Foreign,      \* a pid that now belongs to a program that is no daemon
  MaxFaults     \* bound on crashes and failed system calls (model only)

ASSUME LifecycleAssumption ==
  /\ {None, Stale, Foreign} \cap Procs = {}
  /\ None # Stale /\ None # Foreign /\ Stale # Foreign
  /\ MaxFaults \in Nat

VARIABLES
  pc,         \* [Procs -> the next step of runDaemonServe]
  pidfile,    \* daemon.pid
  lock,       \* who has state.db open
  path,       \* whose listener daemon.sock leads to
  engine,     \* [Procs -> does it have an engine]
  told,       \* processes that got a SIGTERM or a POST /v1/shutdown
  ended,      \* processes whose RunEngine has returned
  loaded,     \* the supervisor's unit is loaded
  child,      \* the process the supervisor has started
  contested,  \* history: a pid was written beside another process at work
  faults      \* crashes and failures so far

fileVars == <<pidfile, lock, path>>
procVars == <<engine, told, ended>>
vars == <<pc, fileVars, procVars, loaded, child, contested, faults>>

Stage == {"off", "check", "write", "store", "socket", "bind", "serve", "close", "release"}

TypeOK ==
  /\ pc \in [Procs -> Stage]
  /\ pidfile \in Procs \cup {None, Stale, Foreign}
  /\ lock \in Procs \cup {None}
  /\ path \in Procs \cup {None, Stale}
  /\ engine \in [Procs -> BOOLEAN]
  /\ told \subseteq Procs /\ ended \subseteq Procs
  /\ loaded \in BOOLEAN /\ child \in Procs \cup {None}
  /\ contested \in BOOLEAN
  /\ faults \in 0..MaxFaults

Init ==
  /\ pc = [p \in Procs |-> "off"]
  /\ pidfile = None /\ lock = None /\ path = None
  /\ engine = [p \in Procs |-> FALSE]
  /\ told = {} /\ ended = {}
  /\ loaded = FALSE /\ child = None
  /\ contested = FALSE /\ faults = 0

Goto(p, stage) == pc' = [pc EXCEPT ![p] = stage]

Alone(p) == \A q \in Procs \ {p} : pc[q] = "off"

\* The process is gone: what it kept in memory, and the supervisor's child.
Gone(p) ==
  /\ Goto(p, "off")
  /\ engine' = [engine EXCEPT ![p] = FALSE]
  /\ told' = told \ {p} /\ ended' = ended \ {p}
  /\ child' = IF child = p THEN None ELSE child
  /\ contested' = (contested /\ ~Alone(p))

-----------------------------------------------------------------------------
(* runDaemonServe.                                                         *)

\* From the command line, the bar's "Start daemon" or EnsureRunning.
Start(p) ==
  /\ pc[p] = "off"
  /\ Goto(p, "check")
  /\ UNCHANGED <<fileVars, procVars, loaded, child, contested, faults>>

\* Mutant: the release function runs although the pid file is another's.
CheckPidAndRelease(p) ==
  /\ pc[p] = "check"
  /\ IF pidfile \in Procs \cup {Foreign}
       THEN Gone(p) /\ pidfile' = None
       ELSE Goto(p, "write") /\ UNCHANGED <<pidfile, procVars, child, contested>>
  /\ UNCHANGED <<lock, path, loaded, faults>>

\* Mutant: any pid in the file counts, that of a dead process too.
CheckPidOnly(p) ==
  /\ pc[p] = "check"
  /\ IF pidfile # None
       THEN Gone(p)
       ELSE Goto(p, "write") /\ UNCHANGED <<procVars, child, contested>>
  /\ UNCHANGED <<fileVars, loaded, faults>>

\* AcquirePidfile: refused while the pid in the file is alive, whoever's it is.
CheckPid(p) ==
  /\ pc[p] = "check"
  /\ IF pidfile \in Procs \cup {Foreign}
       THEN Gone(p)
       ELSE Goto(p, "write") /\ UNCHANGED <<procVars, child, contested>>
  /\ UNCHANGED <<fileVars, loaded, faults>>

WritePid(p) ==
  /\ pc[p] = "write"
  /\ pidfile' = p
  /\ contested' = (contested \/ \E q \in Procs \ {p} : pc[q] \notin {"off", "check"})
  /\ Goto(p, "store")
  /\ UNCHANGED <<lock, path, procVars, loaded, child, faults>>

\* Mutant: state.db is opened without its lock.
OpenStoreUnlocked(p) ==
  /\ pc[p] = "store"
  /\ lock' = p
  /\ \E e \in BOOLEAN : engine' = [engine EXCEPT ![p] = e]
  /\ Goto(p, "socket")
  /\ UNCHANGED <<pidfile, path, told, ended, loaded, child, contested, faults>>

\* daemon.New: bolt.Open, and newEngine if there are a CA and a proxy port.
OpenStore(p) ==
  /\ pc[p] = "store" /\ lock = None
  /\ lock' = p
  /\ \E e \in BOOLEAN : engine' = [engine EXCEPT ![p] = e]
  /\ Goto(p, "socket")
  /\ UNCHANGED <<pidfile, path, told, ended, loaded, child, contested, faults>>

\* bolt.Open waits two seconds for the lock.
LockTimeout(p) ==
  /\ pc[p] = "store" /\ lock # None
  /\ Goto(p, "release")
  /\ UNCHANGED <<fileVars, procVars, loaded, child, contested, faults>>

\* OpenSocket removes what is there, whoever listens on it, ...
RemoveSocket(p) ==
  /\ pc[p] = "socket"
  /\ path' = None
  /\ Goto(p, "bind")
  /\ UNCHANGED <<pidfile, lock, procVars, loaded, child, contested, faults>>

\* ... and listens.
Bind(p) ==
  /\ pc[p] = "bind" /\ path = None
  /\ path' = p
  /\ Goto(p, "serve")
  /\ UNCHANGED <<pidfile, lock, procVars, loaded, child, contested, faults>>

\* config.Load, bolt.Open, os.Remove, net.Listen or os.Chmod fails.
StartFails(p) ==
  /\ pc[p] \in {"store", "socket", "bind"} /\ faults < MaxFaults
  /\ Goto(p, IF pc[p] = "store" THEN "release" ELSE "close")
  /\ faults' = faults + 1
  /\ UNCHANGED <<fileVars, procVars, loaded, child, contested>>

\* A SIGTERM, or a POST /v1/shutdown, reaches the process.
Tell(p) ==
  /\ pc[p] = "serve"
  /\ told' = told \cup {p}
  /\ UNCHANGED <<pc, fileVars, engine, ended, loaded, child, contested, faults>>

\* RunEngine returns: at once without an engine, else when the proxy's
\* listen or serve fails.
EngineExit(p) ==
  /\ pc[p] = "serve"
  /\ ended' = ended \cup {p}
  /\ UNCHANGED <<pc, fileVars, engine, told, loaded, child, contested, faults>>

\* Mutant: the socket file stays.
ShutdownKeepsSocket(p) ==
  /\ pc[p] = "serve" /\ p \in told \cup ended
  /\ path' = Stale
  /\ Goto(p, "close")
  /\ UNCHANGED <<pidfile, lock, procVars, loaded, child, contested, faults>>

\* srv.Shutdown closes the listener, which unlinks daemon.sock by its name.
Shutdown(p) ==
  /\ pc[p] = "serve" /\ p \in told \cup ended
  /\ path' = None
  /\ Goto(p, "close")
  /\ UNCHANGED <<pidfile, lock, procVars, loaded, child, contested, faults>>

\* The deferred d.Close.
CloseDaemon(p) ==
  /\ pc[p] = "close"
  /\ lock' = None
  /\ Goto(p, "release")
  /\ UNCHANGED <<pidfile, path, procVars, loaded, child, contested, faults>>

\* The deferred release removes the pid file by its name, and the process ends.
Release(p) ==
  /\ pc[p] = "release"
  /\ pidfile' = None
  /\ Gone(p)
  /\ UNCHANGED <<lock, path, loaded, faults>>

-----------------------------------------------------------------------------
(* The outside.                                                            *)

\* Mutant: a lock file in place of the kernel's lock outlives its process.
KilledKeepsLock(p) ==
  /\ faults < MaxFaults /\ faults' = faults + 1
  /\ lock' = IF lock = p THEN Stale ELSE lock
  /\ path' = IF path = p THEN Stale ELSE path
  /\ pidfile' = IF pidfile = p THEN Stale ELSE pidfile
  /\ Gone(p)

\* A kill, a power loss, a panic outside of a handler: the kernel drops the
\* lock, the files stay.  A failure inside AcquirePidfile ends the process with
\* nothing written, which is a crash at "check" or "write".
Killed(p) ==
  /\ faults < MaxFaults /\ faults' = faults + 1
  /\ lock' = IF lock = p THEN None ELSE lock
  /\ path' = IF path = p THEN Stale ELSE path
  /\ pidfile' = IF pidfile = p THEN Stale ELSE pidfile
  /\ Gone(p)

Crash(p) == pc[p] # "off" /\ Killed(p) /\ UNCHANGED loaded

\* The supervisor starts its child when the unit is loaded, and again
\* whenever it has ended (KeepAlive).
Respawn(p) ==
  /\ loaded /\ child = None /\ pc[p] = "off"
  /\ child' = p
  /\ Goto(p, "check")
  /\ UNCHANGED <<fileVars, procVars, loaded, contested, faults>>

EnableUnit ==
  /\ ~loaded /\ loaded' = TRUE
  /\ UNCHANGED <<pc, fileVars, procVars, child, contested, faults>>

\* The unit is unloaded; its child gets a SIGTERM, which kills it unless
\* signal.Notify has run.
Notified(p) == pc[p] \in {"serve", "close", "release"}

DisableUnit ==
  /\ loaded /\ loaded' = FALSE
  /\ \/ \E p \in Procs : child = p /\ ~Notified(p) /\ Killed(p)
     \/ /\ \A p \in Procs : child = p => Notified(p)
        /\ told' = told \cup {p \in Procs : child = p /\ pc[p] = "serve"}
        /\ child' = None
        /\ UNCHANGED <<pc, fileVars, engine, ended, contested, faults>>

PidReused ==
  /\ pidfile = Stale /\ pidfile' = Foreign
  /\ UNCHANGED <<pc, lock, path, procVars, loaded, child, contested, faults>>

ForeignEnds ==
  /\ pidfile = Foreign /\ pidfile' = Stale
  /\ UNCHANGED <<pc, lock, path, procVars, loaded, child, contested, faults>>

-----------------------------------------------------------------------------
ServeStep(p) ==
  \/ CheckPid(p) \/ WritePid(p) \/ OpenStore(p) \/ LockTimeout(p) \/ RemoveSocket(p)
  \/ Bind(p) \/ Shutdown(p) \/ CloseDaemon(p) \/ Release(p)

Next ==
  \/ \E p \in Procs :
       ServeStep(p) \/ Start(p) \/ StartFails(p) \/ Tell(p) \/ EngineExit(p)
       \/ Crash(p) \/ Respawn(p)
  \/ EnableUnit \/ DisableUnit \/ PidReused \/ ForeignEnds

Spec == Init /\ [][Next]_vars

(* A process that can go on does, and the supervisor starts its child.     *)
(* Nobody has to start, tell, load or unload anything.                     *)
Fairness ==
  /\ \A p \in Procs : WF_vars(ServeStep(p))
  /\ WF_vars(\E p \in Procs : Respawn(p))

FairSpec == Spec /\ Fairness

-----------------------------------------------------------------------------
(* Properties.                                                             *)

\* A serving daemon has the store for itself, and daemon.sock leads to it:
\* rivals that start, give up or shut down beside it take neither away
\* (runDaemonServe opens the store before OpenSocket, and closes it last).
\* So at most one daemon serves.
ServerOwnsHome == \A p \in Procs : pc[p] = "serve" => lock = p /\ path = p

\* The pid file names the daemon that is at work, unless two starts overlapped
\* between AcquirePidfile's check and its write: a daemon that is refused
\* leaves the file alone.
PidfileNamesDaemon ==
  contested \/ \A p \in Procs : pc[p] \notin {"off", "check", "write"} => pidfile = p

\* When no daemon is left and none has failed, no pid file and no socket are
\* left either, also after contested starts (release, unlink on close).
StopLeavesNothing ==
  (\A p \in Procs : pc[p] = "off") /\ faults = 0 => pidfile = None /\ path = None

\* Once the unit is loaded some daemon comes to serve, whatever was left over
\* by crashes, unless the unit is unloaded again or another program lives
\* under the pid in the file.
UnitReachesServe ==
  loaded ~> (\E p \in Procs : pc[p] = "serve") \/ ~loaded \/ pidfile = Foreign

\* cli/daemon_lifecycle.go:139 "proxy may be in API-only mode": a daemon
\* without an engine serves the API until it is told to stop.
ApiOnlyServes ==
  [][\A p \in Procs : pc[p] = "serve" /\ pc'[p] = "close" /\ ~engine[p] => p \in told]_vars
=============================================================================
