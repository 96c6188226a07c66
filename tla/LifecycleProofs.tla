--------------------------- MODULE LifecycleProofs ---------------------------
(* Proofs about Lifecycle: a serving daemon owns the store and the socket,  *)
(* an uncontested start keeps the pid file true, and stops that nothing     *)
(* disturbs leave no file behind, for any number of processes and faults.   *)
EXTENDS Lifecycle, TLAPS

\* Every variable has its type.
THEOREM TypeCorrect == Spec => []TypeOK
<1>1. ASSUME Init PROVE TypeOK
  <2>1. /\ pc \in [Procs -> Stage] /\ engine \in [Procs -> BOOLEAN]
        /\ told \subseteq Procs /\ ended \subseteq Procs /\ faults \in 0..MaxFaults
    BY <1>1, LifecycleAssumption DEF Init, Stage
  <2>2. /\ pidfile \in Procs \cup {None, Stale, Foreign} /\ lock \in Procs \cup {None}
        /\ path \in Procs \cup {None, Stale} /\ child \in Procs \cup {None}
        /\ loaded \in BOOLEAN /\ contested \in BOOLEAN
    BY <1>1, Zenon DEF Init
  <2> QED BY <2>1, <2>2 DEF TypeOK
<1>2. TypeOK /\ [Next]_vars => TypeOK'
  <2> SUFFICES ASSUME TypeOK, [Next]_vars PROVE TypeOK'
    OBVIOUS
  <2> USE LifecycleAssumption DEF TypeOK, Stage, Goto, Gone, Alone, fileVars, procVars
  <2>1. ASSUME NEW p \in Procs, ServeStep(p) PROVE TypeOK'
    <3>1. CASE CheckPid(p) BY <3>1 DEF CheckPid
    <3>2. CASE WritePid(p) BY <3>2 DEF WritePid
    <3>3. CASE OpenStore(p) BY <3>3 DEF OpenStore
    <3>4. CASE LockTimeout(p) BY <3>4 DEF LockTimeout
    <3>5. CASE RemoveSocket(p) BY <3>5 DEF RemoveSocket
    <3>6. CASE Bind(p) BY <3>6 DEF Bind
    <3>7. CASE Shutdown(p) BY <3>7 DEF Shutdown
    <3>8. CASE CloseDaemon(p) BY <3>8 DEF CloseDaemon
    <3>9. CASE Release(p) BY <3>9 DEF Release
    <3> QED BY <2>1, <3>1, <3>2, <3>3, <3>4, <3>5, <3>6, <3>7, <3>8, <3>9 DEF ServeStep
  <2>2. ASSUME NEW p \in Procs, Start(p) \/ Tell(p) \/ EngineExit(p) \/ Respawn(p)
        PROVE TypeOK'
    BY <2>2 DEF Start, Tell, EngineExit, Respawn
  <2>3. ASSUME NEW p \in Procs, StartFails(p) PROVE TypeOK'
    BY <2>3 DEF StartFails
  <2>4. ASSUME NEW p \in Procs, Killed(p), loaded' \in BOOLEAN
        PROVE TypeOK'
    <3>1. /\ pc' \in [Procs -> Stage] /\ engine' \in [Procs -> BOOLEAN]
          /\ told' \subseteq Procs /\ ended' \subseteq Procs /\ faults' \in 0..MaxFaults
      BY <2>4 DEF Killed
    <3>2. /\ pidfile' \in Procs \cup {None, Stale, Foreign} /\ lock' \in Procs \cup {None}
          /\ path' \in Procs \cup {None, Stale} /\ child' \in Procs \cup {None}
      BY <2>4 DEF Killed
    <3>3. contested' \in BOOLEAN
      BY <2>4, Zenon DEF Killed
    <3> QED BY <2>4, <3>1, <3>2, <3>3, Zenon
  <2>5. ASSUME NEW p \in Procs, Crash(p) PROVE TypeOK'
    BY <2>4, <2>5 DEF Crash
  <2>6. CASE DisableUnit
    <3>1. CASE \E p \in Procs : child = p /\ ~Notified(p) /\ Killed(p)
      BY <2>4, <2>6, <3>1 DEF DisableUnit
    <3>2. CASE /\ told' = told \cup {p \in Procs : child = p /\ pc[p] = "serve"}
               /\ child' = None
               /\ UNCHANGED <<pc, fileVars, engine, ended, contested, faults>>
      BY <2>6, <3>2 DEF DisableUnit
    <3> QED BY <2>6, <3>1, <3>2 DEF DisableUnit
  <2>7. CASE EnableUnit \/ PidReused \/ ForeignEnds
    BY <2>7 DEF EnableUnit, PidReused, ForeignEnds
  <2>8. CASE UNCHANGED vars
    BY <2>8 DEF vars
  <2> QED BY <2>1, <2>2, <2>3, <2>5, <2>6, <2>7, <2>8 DEF Next
<1> QED BY <1>1, <1>2, PTL DEF Spec

-----------------------------------------------------------------------------
(* The stages at which a daemon has the store open, and those at which it   *)
(* has written its pid.                                                     *)

Opened == {"socket", "bind", "serve", "close"}
Written == {"store", "socket", "bind", "serve", "close", "release"}

\* Inductive: the store's lock covers all that is done to the socket path.
Ownership ==
  /\ \A p \in Procs : pc[p] \in Opened => lock = p
  /\ \A p \in Procs : pc[p] = "serve" => path = p

\* Inductive: without contention the pid file names each daemon at work.
PidNames == contested \/ \A p \in Procs : pc[p] \in Written => pidfile = p

\* Inductive: without faults the files belong to processes that will remove them.
FilesHaveOwners ==
  faults = 0 =>
    /\ pidfile # None => pidfile \in Procs /\ pc[pidfile] \in Written
    /\ path # None => path \in Procs /\ pc[path] = "serve"

HomeInv == Ownership /\ PidNames /\ FilesHaveOwners

\* One step of runDaemonServe keeps the ownership of the store and the socket.
LEMMA OwnershipServeStep ==
  ASSUME TypeOK, Ownership, NEW p \in Procs, ServeStep(p) \/ StartFails(p)
  PROVE  Ownership'
<1> USE DEF Ownership, Opened, TypeOK, Goto, Gone, fileVars, procVars
<1>1. CASE CheckPid(p) BY <1>1 DEF CheckPid
<1>2. CASE WritePid(p) BY <1>2 DEF WritePid
<1>3. CASE OpenStore(p) BY <1>3, LifecycleAssumption DEF OpenStore
<1>4. CASE LockTimeout(p) BY <1>4 DEF LockTimeout
<1>5. CASE RemoveSocket(p) BY <1>5 DEF RemoveSocket
<1>6. CASE Bind(p) BY <1>6 DEF Bind
<1>7. CASE Shutdown(p) BY <1>7 DEF Shutdown
<1>8. CASE CloseDaemon(p) BY <1>8 DEF CloseDaemon
<1>9. CASE Release(p) BY <1>9 DEF Release
<1>10. CASE StartFails(p) BY <1>10 DEF StartFails
<1> QED BY <1>1, <1>2, <1>3, <1>4, <1>5, <1>6, <1>7, <1>8, <1>9, <1>10 DEF ServeStep

\* One step of runDaemonServe keeps the pid file true, or records the contention.
LEMMA PidNamesServeStep ==
  ASSUME TypeOK, PidNames, NEW p \in Procs, ServeStep(p) \/ StartFails(p)
  PROVE  PidNames'
<1> USE DEF PidNames, Written, TypeOK, Goto, Gone, Alone, fileVars, procVars
<1>1. CASE CheckPid(p) BY <1>1 DEF CheckPid
<1>2. CASE WritePid(p) BY <1>2 DEF WritePid, Stage
<1>3. CASE OpenStore(p) BY <1>3 DEF OpenStore
<1>4. CASE LockTimeout(p) BY <1>4 DEF LockTimeout
<1>5. CASE RemoveSocket(p) BY <1>5 DEF RemoveSocket
<1>6. CASE Bind(p) BY <1>6 DEF Bind
<1>7. CASE Shutdown(p) BY <1>7 DEF Shutdown
<1>8. CASE CloseDaemon(p) BY <1>8 DEF CloseDaemon
<1>9. CASE Release(p) BY <1>9 DEF Release
<1>10. CASE StartFails(p) BY <1>10 DEF StartFails
<1> QED BY <1>1, <1>2, <1>3, <1>4, <1>5, <1>6, <1>7, <1>8, <1>9, <1>10 DEF ServeStep

\* One step of runDaemonServe leaves no file without an owner.
LEMMA FilesServeStep ==
  ASSUME TypeOK, Ownership, FilesHaveOwners, NEW p \in Procs, ServeStep(p) \/ StartFails(p)
  PROVE  FilesHaveOwners'
<1> USE LifecycleAssumption
    DEF FilesHaveOwners, Ownership, Opened, Written, TypeOK, Goto, Gone, fileVars, procVars
<1>1. CASE CheckPid(p) BY <1>1 DEF CheckPid
<1>2. CASE WritePid(p) BY <1>2 DEF WritePid
<1>3. CASE OpenStore(p) BY <1>3 DEF OpenStore
<1>4. CASE LockTimeout(p) BY <1>4 DEF LockTimeout
<1>5. CASE RemoveSocket(p) BY <1>5 DEF RemoveSocket
<1>6. CASE Bind(p) BY <1>6 DEF Bind
<1>7. CASE Shutdown(p) BY <1>7 DEF Shutdown
<1>8. CASE CloseDaemon(p) BY <1>8 DEF CloseDaemon
<1>9. CASE Release(p) BY <1>9 DEF Release
<1>10. CASE StartFails(p) BY <1>10 DEF StartFails
<1> QED BY <1>1, <1>2, <1>3, <1>4, <1>5, <1>6, <1>7, <1>8, <1>9, <1>10 DEF ServeStep

\* A killed process takes its lock with it; the files it leaves are Stale.
LEMMA KilledStep ==
  ASSUME TypeOK, HomeInv, NEW p \in Procs, Killed(p)
  PROVE  HomeInv'
<1> USE LifecycleAssumption DEF HomeInv, TypeOK, Goto, Gone, Killed
<1>1. Ownership' BY DEF Ownership, Opened
<1>2. PidNames' BY DEF PidNames, Written, Alone
<1>3. FilesHaveOwners' BY DEF FilesHaveOwners
<1> QED BY <1>1, <1>2, <1>3

\* What happens outside of runDaemonServe.
LEMMA OutsideStep ==
  ASSUME TypeOK, HomeInv,
         (\E p \in Procs : Start(p) \/ Tell(p) \/ EngineExit(p) \/ Crash(p) \/ Respawn(p))
           \/ EnableUnit \/ DisableUnit \/ PidReused \/ ForeignEnds
  PROVE  HomeInv'
<1> DEFINE Quiet == UNCHANGED <<pidfile, lock, path, contested, faults>>
<1>1. ASSUME Quiet, UNCHANGED pc PROVE HomeInv'
  BY <1>1 DEF HomeInv, Ownership, PidNames, FilesHaveOwners
<1>2. ASSUME Quiet, NEW p \in Procs, pc[p] = "off", Goto(p, "check") PROVE HomeInv'
  BY <1>2 DEF HomeInv, Ownership, PidNames, FilesHaveOwners, Opened, Written, Goto, TypeOK
<1>3. CASE \E p \in Procs : Start(p) \/ Respawn(p)
  BY <1>2, <1>3 DEF Start, Respawn, fileVars
<1>4. CASE (\E p \in Procs : Tell(p) \/ EngineExit(p)) \/ EnableUnit
  BY <1>1, <1>4 DEF Tell, EngineExit, EnableUnit, fileVars
<1>5. CASE \E p \in Procs : Crash(p)
  BY <1>5, KilledStep DEF Crash
<1>6. CASE DisableUnit
  BY <1>1, <1>6, KilledStep DEF DisableUnit, fileVars
<1>7. CASE PidReused \/ ForeignEnds
  <2> USE <1>7, LifecycleAssumption DEF HomeInv, TypeOK, PidReused, ForeignEnds
  <2>1. Ownership' BY DEF Ownership
  <2>2. PidNames' BY DEF PidNames, Written
  <2>3. FilesHaveOwners' BY DEF FilesHaveOwners
  <2> QED BY <2>1, <2>2, <2>3
<1> QED BY <1>3, <1>4, <1>5, <1>6, <1>7

\* The inductive invariant.
THEOREM HomeInvariant == Spec => []HomeInv
<1>1. Init => HomeInv
  BY LifecycleAssumption DEF Init, HomeInv, Ownership, PidNames, FilesHaveOwners, Opened, Written
<1>2. TypeOK /\ HomeInv /\ [Next]_vars => HomeInv'
  <2> SUFFICES ASSUME TypeOK, HomeInv, [Next]_vars PROVE HomeInv'
    OBVIOUS
  <2>1. CASE \E p \in Procs : ServeStep(p) \/ StartFails(p)
    BY <2>1, OwnershipServeStep, PidNamesServeStep, FilesServeStep DEF HomeInv
  <2>2. CASE UNCHANGED vars
    BY <2>2 DEF vars, fileVars, HomeInv, Ownership, PidNames, FilesHaveOwners
  <2> QED BY <2>1, <2>2, OutsideStep DEF Next
<1> QED BY <1>1, <1>2, TypeCorrect, PTL DEF Spec

\* A serving daemon has the store's lock, and daemon.sock leads to it.
THEOREM ServingOwns == Spec => []ServerOwnsHome
<1>1. HomeInv => ServerOwnsHome
  BY DEF HomeInv, Ownership, Opened, ServerOwnsHome
<1> QED BY <1>1, HomeInvariant, PTL

\* The pid file names the daemon at work unless two starts overlapped.
THEOREM PidfileTrue == Spec => []PidfileNamesDaemon
<1>1. TypeOK /\ HomeInv => PidfileNamesDaemon
  BY DEF TypeOK, Stage, HomeInv, PidNames, Written, PidfileNamesDaemon
<1> QED BY <1>1, TypeCorrect, HomeInvariant, PTL

\* Stops without a fault leave neither a pid file nor a socket.
THEOREM StopsClean == Spec => []StopLeavesNothing
<1>1. HomeInv => StopLeavesNothing
  BY DEF HomeInv, FilesHaveOwners, Written, StopLeavesNothing
<1> QED BY <1>1, HomeInvariant, PTL
=============================================================================
