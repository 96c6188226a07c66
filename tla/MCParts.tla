------------------------------- MODULE MCParts -------------------------------
(* What works beside the daemon or keeps to itself: the hosts file and its  *)
(* commands, the lock of the menu bar, what install, uninstall and upgrade  *)
(* set up, the terminal UI, and the statistics of the proxy.  The five      *)
(* share no variable, so a behaviour of the run moves one of them; the      *)
(* others stay in one initial state.                                        *)
EXTENDS Hosts, BarLock, Setup, Tui, Stats

CONSTANTS dom1, dom2, target1, target2

MCDomains == {dom1, dom2}

\* A line that maps one route's domain, and one that maps both.
MCUserLines == {{dom1}, {dom1, dom2}}

VARIABLE part

parts == <<hostsVars, barLockVars, setupVars, tuiVars, statsVars>>

HostsStays == routes = [d \in Domains |-> "none"] /\ file = {} /\ ~serving
BarLockStays == lockfile = NoFile
SetupStays == os = "linux"
TuiStays == versions = <<[n \in TuiNames |-> Absent]>>

MCInit ==
  /\ HostsInit /\ BarLockInit /\ SetupInit /\ TuiInit /\ StatsInit
  /\ part \in {"hosts", "lock", "setup", "tui", "stats"}
  /\ part # "hosts" => HostsStays
  /\ part # "lock" => BarLockStays
  /\ part # "setup" => SetupStays
  /\ part # "tui" => TuiStays

MCNext ==
  /\ UNCHANGED part
  /\ \/ part = "hosts" /\ HostsNext /\ UNCHANGED <<barLockVars, setupVars, tuiVars, statsVars>>
     \/ part = "lock" /\ BarLockNext /\ UNCHANGED <<hostsVars, setupVars, tuiVars, statsVars>>
     \/ part = "setup" /\ SetupNext /\ UNCHANGED <<hostsVars, barLockVars, tuiVars, statsVars>>
     \/ part = "tui" /\ TuiNext /\ UNCHANGED <<hostsVars, barLockVars, setupVars, statsVars>>
     \/ part = "stats" /\ StatsNext /\ UNCHANGED <<hostsVars, barLockVars, setupVars, tuiVars>>

MCSpec == MCInit /\ [][MCNext]_<<part, parts>>

TypesOK == HostsTypeOK /\ BarLockTypeOK /\ SetupTypeOK /\ TuiTypeOK /\ StatsTypeOK
=============================================================================
