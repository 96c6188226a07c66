-------------------------------- MODULE Setup --------------------------------
(***************************************************************************)
(* What `mkdev install`, `mkdev uninstall` and the upgrade that goes       *)
(* before every other command change outside the store                     *)
(* (internal/cli/install.go, uninstall.go, internal/upgrade): the CA of    *)
(* the home directory, the system's trust in it (internal/cert), the       *)
(* daemon's unit, the bar's autostart entry and the upgrade marker, which  *)
(* lies in the store and is out of reach while a daemon has it open.       *)
(*                                                                         *)
(* The commands run one at a time, beside the daemon; each may fail or be  *)
(* interrupted at every step.  The hosts file is in Hosts, the bar's       *)
(* process in BarLock.  A CA is a number, a version of the binary too, and *)
(* a unit or an entry is the version it leads to, 0 when there is none.    *)
(***************************************************************************)
EXTENDS Naturals

CONSTANTS
  Systems,      \* the operating systems: "linux", "darwin", "windows"
  MaxCAs,       \* bound on CAs made (model only)
  MaxCommands,  \* bound on commands (model only)
  MaxFaults     \* bound on failures and interrupts (model only)

ASSUME SetupAssumption ==
  /\ Systems \subseteq {"linux", "darwin", "windows"}
  /\ MaxCAs \in Nat /\ MaxCommands \in Nat /\ MaxFaults \in Nat

VARIABLES
  os,
  binary,     \* version.String() of the binary in place
  caCert,     \* rootCA.pem, 0 for none
  caKey,      \* rootCA-key.pem, 0 for none
  made,       \* CAs made so far
  orphan,     \* history: the key there has lost its certificate to a purge
  stored,     \* CAs in the trust store: anchors, keychain, root store
  trusted,    \* CAs the system trusts
  unit, auto, \* the daemon's unit and the bar's autostart entry
  marker,     \* upgrade.version
  pending,    \* upgrade.pending is there
  daemon,     \* "no", or who has started the daemon: "unit", "hand"
  cmd,        \* the command at work and its step
  last,       \* the command that has ended last, while nothing has come after it
  trouble,    \* history: has a step of the last command failed, or a daemon
              \* re-pointed unit and entry beside it
  loose,      \* history: CAs whose entry and trust were separated
  commands, faults

caVars == <<caCert, caKey, made, orphan>>
trustVars == <<stored, trusted, loose>>
entryVars == <<unit, auto>>
markVars == <<marker, pending>>
countVars == <<commands, faults>>
setupVars == <<os, binary, caVars, trustVars, entryVars, markVars, daemon, cmd, last, trouble, countVars>>

CAs == 1..MaxCAs
Versions == 1..2
Commands == {"install", "uninstall", "upgrade"}
Steps == {"ca", "key", "check", "trust", "update", "unit", "enable", "auto", "marker", "pending",
          "disable", "remove unit", "remove auto", "untrust", "purge", "wipe"}
AtRest == [name |-> "none", pc |-> "idle"]

SetupTypeOK ==
  /\ os \in Systems /\ binary \in Versions
  /\ caCert \in 0..MaxCAs /\ caKey \in 0..MaxCAs /\ made \in 0..MaxCAs /\ orphan \in BOOLEAN
  /\ stored \subseteq CAs /\ trusted \subseteq CAs /\ loose \subseteq CAs
  /\ unit \in {0} \cup Versions /\ auto \in {0} \cup Versions /\ marker \in {0} \cup Versions
  /\ pending \in BOOLEAN /\ trouble \in BOOLEAN
  /\ daemon \in {"no", "unit", "hand"}
  /\ cmd \in [name : Commands, pc : Steps] \cup {AtRest}
  /\ last \in Commands \cup {"none"}
  /\ commands \in 0..MaxCommands /\ faults \in 0..MaxFaults

SetupInit ==
  /\ os \in Systems /\ binary = 1
  /\ caCert = 0 /\ caKey = 0 /\ made = 0 /\ orphan = FALSE
  /\ stored = {} /\ trusted = {} /\ loose = {}
  /\ unit = 0 /\ auto = 0 /\ marker = 0 /\ pending = FALSE
  /\ daemon = "no" /\ cmd = AtRest /\ last = "none" /\ trouble = FALSE
  /\ commands = 0 /\ faults = 0

At(name, pc) == cmd = [name |-> name, pc |-> pc]
Goto(pc) == cmd' = [cmd EXCEPT !.pc = pc] /\ UNCHANGED <<last, commands>>
End == cmd' = AtRest /\ last' = cmd.name /\ UNCHANGED commands
Abort == cmd' = AtRest /\ last' = "none" /\ UNCHANGED commands

Fault == faults < MaxFaults /\ faults' = faults + 1 /\ trouble' = TRUE
NoFault == UNCHANGED <<faults, trouble>>

BeginCommand(name, pc) ==
  /\ cmd = AtRest /\ commands < MaxCommands
  /\ cmd' = [name |-> name, pc |-> pc]
  /\ last' = "none" /\ commands' = commands + 1
  /\ trouble' = FALSE /\ UNCHANGED faults

-----------------------------------------------------------------------------
(* The trust store (internal/cert/trust).                                  *)

\* Linux: the anchor is one file, and the system trusts what the update command
\* makes of it.
AnchorIs(ca) == ca \in stored
PutAnchor(ca) == stored' = {ca} /\ UNCHANGED trusted /\ loose' = loose \cup stored \cup {ca}
RemoveAnchor(ca) == stored' = {} /\ UNCHANGED trusted /\ loose' = loose \cup {ca}

\* Darwin: the certificate in the keychain and its trust settings, of which the
\* uninstall removes only the settings.
KeychainHas(ca) == ca \in stored
SettingsHave(ca) == ca \in trusted
AddTrustedCert(ca) == stored' = stored \cup {ca} /\ trusted' = trusted \cup {ca} /\ loose' = loose \ {ca}
RemoveTrustedCert(ca) == UNCHANGED stored /\ trusted' = trusted \ {ca} /\ loose' = loose \cup {ca}

\* Windows: what is in the root store is trusted.
RootStoreHas(ca) == ca \in stored
AddToRootStore(ca) == stored' = stored \cup {ca} /\ trusted' = trusted \cup {ca} /\ loose' = loose \ {ca}
DeleteFromRootStore(ca) == stored' = stored \ {ca} /\ trusted' = trusted \ {ca} /\ loose' = loose \ {ca}

IsInstalled(ca) ==
  CASE os = "linux" -> AnchorIs(ca) [] os = "darwin" -> KeychainHas(ca) [] OTHER -> RootStoreHas(ca)

IsTrusted(ca) ==
  CASE os = "linux" -> AnchorIs(ca) [] os = "darwin" -> SettingsHave(ca) [] OTHER -> RootStoreHas(ca)

TrustInstall(ca) ==
  CASE os = "linux" -> PutAnchor(ca) [] os = "darwin" -> AddTrustedCert(ca) [] OTHER -> AddToRootStore(ca)

TrustUninstall(ca) ==
  CASE os = "linux" -> RemoveAnchor(ca)
    [] os = "darwin" -> RemoveTrustedCert(ca)
    [] OTHER -> DeleteFromRootStore(ca)

\* The Linux update command: anchors and trust agree again.
UpdateTrust == trusted' = stored /\ loose' = {} /\ UNCHANGED stored

-----------------------------------------------------------------------------
(* runInstall.                                                             *)

BeginInstall ==
  /\ BeginCommand("install", "ca")
  /\ UNCHANGED <<os, binary, caVars, trustVars, entryVars, markVars, daemon>>

\* CreateCA writes the certificate first; a CA that is there is loaded, and
\* without its key the install ends here.
InstallCA ==
  /\ At("install", "ca")
  /\ \/ /\ caCert = 0 /\ made < MaxCAs
        /\ caCert' = made + 1 /\ made' = made + 1 /\ Goto("key")
     \/ /\ caCert # 0 /\ caKey # 0
        /\ Goto("check") /\ UNCHANGED <<caCert, made>>
     \/ /\ caCert # 0 /\ caKey = 0
        /\ Abort /\ UNCHANGED <<caCert, made>>
  /\ UNCHANGED <<os, binary, caKey, orphan, trustVars, entryVars, markVars, daemon>> /\ NoFault

\* Over a key that is there the write fails, its file being read-only for all but
\* root (ca.go:34).
WriteKey ==
  /\ At("install", "key")
  /\ \/ caKey' = caCert /\ orphan' = FALSE /\ Goto("check")
     \/ caKey # 0 /\ UNCHANGED <<caKey, orphan>> /\ Abort
  /\ UNCHANGED <<os, binary, caCert, made, trustVars, entryVars, markVars, daemon>> /\ NoFault

\* The install asks whether the CA is in the store, the upgrade (caTrustStale)
\* whether it is trusted, and goes on without an answer when there is no CA.
CheckTrust ==
  /\ cmd.pc = "check"
  /\ Goto(CASE cmd.name = "install" -> IF IsInstalled(caCert) THEN "unit" ELSE "trust"
            [] cmd.name = "upgrade" -> IF caCert # 0 /\ caKey # 0 /\ ~IsTrusted(caCert) THEN "trust" ELSE "marker"
            [] OTHER -> cmd.pc)
  /\ UNCHANGED <<os, binary, caVars, trustVars, entryVars, markVars, daemon>> /\ NoFault

AfterTrust == IF cmd.name = "install" THEN "unit" ELSE "marker"

Trust ==
  /\ cmd.pc = "trust"
  /\ TrustInstall(caCert)
  /\ Goto(IF os = "linux" THEN "update" ELSE AfterTrust)
  /\ UNCHANGED <<os, binary, caVars, entryVars, markVars, daemon>> /\ NoFault

\* After the install's anchor, or the uninstall's removal of it.
Update ==
  /\ cmd.pc = "update"
  /\ UpdateTrust
  /\ Goto(IF cmd.name = "uninstall" THEN "purge" ELSE AfterTrust)
  /\ UNCHANGED <<os, binary, caVars, entryVars, markVars, daemon>> /\ NoFault

\* Mutant: the install goes on.
TrustFailsQuietly ==
  /\ cmd.pc \in {"trust", "update", "untrust"}
  /\ Fault
  /\ CASE cmd.name = "install" -> Goto("unit")
       [] cmd.name = "upgrade" -> Goto("pending")
       [] cmd.name = "uninstall" -> Goto("purge")
  /\ loose' = IF cmd.pc = "untrust" THEN loose \cup (trusted \cap {caCert}) ELSE loose
  /\ UNCHANGED <<os, binary, caVars, stored, trusted, entryVars, markVars, daemon>>

\* No password, a failed command: the install gives up, the upgrade queues the
\* rest, the uninstall goes on.
TrustFails ==
  /\ cmd.pc \in {"trust", "update", "untrust"}
  /\ Fault
  /\ CASE cmd.name = "install" -> Abort
       [] cmd.name = "upgrade" -> Goto("pending")
       [] cmd.name = "uninstall" -> Goto("purge")
  /\ loose' = IF cmd.pc = "untrust" THEN loose \cup (trusted \cap {caCert}) ELSE loose
  /\ UNCHANGED <<os, binary, caVars, stored, trusted, entryVars, markVars, daemon>>

\* InstallUnit.  The service library refuses to write a unit that is there; the
\* install then does not enable it either.
PutUnit ==
  /\ cmd.pc = "unit"
  /\ \/ unit' = binary /\ Goto(IF cmd.name = "install" THEN "enable" ELSE "auto") /\ NoFault
     \/ unit # 0 /\ UNCHANGED unit /\ Goto("auto") /\ NoFault
     \/ UNCHANGED unit /\ Goto("auto") /\ Fault
  /\ UNCHANGED <<os, binary, caVars, trustVars, auto, markVars, daemon>>

\* `mkdev install --no-service` goes from the trust to the marker.
SkipService ==
  /\ At("install", "unit")
  /\ Goto("marker")
  /\ UNCHANGED <<os, binary, caVars, trustVars, entryVars, markVars, daemon>> /\ NoFault

EnableUnit ==
  /\ cmd.pc = "enable"
  /\ \/ daemon' = (IF daemon = "no" THEN "unit" ELSE daemon) /\ NoFault
     \/ UNCHANGED daemon /\ Fault
  /\ Goto("auto")
  /\ UNCHANGED <<os, binary, caVars, trustVars, entryVars, markVars>>

InstallAutostart ==
  /\ cmd.pc = "auto"
  /\ \/ auto' = binary /\ NoFault
     \/ UNCHANGED auto /\ Fault
  /\ Goto(IF cmd.name = "install" THEN "marker" ELSE "check")
  /\ UNCHANGED <<os, binary, caVars, trustVars, unit, markVars, daemon>>

\* WriteMarker and ClearPending: with the store open in the daemon, nothing.
WriteMarker ==
  /\ cmd.pc = "marker"
  /\ IF daemon = "no" THEN marker' = binary /\ pending' = FALSE ELSE UNCHANGED markVars
  /\ End
  /\ UNCHANGED <<os, binary, caVars, trustVars, entryVars, daemon>> /\ NoFault

-----------------------------------------------------------------------------
(* upgrade.Run before a command (maybeUpgrade), and before the daemon.     *)

\* ReadMarker finds nothing while the daemon has the store.
ReadMarker == IF daemon = "no" THEN marker ELSE 0

BeginUpgrade ==
  /\ ReadMarker # binary
  /\ BeginCommand("upgrade", "unit")
  /\ UNCHANGED <<os, binary, caVars, trustVars, entryVars, markVars, daemon>>

\* Also when a hosts entry was missing and could not be written (see Hosts).
WritePending ==
  /\ cmd.pc = "pending" \/ At("upgrade", "marker")
  /\ pending' = (pending \/ daemon = "no")
  /\ End
  /\ UNCHANGED <<os, binary, caVars, trustVars, entryVars, marker, daemon>> /\ NoFault

\* The daemon starts, by hand or by the supervisor, which does not start what an
\* uninstall is disabling; on its way it re-points unit and entry when the marker
\* is not its own version, and queues the rest.
StartDaemon(by) ==
  /\ daemon = "no" /\ (by = "unit" => unit # 0 /\ cmd.name # "uninstall")
  /\ daemon' = by
  /\ IF marker = binary THEN UNCHANGED <<entryVars, pending>>
     ELSE auto' = binary /\ unit' \in {unit, binary} /\ pending' = TRUE
  /\ last' = "none" /\ trouble' = (trouble \/ (cmd # AtRest /\ marker # binary))
  /\ UNCHANGED <<os, binary, caVars, trustVars, marker, cmd, countVars>>

StopDaemon ==
  /\ daemon # "no"
  /\ daemon' = "no"
  /\ UNCHANGED <<os, binary, caVars, trustVars, entryVars, markVars, cmd, last, trouble, countVars>>

ReplaceBinary ==
  /\ binary = 1 /\ cmd = AtRest
  /\ binary' = 2 /\ last' = "none"
  /\ UNCHANGED <<os, caVars, trustVars, entryVars, markVars, daemon, cmd, trouble, countVars>>

-----------------------------------------------------------------------------
(* `mkdev uninstall`.                                                      *)

BeginUninstall ==
  /\ BeginCommand("uninstall", "disable")
  /\ UNCHANGED <<os, binary, caVars, trustVars, entryVars, markVars, daemon>>

\* Mutant: the unit goes without its daemon.
DisableNothing ==
  /\ At("uninstall", "disable")
  /\ Goto("remove unit")
  /\ UNCHANGED <<os, binary, caVars, trustVars, entryVars, markVars, daemon>> /\ NoFault

\* A daemon that was started by hand goes on.
DisableUnit ==
  /\ At("uninstall", "disable")
  /\ \/ daemon' = (IF daemon = "unit" THEN "no" ELSE daemon) /\ NoFault
     \/ UNCHANGED daemon /\ Fault
  /\ Goto("remove unit")
  /\ UNCHANGED <<os, binary, caVars, trustVars, entryVars, markVars>>

UninstallUnit ==
  /\ At("uninstall", "remove unit")
  /\ \/ unit' = 0 /\ NoFault
     \/ UNCHANGED unit /\ Fault
  /\ Goto("remove auto")
  /\ UNCHANGED <<os, binary, caVars, trustVars, auto, markVars, daemon>>

UninstallAutostart ==
  /\ At("uninstall", "remove auto")
  /\ \/ auto' = 0 /\ NoFault
     \/ UNCHANGED auto /\ Fault
  /\ Goto("untrust")
  /\ UNCHANGED <<os, binary, caVars, trustVars, unit, markVars, daemon>>

\* uninstallTrustedCA: nothing without a CA that loads, nor when the CA is not
\* trusted as far as IsTrusted can tell.
Untrust ==
  /\ At("uninstall", "untrust")
  /\ IF caCert # 0 /\ caKey # 0 /\ IsTrusted(caCert)
     THEN TrustUninstall(caCert) /\ Goto(IF os = "linux" THEN "update" ELSE "purge")
     ELSE UNCHANGED trustVars /\ Goto("purge")
  /\ UNCHANGED <<os, binary, caVars, entryVars, markVars, daemon>> /\ NoFault

\* With --purge the home directory goes file by file, in any order, and the CA and
\* the marker with it.  (A daemon started by hand keeps its open store, now without
\* a name; here it also keeps the store out of reach until it ends.)
Purging == At("uninstall", "purge") \/ At("uninstall", "wipe")

PurgeFile ==
  /\ Purging /\ Goto("wipe")
  /\ \/ caCert # 0 /\ caCert' = 0 /\ orphan' = (caKey # 0) /\ UNCHANGED <<caKey, markVars>>
     \/ caKey # 0 /\ caKey' = 0 /\ orphan' = FALSE /\ UNCHANGED <<caCert, markVars>>
     \/ (marker # 0 \/ pending) /\ marker' = 0 /\ pending' = FALSE /\ UNCHANGED <<caCert, caKey, orphan>>
  /\ UNCHANGED <<os, binary, made, trustVars, entryVars, daemon>> /\ NoFault

Purge ==
  /\ Purging /\ caCert = 0 /\ caKey = 0 /\ marker = 0 /\ ~pending
  /\ End
  /\ UNCHANGED <<os, binary, caVars, trustVars, entryVars, markVars, daemon>> /\ NoFault

KeepHome ==
  /\ At("uninstall", "purge")
  /\ End
  /\ UNCHANGED <<os, binary, caVars, trustVars, entryVars, markVars, daemon>> /\ NoFault

\* Ctrl-C, a closed terminal, a crash.
InterruptCommand ==
  /\ cmd # AtRest
  /\ Fault /\ Abort
  /\ UNCHANGED <<os, binary, caVars, trustVars, entryVars, markVars, daemon>>

InstallStep == BeginInstall \/ InstallCA \/ WriteKey \/ SkipService \/ EnableUnit
TrustStep == CheckTrust \/ Trust \/ Update \/ TrustFails
EntryStep == PutUnit \/ InstallAutostart \/ WriteMarker
UpgradeStep == BeginUpgrade \/ WritePending \/ ReplaceBinary
UninstallStep ==
  \/ BeginUninstall \/ DisableUnit \/ UninstallUnit \/ UninstallAutostart \/ Untrust
  \/ PurgeFile \/ Purge \/ KeepHome
DaemonStep == StopDaemon \/ \E by \in {"unit", "hand"} : StartDaemon(by)

SetupNext ==
  \/ InstallStep \/ TrustStep \/ EntryStep \/ UpgradeStep \/ UninstallStep
  \/ DaemonStep \/ InterruptCommand

SetupSpec == SetupInit /\ [][SetupNext]_setupVars

-----------------------------------------------------------------------------
(* Properties.                                                             *)

\* After an install, and after an upgrade no step of which has failed, the CA of
\* the home directory has its key and is trusted.  Its entry in the trust store
\* may have been separated from the system's trust in it: on Linux by a command
\* cut off between the anchor and the update, on darwin by an uninstall, which
\* leaves the certificate in the keychain where the next install finds it
\* (install.go:82-94, upgrade.go:94-106).  And the key may be another's: one that
\* a purge cut off after the certificate has left, which the next install cannot
\* replace and the one after it loads (ca.go:34, install.go:67-77).
TrustAfterSetup ==
  (last = "install" \/ (last = "upgrade" /\ ~trouble /\ caCert # 0 /\ caKey # 0)) =>
    (caKey = caCert \/ orphan) /\ caCert \in trusted \cup loose

\* After an uninstall no step of which has failed there is no unit, no autostart
\* entry, no daemon that a supervisor keeps alive, and no trust in a CA, unless
\* its anchor was separated from the trust in it or its key was missing
\* (uninstall.go:32-62, uninstall.go:100-125).
UninstallIsComplete ==
  (last = "uninstall" /\ ~trouble) =>
    /\ unit = 0 /\ auto = 0 /\ daemon # "unit"
    /\ trusted \subseteq loose
=============================================================================
